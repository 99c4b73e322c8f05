---------------------------- MODULE LiveCallProofs ----------------------------
(***************************************************************************)
(* Proofs about LiveCall, for any number of responses, deltas, starts of   *)
(* speech and events in flight, and any faults.                            *)
(***************************************************************************)
EXTENDS LiveCall, FiniteSetTheorems, TLAPS

-------------------------------------------------------------------------------
(* Types *)

(* What the sender of an event may assume of the queue, and its receiver. *)
LEMMA SendTyped ==
  ASSUME NEW type, NEW n, <<type, n>> \in Events, inbox \in Seq(Events), Send(type, n)
  PROVE  inbox' \in Seq(Events)
BY DEF Send

(* What the receiver of an event may assume of the rest of the queue, *)
LEMMA ReceiveTyped ==
  ASSUME NEW type, NEW n, inbox \in Seq(Events), Receive(type, n)
  PROVE  inbox' \in Seq(Events)
BY DEF Receive

(* and the events there are. *)
LEMMA EventsTyped ==
  /\ \A n \in Responses : \A type \in {"item", "audio", "text", "call", "done"} :
       <<type, n>> \in Events
  /\ \A k \in Speeches : <<"speech", k>> \in Events /\ <<"user", k>> \in Events
BY DEF Events

(* A response in progress is one of those there are. *)
LEMMA ActiveTyped == TypeOK => (active # 0 => active \in Responses)
BY LiveCallAssumption DEF TypeOK, ServerTypes, Responses

(* One field of one response's output changes. *)
LEMMA OutputsTyped ==
  ASSUME TypeOK, active # 0
  PROVE  /\ [out EXCEPT ![active].item = TRUE] \in [Responses -> Outputs]
         /\ [out EXCEPT ![active].call = TRUE] \in [Responses -> Outputs]
         /\ [out EXCEPT ![active].done = TRUE] \in [Responses -> Outputs]
         /\ out[active].audio < MaxDeltas =>
              [out EXCEPT ![active].audio = @ + 1] \in [Responses -> Outputs]
         /\ out[active].text < MaxDeltas =>
              [out EXCEPT ![active].text = @ + 1] \in [Responses -> Outputs]
<1>1. active \in Responses /\ out \in [Responses -> Outputs] /\ out[active] \in Outputs
  BY ActiveTyped DEF TypeOK, ServerTypes
<1>2. MaxDeltas \in Nat
  BY LiveCallAssumption
<1>3. /\ [out[active] EXCEPT !.item = TRUE] \in Outputs
      /\ [out[active] EXCEPT !.call = TRUE] \in Outputs
      /\ [out[active] EXCEPT !.done = TRUE] \in Outputs
  BY <1>1 DEF Outputs
<1>4. out[active].audio < MaxDeltas => [out[active] EXCEPT !.audio = @ + 1] \in Outputs
  BY <1>1, <1>2 DEF Outputs
<1>5. out[active].text < MaxDeltas => [out[active] EXCEPT !.text = @ + 1] \in Outputs
  BY <1>1, <1>2 DEF Outputs
<1> QED
  BY <1>1, <1>3, <1>4, <1>5

(* The turns that handlers add to the transcript. *)
LEMMA SegmentsTyped ==
  ASSUME TypeOK
  PROVE  /\ Append(segments, [by |-> "agent", said |-> text]) \in Seq(Segments)
         /\ \A k \in Speeches :
              Append(segments, [by |-> "customer", said |-> <<k>>]) \in Seq(Segments)
<1>1. [by |-> "agent", said |-> text] \in Segments
  BY DEF TypeOK, BridgeTypes, Segments
<1>2. \A k \in Speeches : [by |-> "customer", said |-> <<k>>] \in Segments
  BY DEF Segments
<1> QED
  BY <1>1, <1>2 DEF TypeOK, BridgeTypes

(* The initial state is typed. *)
LEMMA InitTyped == Init => TypeOK
<1> SUFFICES ASSUME Init
             PROVE  TypeOK
  OBVIOUS
<1> USE LiveCallAssumption DEF Init
<1>1. Nothing \in Outputs
  BY DEF Nothing, Outputs
<1>2. ServerTypes
  <2>1. out \in [Responses -> Outputs] /\ inbox \in Seq(Events)
    BY <1>1
  <2>2. /\ made \in 0..MaxResponses /\ active \in 0..MaxResponses
        /\ speeches \in 0..MaxSpeeches /\ heardOf \in 0..MaxSpeeches
    OBVIOUS
  <2> QED
    BY <2>1, <2>2 DEF ServerTypes
<1>3. BridgeTypes
  BY DEF BridgeTypes
<1>4. HistoryTypes
  BY DEF HistoryTypes
<1> QED
  BY <1>2, <1>3, <1>4 DEF TypeOK

(* Every variable keeps its type.                                          *)
THEOREM TypeCorrect == Spec => []TypeOK
<1>1. Init => TypeOK
  BY InitTyped
<1>2. TypeOK /\ [Next]_vars => TypeOK'
  <2> SUFFICES ASSUME TypeOK, [Next]_vars
               PROVE  TypeOK'
    OBVIOUS
  <2> USE DEF server, tracker, tools, words, line, audio, bridge
  <2>1. CASE UNCHANGED vars
    <3>1. ServerTypes'
      BY <2>1 DEF TypeOK, ServerTypes, vars
    <3>2. BridgeTypes'
      BY <2>1 DEF TypeOK, BridgeTypes, vars
    <3>3. HistoryTypes'
      BY <2>1 DEF TypeOK, BridgeTypes, HistoryTypes, vars
    <3> QED
      BY <3>1, <3>2, <3>3 DEF TypeOK
  <2>2. CASE StartResponse
    <3>1. ServerTypes'
      <4>1. /\ made' = made + 1 /\ active' = made + 1 /\ cancelled' = FALSE
            /\ made < MaxResponses /\ UNCHANGED <<out, speeches, heardOf, inbox>>
        BY <2>2 DEF StartResponse
      <4>2. made + 1 \in 0..MaxResponses
        BY <4>1, LiveCallAssumption DEF TypeOK, ServerTypes
      <4> QED
        BY <4>1, <4>2 DEF TypeOK, ServerTypes
    <3>2. BridgeTypes'
      BY <2>2 DEF StartResponse, TypeOK, BridgeTypes
    <3>3. HistoryTypes'
      BY <2>2 DEF StartResponse, TypeOK, BridgeTypes, HistoryTypes
    <3> QED
      BY <3>1, <3>2, <3>3 DEF TypeOK
  <2>3. CASE AddItem
    <3>1. ServerTypes'
      BY <2>3, SendTyped, EventsTyped, ActiveTyped, OutputsTyped DEF AddItem, TypeOK, ServerTypes, Generates
    <3>2. BridgeTypes'
      BY <2>3 DEF AddItem, TypeOK, BridgeTypes, Generates
    <3>3. HistoryTypes'
      BY <2>3 DEF AddItem, TypeOK, BridgeTypes, HistoryTypes, Generates
    <3> QED
      BY <3>1, <3>2, <3>3 DEF TypeOK
  <2>4. CASE SendAudio
    <3>1. ServerTypes'
      BY <2>4, SendTyped, EventsTyped, ActiveTyped, OutputsTyped DEF SendAudio, TypeOK, ServerTypes, Generates
    <3>2. BridgeTypes'
      BY <2>4 DEF SendAudio, TypeOK, BridgeTypes, Generates
    <3>3. HistoryTypes'
      BY <2>4 DEF SendAudio, TypeOK, BridgeTypes, HistoryTypes, Generates
    <3> QED
      BY <3>1, <3>2, <3>3 DEF TypeOK
  <2>5. CASE SendText
    <3>1. ServerTypes'
      BY <2>5, SendTyped, EventsTyped, ActiveTyped, OutputsTyped DEF SendText, TypeOK, ServerTypes, Generates
    <3>2. BridgeTypes'
      BY <2>5 DEF SendText, TypeOK, BridgeTypes, Generates
    <3>3. HistoryTypes'
      BY <2>5 DEF SendText, TypeOK, BridgeTypes, HistoryTypes, Generates
    <3> QED
      BY <3>1, <3>2, <3>3 DEF TypeOK
  <2>6. CASE CallFunction
    <3>1. ServerTypes'
      BY <2>6, SendTyped, EventsTyped, ActiveTyped, OutputsTyped DEF CallFunction, TypeOK, ServerTypes, Generates
    <3>2. BridgeTypes'
      BY <2>6 DEF CallFunction, TypeOK, BridgeTypes, Generates
    <3>3. HistoryTypes'
      BY <2>6 DEF CallFunction, TypeOK, BridgeTypes, HistoryTypes, Generates
    <3> QED
      BY <3>1, <3>2, <3>3 DEF TypeOK
  <2>7. CASE EndResponse
    <3>1. ServerTypes'
      <4>1. /\ active # 0 /\ Send("done", active) /\ active' = 0 /\ cancelled' = FALSE
            /\ out' = [out EXCEPT ![active].done = TRUE]
            /\ UNCHANGED <<made, speeches, heardOf>>
        BY <2>7 DEF EndResponse
      <4>2. inbox' \in Seq(Events) /\ out' \in [Responses -> Outputs]
        BY <4>1, SendTyped, EventsTyped, ActiveTyped, OutputsTyped DEF TypeOK, ServerTypes
      <4>3. 0 \in 0..MaxResponses
        BY LiveCallAssumption
      <4> QED
        BY <4>1, <4>2, <4>3 DEF TypeOK, ServerTypes
    <3>2. BridgeTypes'
      BY <2>7 DEF EndResponse, TypeOK, BridgeTypes
    <3>3. HistoryTypes'
      BY <2>7 DEF EndResponse, TypeOK, BridgeTypes, HistoryTypes
    <3> QED
      BY <3>1, <3>2, <3>3 DEF TypeOK
  <2>8. CASE Speak
    <3>1. ServerTypes'
      <4>1. /\ speeches < MaxSpeeches /\ Send("speech", speeches + 1) /\ speeches' = speeches + 1
            /\ UNCHANGED <<made, active, cancelled, out, heardOf>>
        BY <2>8 DEF Speak
      <4>2. speeches + 1 \in Speeches /\ speeches + 1 \in 0..MaxSpeeches
        BY <4>1, LiveCallAssumption DEF TypeOK, ServerTypes, Speeches
      <4>3. inbox' \in Seq(Events)
        BY <4>1, <4>2, SendTyped, EventsTyped DEF TypeOK, ServerTypes
      <4> QED
        BY <4>1, <4>2, <4>3 DEF TypeOK, ServerTypes
    <3>2. BridgeTypes'
      BY <2>8 DEF Speak, TypeOK, BridgeTypes, Speeches
    <3>3. HistoryTypes'
      BY <2>8 DEF Speak, TypeOK, BridgeTypes, HistoryTypes, Speeches
    <3> QED
      BY <3>1, <3>2, <3>3 DEF TypeOK
  <2>9. CASE Transcribe
    <3>1. ServerTypes'
      <4>1. /\ heardOf < speeches /\ Send("user", heardOf + 1) /\ heardOf' = heardOf + 1
            /\ UNCHANGED <<made, active, cancelled, out, speeches>>
        BY <2>9 DEF Transcribe
      <4>2. heardOf + 1 \in Speeches /\ heardOf + 1 \in 0..MaxSpeeches
        BY <4>1, LiveCallAssumption DEF TypeOK, ServerTypes, Speeches
      <4>3. inbox' \in Seq(Events)
        BY <4>1, <4>2, SendTyped, EventsTyped DEF TypeOK, ServerTypes
      <4> QED
        BY <4>1, <4>2, <4>3 DEF TypeOK, ServerTypes
    <3>2. BridgeTypes'
      BY <2>9 DEF Transcribe, TypeOK, BridgeTypes, Speeches
    <3>3. HistoryTypes'
      BY <2>9 DEF Transcribe, TypeOK, BridgeTypes, HistoryTypes, Speeches
    <3> QED
      BY <3>1, <3>2, <3>3 DEF TypeOK
  <2>10. CASE CloseOpenAI
    <3>1. ServerTypes'
      BY <2>10 DEF CloseOpenAI, TypeOK, ServerTypes
    <3>2. BridgeTypes'
      BY <2>10 DEF CloseOpenAI, TypeOK, BridgeTypes
    <3>3. HistoryTypes'
      BY <2>10 DEF CloseOpenAI, TypeOK, BridgeTypes, HistoryTypes
    <3> QED
      BY <3>1, <3>2, <3>3 DEF TypeOK
  <2>11. CASE HangUp
    <3>1. ServerTypes'
      BY <2>11 DEF HangUp, TypeOK, ServerTypes
    <3>2. BridgeTypes'
      BY <2>11 DEF HangUp, TypeOK, BridgeTypes
    <3>3. HistoryTypes'
      BY <2>11 DEF HangUp, TypeOK, BridgeTypes, HistoryTypes
    <3> QED
      BY <3>1, <3>2, <3>3 DEF TypeOK
  <2>12. CASE Play
    <3>1. ServerTypes'
      BY <2>12 DEF Play, TypeOK, ServerTypes
    <3>2. BridgeTypes'
      BY <2>12 DEF Play, TypeOK, BridgeTypes
    <3>3. HistoryTypes'
      BY <2>12 DEF Play, TypeOK, BridgeTypes, HistoryTypes
    <3> QED
      BY <3>1, <3>2, <3>3 DEF TypeOK
  <2>13. ASSUME NEW n \in Responses, OnAiAudio(n)
       PROVE  TypeOK'
    <3>1. ServerTypes'
      BY <2>13, ReceiveTyped DEF OnAiAudio, TypeOK, ServerTypes
    <3>2. BridgeTypes'
      BY <2>13 DEF OnAiAudio, TypeOK, BridgeTypes
    <3>3. HistoryTypes'
      <4>1. /\ UNCHANGED <<truncated, ran, answered, cleared>>
            /\ \/ UNCHANGED <<buffer, sent>>
               \/ buffer' = buffer + 1 /\ sent' = [sent EXCEPT ![n] = @ + 1]
        BY <2>13 DEF OnAiAudio
      <4> QED
        BY <4>1 DEF TypeOK, HistoryTypes
    <3> QED
      BY <3>1, <3>2, <3>3 DEF TypeOK
  <2>14. ASSUME NEW n \in Responses, OnOutputItemAdded(n)
       PROVE  TypeOK'
    <3>1. ServerTypes'
      BY <2>14, ReceiveTyped, LiveCallAssumption DEF OnOutputItemAdded, TypeOK, ServerTypes, Responses
    <3>2. BridgeTypes'
      BY <2>14, ReceiveTyped, LiveCallAssumption DEF OnOutputItemAdded, TypeOK, BridgeTypes, Responses
    <3>3. HistoryTypes'
      BY <2>14, ReceiveTyped, LiveCallAssumption DEF OnOutputItemAdded, TypeOK, BridgeTypes, HistoryTypes, Responses
    <3> QED
      BY <3>1, <3>2, <3>3 DEF TypeOK
  <2>15. ASSUME NEW n \in Responses, OnAiTranscript(n)
       PROVE  TypeOK'
    <3>1. ServerTypes'
      BY <2>15, ReceiveTyped DEF OnAiTranscript, TypeOK, ServerTypes
    <3>2. BridgeTypes'
      BY <2>15 DEF OnAiTranscript, TypeOK, BridgeTypes
    <3>3. HistoryTypes'
      BY <2>15 DEF OnAiTranscript, TypeOK, BridgeTypes, HistoryTypes
    <3> QED
      BY <3>1, <3>2, <3>3 DEF TypeOK
  <2>16. ASSUME NEW n \in Responses, OnResponseDone(n)
       PROVE  TypeOK'
    <3>1. ServerTypes'
      BY <2>16, ReceiveTyped, SegmentsTyped DEF OnResponseDone, TypeOK, ServerTypes
    <3>2. BridgeTypes'
      BY <2>16, SegmentsTyped DEF OnResponseDone, TypeOK, BridgeTypes
    <3>3. HistoryTypes'
      BY <2>16, SegmentsTyped DEF OnResponseDone, TypeOK, BridgeTypes, HistoryTypes
    <3> QED
      BY <3>1, <3>2, <3>3 DEF TypeOK
  <2>17. ASSUME NEW n \in Responses, OnToolCall(n)
       PROVE  TypeOK'
    <3>1. ServerTypes'
      BY <2>17, ReceiveTyped, LiveCallAssumption DEF OnToolCall, TypeOK, ServerTypes, Responses
    <3>2. BridgeTypes'
      BY <2>17, ReceiveTyped, LiveCallAssumption DEF OnToolCall, TypeOK, BridgeTypes, Responses
    <3>3. HistoryTypes'
      BY <2>17, ReceiveTyped, LiveCallAssumption DEF OnToolCall, TypeOK, BridgeTypes, HistoryTypes, Responses
    <3> QED
      BY <3>1, <3>2, <3>3 DEF TypeOK
  <2>18. ASSUME NEW k \in Speeches, OnUserTranscript(k)
       PROVE  TypeOK'
    <3>1. ServerTypes'
      BY <2>18, ReceiveTyped, SegmentsTyped DEF OnUserTranscript, TypeOK, ServerTypes
    <3>2. BridgeTypes'
      BY <2>18, SegmentsTyped DEF OnUserTranscript, TypeOK, BridgeTypes
    <3>3. HistoryTypes'
      BY <2>18, SegmentsTyped DEF OnUserTranscript, TypeOK, BridgeTypes, HistoryTypes
    <3> QED
      BY <3>1, <3>2, <3>3 DEF TypeOK
  <2>19. ASSUME NEW k \in Speeches, OnSpeechStarted(k)
       PROVE  TypeOK'
    <3>1. ServerTypes'
      BY <2>19, ReceiveTyped DEF OnSpeechStarted, TypeOK, ServerTypes
    <3>2. BridgeTypes'
      BY <2>19, ReceiveTyped DEF OnSpeechStarted, TypeOK, BridgeTypes
    <3>3. HistoryTypes'
      BY <2>19, ReceiveTyped DEF OnSpeechStarted, TypeOK, BridgeTypes, HistoryTypes
    <3> QED
      BY <3>1, <3>2, <3>3 DEF TypeOK
  <2>20. CASE Truncate
    <3>1. ServerTypes'
      BY <2>20, LiveCallAssumption DEF Truncate, TypeOK, ServerTypes, Responses
    <3>2. BridgeTypes'
      BY <2>20, LiveCallAssumption DEF Truncate, TypeOK, BridgeTypes, Responses
    <3>3. HistoryTypes'
      <4>1. /\ UNCHANGED <<buffer, sent, ran, answered, cleared>>
            /\ \/ truncated' = truncated
               \/ item # 0 /\ truncated' = truncated \cup {<<item, played>>}
        BY <2>20 DEF Truncate, server, tools, audio
      <4>2. item # 0 => item \in Responses /\ played \in Nat
        BY LiveCallAssumption DEF TypeOK, BridgeTypes, Responses
      <4>3. truncated' \subseteq Responses \X Nat
        BY <4>1, <4>2 DEF TypeOK, HistoryTypes
      <4> QED
        BY <4>1, <4>3 DEF TypeOK, HistoryTypes
    <3> QED
      BY <3>1, <3>2, <3>3 DEF TypeOK
  <2>21. CASE ClearTwilio
    <3>1. ServerTypes'
      BY <2>21 DEF ClearTwilio, TypeOK, ServerTypes
    <3>2. BridgeTypes'
      <4>1. /\ handler' = "wait" /\ UNCHANGED <<tools, words, line>>
            /\ item' \in {0, item} /\ played' \in {0, played}
        BY <2>21 DEF ClearTwilio
      <4> QED
        BY <4>1, LiveCallAssumption DEF TypeOK, BridgeTypes
    <3>3. HistoryTypes'
      BY <2>21 DEF ClearTwilio, TypeOK, BridgeTypes, HistoryTypes
    <3> QED
      BY <3>1, <3>2, <3>3 DEF TypeOK
  <2>22. CASE ExecuteTool
    <3>1. ServerTypes'
      BY <2>22 DEF ExecuteTool, TypeOK, ServerTypes
    <3>2. BridgeTypes'
      BY <2>22 DEF ExecuteTool, TypeOK, BridgeTypes
    <3>3. HistoryTypes'
      BY <2>22 DEF ExecuteTool, TypeOK, BridgeTypes, HistoryTypes
    <3> QED
      BY <3>1, <3>2, <3>3 DEF TypeOK
  <2>23. CASE SendToolResult
    <3>1. ServerTypes'
      BY <2>23 DEF SendToolResult, TypeOK, ServerTypes, AbandonCall
    <3>2. BridgeTypes'
      <4>1. /\ handler' \in {"request", "wait"} /\ calling' \in {0, calling}
            /\ outcome' \in {"none", outcome} /\ UNCHANGED <<tracker, words, line>>
        BY <2>23 DEF SendToolResult, AbandonCall
      <4> QED
        BY <4>1, LiveCallAssumption DEF TypeOK, BridgeTypes
    <3>3. HistoryTypes'
      <4>1. /\ UNCHANGED <<buffer, sent, truncated, ran, cleared>>
            /\ answered' \in {answered, [answered EXCEPT ![calling] = @ + 1]}
        BY <2>23 DEF SendToolResult
      <4>2. answered \in [Responses -> Nat]
        BY DEF TypeOK, HistoryTypes
      <4>3. [answered EXCEPT ![calling] = @ + 1] \in [Responses -> Nat]
        <5>1. CASE calling \in Responses
          BY <4>2, <5>1
        <5>2. CASE calling \notin Responses
          BY <4>2, <5>2, Zenon
        <5> QED
          BY <5>1, <5>2
      <4> QED
        BY <4>1, <4>2, <4>3 DEF TypeOK, HistoryTypes
    <3> QED
      BY <3>1, <3>2, <3>3 DEF TypeOK
  <2>24. CASE RequestResponse
    <3>1. ServerTypes'
      BY <2>24 DEF RequestResponse, TypeOK, ServerTypes, AbandonCall
    <3>2. BridgeTypes'
      <4>1. /\ handler' \in {"acting", "wait"} /\ calling' \in {0, calling}
            /\ outcome' \in {"none", outcome} /\ UNCHANGED <<tracker, words, line>>
        BY <2>24 DEF RequestResponse, AbandonCall
      <4> QED
        BY <4>1, LiveCallAssumption DEF TypeOK, BridgeTypes
    <3>3. HistoryTypes'
      BY <2>24 DEF RequestResponse, TypeOK, BridgeTypes, HistoryTypes, AbandonCall
    <3> QED
      BY <3>1, <3>2, <3>3 DEF TypeOK
  <2>25. CASE ActOnResult
    <3>1. ServerTypes'
      BY <2>25 DEF ActOnResult, TypeOK, ServerTypes, AbandonCall
    <3>2. BridgeTypes'
      <4>1. /\ handler' = "wait" /\ calling' = 0 /\ outcome' = "none"
            /\ UNCHANGED <<segments, loops, sockets>>
            /\ is_active' \in BOOLEAN /\ item' = 0 /\ played' = 0 /\ text' = <<>>
        BY <2>25 DEF ActOnResult, AbandonCall, TypeOK, BridgeTypes
      <4> QED
        BY <4>1, LiveCallAssumption DEF TypeOK, BridgeTypes
    <3>3. HistoryTypes'
      BY <2>25 DEF ActOnResult, TypeOK, BridgeTypes, HistoryTypes, AbandonCall
    <3> QED
      BY <3>1, <3>2, <3>3 DEF TypeOK
  <2>26. CASE ActFails
    <3>1. ServerTypes'
      BY <2>26 DEF ActFails, TypeOK, ServerTypes, AbandonCall
    <3>2. BridgeTypes'
      <4>1. /\ handler' = "wait" /\ calling' = 0 /\ outcome' = "none"
            /\ UNCHANGED <<segments, loops, sockets>>
            /\ is_active' \in BOOLEAN /\ UNCHANGED <<item, played, text>>
        BY <2>26 DEF ActFails, AbandonCall, TypeOK, BridgeTypes
      <4> QED
        BY <4>1, LiveCallAssumption DEF TypeOK, BridgeTypes
    <3>3. HistoryTypes'
      BY <2>26 DEF ActFails, TypeOK, BridgeTypes, HistoryTypes, AbandonCall
    <3> QED
      BY <3>1, <3>2, <3>3 DEF TypeOK
  <2>27. CASE OpenAILoopEnds
    <3>1. ServerTypes'
      BY <2>27 DEF OpenAILoopEnds, TypeOK, ServerTypes
    <3>2. BridgeTypes'
      BY <2>27 DEF OpenAILoopEnds, TypeOK, BridgeTypes
    <3>3. HistoryTypes'
      BY <2>27 DEF OpenAILoopEnds, TypeOK, BridgeTypes, HistoryTypes
    <3> QED
      BY <3>1, <3>2, <3>3 DEF TypeOK
  <2>28. CASE TwilioLoopEnds
    <3>1. ServerTypes'
      BY <2>28 DEF TwilioLoopEnds, TypeOK, ServerTypes
    <3>2. BridgeTypes'
      BY <2>28 DEF TwilioLoopEnds, TypeOK, BridgeTypes
    <3>3. HistoryTypes'
      BY <2>28 DEF TwilioLoopEnds, TypeOK, BridgeTypes, HistoryTypes
    <3> QED
      BY <3>1, <3>2, <3>3 DEF TypeOK
  <2> QED
    BY <2>1, <2>2, <2>3, <2>4, <2>5, <2>6, <2>7, <2>8, <2>9, <2>10, <2>11, <2>12, <2>13,
       <2>14, <2>15, <2>16, <2>17, <2>18, <2>19, <2>20, <2>21, <2>22, <2>23, <2>24, <2>25, <2>26, <2>27, <2>28
    DEF Next, Generate, Handle
<1> QED
  BY <1>1, <1>2, PTL DEF Spec

-------------------------------------------------------------------------------
(* The order of the events in flight *)

ItemEvent(n)  == <<"item", n>>
AudioEvent(n) == <<"audio", n>>

(* Audio in flight belongs to the last item announced before it: the       *)
(* bridge's current one, or one announced in flight.                       *)
AudioFollowsItem ==
  \A j \in 1..Len(inbox) : \A n \in Responses : inbox[j] = AudioEvent(n) =>
    /\ item \in {0, n} \/ \E i \in 1..Len(inbox) : i < j /\ inbox[i] = ItemEvent(n)
    /\ \A i \in 1..Len(inbox) : \A m \in Responses : i < j /\ inbox[i] = ItemEvent(m) =>
         m = n \/ \E k \in 1..Len(inbox) : i < k /\ k < j /\ inbox[k] = ItemEvent(n)

(* The item of the response OpenAI generates is the last one announced.    *)
ActiveItemIsLast ==
  active # 0 /\ out[active].item =>
    /\ item \in {0, active} \/ \E i \in 1..Len(inbox) : inbox[i] = ItemEvent(active)
    /\ \A i \in 1..Len(inbox) : \A m \in Responses : inbox[i] = ItemEvent(m) =>
         m = active \/ \E k \in 1..Len(inbox) : i < k /\ inbox[k] = ItemEvent(active)

FutureIsSilent ==
  /\ active <= made
  /\ \A n \in Responses : n > made => ~out[n].item

OrderInv == AudioFollowsItem /\ ActiveItemIsLast /\ FutureIsSilent

TrackerInv == TypeOK /\ OrderInv /\ TruncationWithinSent

(* What receiving an event does to the positions of the others.            *)
LEMMA ReceiveShifts ==
  ASSUME TypeOK, NEW type, NEW n, Receive(type, n)
  PROVE  /\ Len(inbox) > 0 /\ inbox[1] = <<type, n>>
         /\ Len(inbox') = Len(inbox) - 1
         /\ \A i \in 1..Len(inbox') : inbox'[i] = inbox[i + 1]
BY DEF TypeOK, ServerTypes, Receive

(* An event that is sent is the last of the queue. *)
LEMMA SendAppends ==
  ASSUME TypeOK, NEW type, NEW n, Send(type, n)
  PROVE  /\ Len(inbox') = Len(inbox) + 1
         /\ inbox'[Len(inbox')] = <<type, n>>
         /\ \A i \in 1..Len(inbox) : inbox'[i] = inbox[i]
BY DEF TypeOK, ServerTypes, Send

(* An item received becomes the current one; no other event replaces it.   *)
LEMMA ReceiveKeepsOrder ==
  ASSUME TypeOK, OrderInv, NEW type, NEW n, Receive(type, n),
         IF type = "item" THEN n \in Responses /\ item' = n ELSE item' = item,
         UNCHANGED <<made, active, out>>
  PROVE  OrderInv'
<1> DEFINE S == 1..Len(inbox)
<1> DEFINE T == 1..Len(inbox')
<1>1. /\ Len(inbox) \in Nat /\ Len(inbox) > 0 /\ inbox[1] = <<type, n>>
      /\ Len(inbox') = Len(inbox) - 1
      /\ \A i \in T : inbox'[i] = inbox[i + 1] /\ i + 1 \in S
  BY ReceiveShifts DEF TypeOK, ServerTypes
<1>2. \A i \in S : i > 1 => i - 1 \in T /\ inbox'[i - 1] = inbox[i]
  <2> SUFFICES ASSUME NEW i \in S, i > 1
               PROVE  i - 1 \in T /\ inbox'[i - 1] = inbox[i]
    OBVIOUS
  <2>1. i - 1 \in T
    BY <1>1
  <2> QED
    BY <1>1, <2>1
<1>3. ASSUME NEW j \in T, NEW r \in Responses, inbox'[j] = AudioEvent(r)
      PROVE  /\ item' \in {0, r} \/ \E i \in T : i < j /\ inbox'[i] = ItemEvent(r)
             /\ \A i \in T : \A m \in Responses : i < j /\ inbox'[i] = ItemEvent(m) =>
                  m = r \/ \E k \in T : i < k /\ k < j /\ inbox'[k] = ItemEvent(r)
  <2>1. j + 1 \in S /\ inbox[j + 1] = AudioEvent(r)
    BY <1>1, <1>3
  <2>2. \A i \in S : \A m \in Responses : i < j + 1 /\ inbox[i] = ItemEvent(m) =>
          m = r \/ \E k \in S : i < k /\ k < j + 1 /\ inbox[k] = ItemEvent(r)
    BY <2>1 DEF OrderInv, AudioFollowsItem
  <2>3. item \in {0, r} \/ \E i \in S : i < j + 1 /\ inbox[i] = ItemEvent(r)
    BY <2>1 DEF OrderInv, AudioFollowsItem
  <2>4. ASSUME NEW k \in S, k > 1, k < j + 1, inbox[k] = ItemEvent(r)
        PROVE  \E i \in T : i < j /\ inbox'[i] = ItemEvent(r)
    <3>1. k - 1 \in T /\ k - 1 < j /\ inbox'[k - 1] = ItemEvent(r)
      BY <1>2, <2>4, <1>1
    <3> QED
      BY <3>1
  <2>5. item' \in {0, r} \/ \E i \in T : i < j /\ inbox'[i] = ItemEvent(r)
    <3>1. CASE type = "item"
      <4>1. 1 \in S /\ 1 < j + 1 /\ inbox[1] = ItemEvent(n) /\ n \in Responses
        BY <1>1, <3>1 DEF ItemEvent
      <4>2. n = r \/ \E k \in S : 1 < k /\ k < j + 1 /\ inbox[k] = ItemEvent(r)
        BY <2>2, <4>1
      <4> QED
        BY <4>2, <2>4, <3>1
    <3>2. CASE type # "item"
      <4>1. inbox[1] # ItemEvent(r)
        BY <1>1, <3>2 DEF ItemEvent
      <4>2. \A i \in S : inbox[i] = ItemEvent(r) => i > 1
        BY <4>1 DEF S
      <4>3. item \in {0, r} \/ \E k \in S : k > 1 /\ k < j + 1 /\ inbox[k] = ItemEvent(r)
        BY <2>3, <4>2
      <4> QED
        BY <4>3, <2>4, <3>2
    <3> QED
      BY <3>1, <3>2
  <2>6. ASSUME NEW i \in T, NEW m \in Responses, i < j, inbox'[i] = ItemEvent(m), m # r
        PROVE  \E k \in T : i < k /\ k < j /\ inbox'[k] = ItemEvent(r)
    <3>1. i + 1 \in S /\ i + 1 < j + 1 /\ inbox[i + 1] = ItemEvent(m)
      BY <1>1, <2>6
    <3>2. PICK k \in S : i + 1 < k /\ k < j + 1 /\ inbox[k] = ItemEvent(r)
      BY <2>2, <2>6, <3>1
    <3>3. k - 1 \in T /\ i < k - 1 /\ k - 1 < j /\ inbox'[k - 1] = ItemEvent(r)
      BY <1>2, <3>2, <1>1
    <3> QED
      BY <3>3
  <2> QED
    BY <2>5, <2>6
<1>4. ASSUME active # 0, out[active].item
      PROVE  /\ item' \in {0, active} \/ \E i \in T : inbox'[i] = ItemEvent(active)
             /\ \A i \in T : \A m \in Responses : inbox'[i] = ItemEvent(m) =>
                  m = active \/ \E k \in T : i < k /\ inbox'[k] = ItemEvent(active)
  <2>1. /\ item \in {0, active} \/ \E i \in S : inbox[i] = ItemEvent(active)
        /\ \A i \in S : \A m \in Responses : inbox[i] = ItemEvent(m) =>
             m = active \/ \E k \in S : i < k /\ inbox[k] = ItemEvent(active)
    BY <1>4 DEF OrderInv, ActiveItemIsLast
  <2>2. ASSUME NEW k \in S, k > 1, inbox[k] = ItemEvent(active)
        PROVE  \E i \in T : inbox'[i] = ItemEvent(active)
    BY <1>2, <2>2
  <2>3. item' \in {0, active} \/ \E i \in T : inbox'[i] = ItemEvent(active)
    <3>1. CASE type = "item"
      <4>1. 1 \in S /\ inbox[1] = ItemEvent(n) /\ n \in Responses
        BY <1>1, <3>1 DEF ItemEvent
      <4>2. n = active \/ \E k \in S : 1 < k /\ inbox[k] = ItemEvent(active)
        BY <2>1, <4>1
      <4> QED
        BY <4>2, <2>2, <3>1
    <3>2. CASE type # "item"
      <4>1. inbox[1] # ItemEvent(active)
        BY <1>1, <3>2 DEF ItemEvent
      <4>2. \A i \in S : inbox[i] = ItemEvent(active) => i > 1
        BY <4>1 DEF S
      <4> QED
        BY <4>2, <2>1, <2>2, <3>2
    <3> QED
      BY <3>1, <3>2
  <2>4. ASSUME NEW i \in T, NEW m \in Responses, inbox'[i] = ItemEvent(m), m # active
        PROVE  \E k \in T : i < k /\ inbox'[k] = ItemEvent(active)
    <3>1. i + 1 \in S /\ inbox[i + 1] = ItemEvent(m)
      BY <1>1, <2>4
    <3>2. PICK k \in S : i + 1 < k /\ inbox[k] = ItemEvent(active)
      BY <2>1, <2>4, <3>1
    <3>3. k - 1 \in T /\ i < k - 1 /\ inbox'[k - 1] = ItemEvent(active)
      BY <1>2, <3>2, <1>1
    <3> QED
      BY <3>3
  <2> QED
    BY <2>3, <2>4
<1>5. AudioFollowsItem'
  BY <1>3, Zenon DEF AudioFollowsItem, ItemEvent, AudioEvent
<1>6. ActiveItemIsLast'
  BY <1>4, Zenon DEF ActiveItemIsLast, ItemEvent
<1> QED
  BY <1>5, <1>6 DEF OrderInv, FutureIsSilent

(* An event that is sent comes last; audio follows its item.               *)
LEMMA SendKeepsOrder ==
  ASSUME TypeOK, OrderInv, NEW type, NEW n, Send(type, n),
         type = "audio" => n = active /\ active # 0 /\ out[active].item,
         type = "item" => n = active,
         active' \in {0, active}, UNCHANGED <<made, item>>,
         \A r \in Responses : out'[r].item => out[r].item \/ (type = "item" /\ r = active),
         active # 0 => active \in Responses
  PROVE  OrderInv'
<1> DEFINE S == 1..Len(inbox)
<1> DEFINE T == 1..Len(inbox')
<1> DEFINE last == Len(inbox')
<1>1. /\ Len(inbox) \in Nat /\ Len(inbox') = Len(inbox) + 1
      /\ last \in T /\ inbox'[last] = <<type, n>>
      /\ \A i \in T : i # last => i \in S
      /\ \A i \in S : i \in T /\ i < last /\ inbox'[i] = inbox[i]
  BY SendAppends DEF TypeOK, ServerTypes
<1> HIDE DEF S, T, last
<1>2. ASSUME NEW j \in T, NEW r \in Responses, inbox'[j] = AudioEvent(r)
      PROVE  /\ item \in {0, r} \/ \E i \in T : i < j /\ inbox'[i] = ItemEvent(r)
             /\ \A i \in T : \A m \in Responses : i < j /\ inbox'[i] = ItemEvent(m) =>
                  m = r \/ \E k \in T : i < k /\ k < j /\ inbox'[k] = ItemEvent(r)
  <2>1. CASE j # last
    <3>1. j \in S /\ inbox[j] = AudioEvent(r)
      BY <1>1, <1>2, <2>1
    <3>2. /\ item \in {0, r} \/ \E i \in S : i < j /\ inbox[i] = ItemEvent(r)
          /\ \A i \in S : \A m \in Responses : i < j /\ inbox[i] = ItemEvent(m) =>
               m = r \/ \E k \in S : i < k /\ k < j /\ inbox[k] = ItemEvent(r)
      BY <3>1 DEF OrderInv, AudioFollowsItem, S
    <3>3. \A i \in T : i < j => i \in S
      BY <1>1, <2>1, <3>1 DEF S, T, last
    <3> QED
      BY <1>1, <3>2, <3>3
  <2>2. CASE j = last
    <3>1. type = "audio" /\ r = n
      BY <1>1, <1>2, <2>2 DEF AudioEvent
    <3>2. /\ item \in {0, r} \/ \E i \in S : inbox[i] = ItemEvent(r)
          /\ \A i \in S : \A m \in Responses : inbox[i] = ItemEvent(m) =>
               m = r \/ \E k \in S : i < k /\ inbox[k] = ItemEvent(r)
      BY <3>1 DEF OrderInv, ActiveItemIsLast, S
    <3>3. \A i \in T : i < j => i \in S
      BY <1>1, <2>2 DEF S, T, last
    <3> QED
      BY <1>1, <2>2, <3>2, <3>3
  <2> QED
    BY <2>1, <2>2
<1>3. ASSUME active' # 0, out'[active].item
      PROVE  /\ item \in {0, active} \/ \E i \in T : inbox'[i] = ItemEvent(active)
             /\ \A i \in T : \A m \in Responses : inbox'[i] = ItemEvent(m) =>
                  m = active \/ \E k \in T : i < k /\ inbox'[k] = ItemEvent(active)
  <2>1. CASE type = "item"
    <3>1. inbox'[last] = ItemEvent(active)
      BY <1>1, <2>1 DEF ItemEvent
    <3>2. \A i \in T : i # last => i < last
      BY <1>1
    <3>3. \A m : ItemEvent(m) = ItemEvent(active) => m = active
      BY DEF ItemEvent
    <3> QED
      BY <1>1, <3>1, <3>2, <3>3
  <2>2. CASE type # "item"
    <3>1. active # 0 /\ out[active].item
      BY <1>3, <2>2
    <3>2. /\ item \in {0, active} \/ \E i \in S : inbox[i] = ItemEvent(active)
          /\ \A i \in S : \A m \in Responses : inbox[i] = ItemEvent(m) =>
               m = active \/ \E k \in S : i < k /\ inbox[k] = ItemEvent(active)
      BY <3>1 DEF OrderInv, ActiveItemIsLast, S
    <3>3. \A m : inbox'[last] # ItemEvent(m)
      BY <1>1, <2>2 DEF ItemEvent
    <3> QED
      BY <1>1, <3>2, <3>3
  <2> QED
    BY <2>1, <2>2
<1>4. AudioFollowsItem'
  BY <1>2, Zenon DEF AudioFollowsItem, ItemEvent, AudioEvent, T
<1>5. ActiveItemIsLast'
  <2>1. CASE active' = 0
    BY <2>1 DEF ActiveItemIsLast
  <2>2. CASE active' = active
    BY <1>3, <2>2, Zenon DEF ActiveItemIsLast, ItemEvent, T
  <2> QED
    BY <2>1, <2>2
<1>6. FutureIsSilent'
  BY DEF OrderInv, FutureIsSilent, TypeOK, ServerTypes
<1> QED
  BY <1>4, <1>5, <1>6 DEF OrderInv

(* Forgetting the item disturbs nothing in flight.                         *)
LEMMA ForgetKeepsAudio ==
  ASSUME AudioFollowsItem, item' \in {0, item}, inbox' = inbox
  PROVE  AudioFollowsItem'
<1>1. ASSUME NEW j \in 1..Len(inbox'), NEW n \in Responses, inbox'[j] = AudioEvent(n)
      PROVE  /\ item' \in {0, n} \/ \E i \in 1..Len(inbox') : i < j /\ inbox'[i] = ItemEvent(n)
             /\ \A i \in 1..Len(inbox') : \A m \in Responses :
                  i < j /\ inbox'[i] = ItemEvent(m) =>
                    m = n \/ \E k \in 1..Len(inbox') : i < k /\ k < j /\ inbox'[k] = ItemEvent(n)
  <2>1. j \in 1..Len(inbox) /\ inbox[j] = AudioEvent(n)
    BY <1>1
  <2>2. /\ item \in {0, n} \/ \E i \in 1..Len(inbox) : i < j /\ inbox[i] = ItemEvent(n)
        /\ \A i \in 1..Len(inbox) : \A m \in Responses :
             i < j /\ inbox[i] = ItemEvent(m) =>
               m = n \/ \E k \in 1..Len(inbox) : i < k /\ k < j /\ inbox[k] = ItemEvent(n)
    BY <2>1 DEF AudioFollowsItem
  <2> QED
    BY <2>2
<1> QED
  BY <1>1, Zenon DEF AudioFollowsItem, ItemEvent, AudioEvent

(* The bridge may forget its item: the order on the wire stays. *)
LEMMA ForgetKeepsOrder ==
  ASSUME OrderInv, item' \in {0, item}, UNCHANGED <<made, active, out, inbox>>
  PROVE  OrderInv'
<1>1. AudioFollowsItem'
  BY ForgetKeepsAudio DEF OrderInv
<1>2. ActiveItemIsLast'
  <2>1. ASSUME active # 0, out[active].item
        PROVE  /\ item' \in {0, active} \/ \E i \in 1..Len(inbox) : inbox[i] = ItemEvent(active)
               /\ \A i \in 1..Len(inbox) : \A m \in Responses : inbox[i] = ItemEvent(m) =>
                    m = active \/ \E k \in 1..Len(inbox) : i < k /\ inbox[k] = ItemEvent(active)
    BY <2>1, Zenon DEF OrderInv, ActiveItemIsLast
  <2> QED
    BY <2>1, Zenon DEF ActiveItemIsLast, ItemEvent
<1> QED
  BY <1>1, <1>2 DEF OrderInv, FutureIsSilent

-------------------------------------------------------------------------------
(* The count *)

(* Every step keeps the order of the events and the count within what was  *)
(* sent.                                                                   *)
LEMMA TrackerInductive == TrackerInv /\ TypeOK' /\ [Next]_vars => TrackerInv'
<1> SUFFICES ASSUME TrackerInv, TypeOK', [Next]_vars
             PROVE  OrderInv' /\ TruncationWithinSent'
  BY DEF TrackerInv
<1> USE LiveCallAssumption DEF TrackerInv
<1> DEFINE Quiet == UNCHANGED <<item, played, sent, truncated>>
<1>a. Quiet => TruncationWithinSent'
  BY DEF TruncationWithinSent
<1>b. active # 0 => active \in Responses
  BY DEF TypeOK, ServerTypes, Responses
<1> HIDE DEF Quiet
<1>1. CASE UNCHANGED vars
  BY <1>1, <1>a, ForgetKeepsOrder DEF vars, server, tracker, audio, Quiet
<1>2. CASE StartResponse
  <2>1. Quiet /\ UNCHANGED <<item, inbox, out>>
    BY <1>2 DEF StartResponse, bridge, tracker, audio, Quiet
  <2>2. AudioFollowsItem'
    BY <2>1, ForgetKeepsAudio DEF OrderInv
  <2>3. ~out'[active'].item /\ active' = made' /\ made' = made + 1
    <3>1. active' \in Responses /\ active' > made
      BY <1>2 DEF StartResponse, TypeOK, ServerTypes, Responses
    <3> QED
      BY <1>2, <2>1, <3>1 DEF StartResponse, OrderInv, FutureIsSilent
  <2>4. FutureIsSilent'
    BY <2>1, <2>3 DEF OrderInv, FutureIsSilent, TypeOK, ServerTypes, Responses
  <2> QED
    BY <1>a, <2>1, <2>2, <2>3, <2>4 DEF OrderInv, ActiveItemIsLast
<1>3. CASE AddItem
  <2>1. Quiet /\ UNCHANGED <<item, made, active>> /\ Send("item", active)
    BY <1>3 DEF AddItem, bridge, tracker, audio, Quiet
  <2>2. \A r \in Responses : out'[r].item => out[r].item \/ r = active
    BY <1>3 DEF AddItem, TypeOK, ServerTypes
  <2> QED
    BY <1>a, <1>b, <2>1, <2>2, SendKeepsOrder
<1>4. CASE SendAudio
  <2>1. Quiet /\ UNCHANGED <<item, made, active>> /\ Send("audio", active)
    BY <1>4 DEF SendAudio, bridge, tracker, audio, Quiet
  <2>2. \A r \in Responses : out'[r].item => out[r].item
    BY <1>4 DEF SendAudio, TypeOK, ServerTypes
  <2>3. active # 0 /\ out[active].item
    BY <1>4 DEF SendAudio, Generates
  <2> QED
    BY <1>a, <1>b, <2>1, <2>2, <2>3, SendKeepsOrder
<1>5. CASE SendText
  <2>1. Quiet /\ UNCHANGED <<item, made>> /\ active' \in {0, active} /\ Send("text", active)
    BY <1>5 DEF SendText, bridge, tracker, audio, Quiet
  <2>2. \A r \in Responses : out'[r].item => out[r].item
    BY <1>5 DEF SendText, TypeOK, ServerTypes
  <2> QED
    BY <1>a, <1>b, <2>1, <2>2, SendKeepsOrder
<1>6. CASE CallFunction
  <2>1. Quiet /\ UNCHANGED <<item, made>> /\ active' \in {0, active} /\ Send("call", active)
    BY <1>6 DEF CallFunction, bridge, tracker, audio, Quiet
  <2>2. \A r \in Responses : out'[r].item => out[r].item
    BY <1>6 DEF CallFunction, TypeOK, ServerTypes
  <2> QED
    BY <1>a, <1>b, <2>1, <2>2, SendKeepsOrder
<1>7. CASE EndResponse
  <2>1. Quiet /\ UNCHANGED <<item, made>> /\ active' \in {0, active} /\ Send("done", active)
    BY <1>7 DEF EndResponse, bridge, tracker, audio, Quiet
  <2>2. \A r \in Responses : out'[r].item => out[r].item
    BY <1>7 DEF EndResponse, TypeOK, ServerTypes
  <2> QED
    BY <1>a, <1>b, <2>1, <2>2, SendKeepsOrder
<1>8. CASE Speak
  <2>1. Quiet /\ UNCHANGED <<item, made>> /\ active' \in {0, active} /\ Send("speech", speeches + 1)
    BY <1>8 DEF Speak, bridge, tracker, audio, Quiet
  <2>2. \A r \in Responses : out'[r].item => out[r].item
    BY <1>8 DEF Speak, TypeOK, ServerTypes
  <2> QED
    BY <1>a, <1>b, <2>1, <2>2, SendKeepsOrder
<1>9. CASE Transcribe
  <2>1. Quiet /\ UNCHANGED <<item, made>> /\ active' \in {0, active} /\ Send("user", heardOf + 1)
    BY <1>9 DEF Transcribe, bridge, tracker, audio, Quiet
  <2>2. \A r \in Responses : out'[r].item => out[r].item
    BY <1>9 DEF Transcribe, TypeOK, ServerTypes
  <2> QED
    BY <1>a, <1>b, <2>1, <2>2, SendKeepsOrder
<1>20. ASSUME NEW n \in Responses, OnAiAudio(n)
       PROVE  OrderInv' /\ TruncationWithinSent'
  <2>1. Receive("audio", n) /\ UNCHANGED <<item, made, active, out, truncated>>
    BY <1>20 DEF OnAiAudio, server
  <2>2. OrderInv'
    BY <2>1, ReceiveKeepsOrder
  <2>3. item \in {0, n}
    <3>1. Len(inbox) > 0 /\ inbox[1] = AudioEvent(n) /\ Len(inbox) \in Nat
      BY <2>1, ReceiveShifts DEF AudioEvent, TypeOK, ServerTypes
    <3> QED
      BY <3>1 DEF OrderInv, AudioFollowsItem
  <2>4. \/ UNCHANGED <<sent, played>>
        \/ sent' = [sent EXCEPT ![n] = @ + 1] /\ played' = played + 1
    BY <1>20 DEF OnAiAudio
  <2>5. \A r \in Responses : sent[r] \in Nat /\ sent'[r] \in Nat /\ sent'[r] >= sent[r]
    BY <2>4 DEF TypeOK, HistoryTypes
  <2>6. item' # 0 => played' <= sent'[item']
    BY <2>1, <2>3, <2>4 DEF TypeOK, BridgeTypes, HistoryTypes, TruncationWithinSent
  <2>7. \A t \in truncated : t[2] <= sent'[t[1]]
    <3> SUFFICES ASSUME NEW t \in truncated
                 PROVE  t[2] <= sent'[t[1]]
      OBVIOUS
    <3>1. t[1] \in Responses /\ t[2] \in Nat /\ t[2] <= sent[t[1]]
      BY DEF TypeOK, HistoryTypes, TruncationWithinSent
    <3> QED
      BY <2>5, <3>1
  <2> QED
    BY <2>1, <2>2, <2>6, <2>7 DEF TruncationWithinSent
<1>21. ASSUME NEW n \in Responses, OnOutputItemAdded(n)
       PROVE  OrderInv' /\ TruncationWithinSent'
  <2>1. /\ Receive("item", n) /\ UNCHANGED <<made, active, out, truncated, sent>>
        /\ item' = n /\ played' = 0
    BY <1>21 DEF OnOutputItemAdded, server, audio
  <2>2. OrderInv'
    BY <2>1, ReceiveKeepsOrder
  <2>3. sent[n] \in Nat
    BY DEF TypeOK, HistoryTypes
  <2> QED
    BY <2>1, <2>2, <2>3 DEF TruncationWithinSent
<1>22. ASSUME NEW n \in Responses, OnAiTranscript(n)
       PROVE  OrderInv' /\ TruncationWithinSent'
  <2>1. Receive("text", n) /\ Quiet /\ UNCHANGED <<item, made, active, out>>
    BY <1>22 DEF OnAiTranscript, server, tracker, audio, Quiet
  <2> QED
    BY <1>a, <2>1, ReceiveKeepsOrder
<1>23. ASSUME NEW n \in Responses, OnResponseDone(n)
       PROVE  OrderInv' /\ TruncationWithinSent'
  <2>1. Receive("done", n) /\ Quiet /\ UNCHANGED <<item, made, active, out>>
    BY <1>23 DEF OnResponseDone, server, tracker, audio, Quiet
  <2> QED
    BY <1>a, <2>1, ReceiveKeepsOrder
<1>24. ASSUME NEW n \in Responses, OnToolCall(n)
       PROVE  OrderInv' /\ TruncationWithinSent'
  <2>1. Receive("call", n) /\ Quiet /\ UNCHANGED <<item, made, active, out>>
    BY <1>24 DEF OnToolCall, server, tracker, audio, Quiet
  <2> QED
    BY <1>a, <2>1, ReceiveKeepsOrder
<1>25. ASSUME NEW k \in Speeches, OnUserTranscript(k)
       PROVE  OrderInv' /\ TruncationWithinSent'
  <2>1. Receive("user", k) /\ Quiet /\ UNCHANGED <<item, made, active, out>>
    BY <1>25 DEF OnUserTranscript, server, tracker, audio, Quiet
  <2> QED
    BY <1>a, <2>1, ReceiveKeepsOrder
<1>26. ASSUME NEW k \in Speeches, OnSpeechStarted(k)
       PROVE  OrderInv' /\ TruncationWithinSent'
  <2>1. Receive("speech", k) /\ Quiet /\ UNCHANGED <<item, made, active, out>>
    BY <1>26 DEF OnSpeechStarted, server, tracker, audio, Quiet
  <2> QED
    BY <1>a, <2>1, ReceiveKeepsOrder
<1>30. CASE Truncate
  <2>1. UNCHANGED <<item, played, sent, made, active, out, inbox>>
    BY <1>30 DEF Truncate, server, tracker, audio
  <2>2. OrderInv'
    BY <2>1, ForgetKeepsOrder
  <2>3. truncated' = truncated \/ (item # 0 /\ truncated' = truncated \cup {<<item, played>>})
    BY <1>30 DEF Truncate
  <2> QED
    BY <2>1, <2>2, <2>3 DEF TruncationWithinSent
<1>31. CASE ClearTwilio
  <2>1. /\ UNCHANGED <<sent, truncated, made, active, out, inbox>>
        /\ (item' = 0 /\ played' = 0) \/ UNCHANGED <<item, played>>
    BY <1>31 DEF ClearTwilio, server, tracker
  <2>2. OrderInv'
    BY <2>1, ForgetKeepsOrder
  <2> QED
    BY <2>1, <2>2 DEF TruncationWithinSent
<1>32. CASE ActOnResult
  <2>1. /\ UNCHANGED <<sent, truncated, made, active, out, inbox>>
        /\ item' = 0 /\ played' = 0
    BY <1>32 DEF ActOnResult, server, audio
  <2>2. OrderInv'
    BY <2>1, ForgetKeepsOrder
  <2> QED
    BY <2>1, <2>2 DEF TruncationWithinSent
<1>33. CASE CloseOpenAI
  <2>1. Quiet /\ UNCHANGED <<item, made, active, out, inbox>>
    BY <1>33 DEF CloseOpenAI, server, tracker, audio, Quiet
  <2> QED
    BY <1>a, <2>1, ForgetKeepsOrder
<1>34. CASE HangUp
  <2>1. Quiet /\ UNCHANGED <<item, made, active, out, inbox>>
    BY <1>34 DEF HangUp, server, tracker, audio, Quiet
  <2> QED
    BY <1>a, <2>1, ForgetKeepsOrder
<1>35. CASE Play
  <2>1. Quiet /\ UNCHANGED <<item, made, active, out, inbox>>
    BY <1>35 DEF Play, server, tracker, audio, Quiet
  <2> QED
    BY <1>a, <2>1, ForgetKeepsOrder
<1>36. CASE ExecuteTool
  <2>1. Quiet /\ UNCHANGED <<item, made, active, out, inbox>>
    BY <1>36 DEF ExecuteTool, server, tracker, audio, Quiet
  <2> QED
    BY <1>a, <2>1, ForgetKeepsOrder
<1>37. CASE SendToolResult
  <2>1. Quiet /\ UNCHANGED <<item, made, active, out, inbox>>
    BY <1>37 DEF SendToolResult, server, tracker, audio, Quiet
  <2> QED
    BY <1>a, <2>1, ForgetKeepsOrder
<1>38. CASE RequestResponse
  <2>1. Quiet /\ UNCHANGED <<item, made, active, out, inbox>>
    BY <1>38 DEF RequestResponse, server, tracker, audio, Quiet
  <2> QED
    BY <1>a, <2>1, ForgetKeepsOrder
<1>39. CASE ActFails
  <2>1. Quiet /\ UNCHANGED <<item, made, active, out, inbox>>
    BY <1>39 DEF ActFails, server, tracker, audio, Quiet
  <2> QED
    BY <1>a, <2>1, ForgetKeepsOrder
<1>40. CASE OpenAILoopEnds
  <2>1. Quiet /\ UNCHANGED <<item, made, active, out, inbox>>
    BY <1>40 DEF OpenAILoopEnds, server, tracker, audio, Quiet
  <2> QED
    BY <1>a, <2>1, ForgetKeepsOrder
<1>41. CASE TwilioLoopEnds
  <2>1. Quiet /\ UNCHANGED <<item, made, active, out, inbox>>
    BY <1>41 DEF TwilioLoopEnds, server, tracker, audio, Quiet
  <2> QED
    BY <1>a, <2>1, ForgetKeepsOrder
<1> QED
  BY <1>1, <1>2, <1>3, <1>4, <1>5, <1>6, <1>7, <1>8, <1>9, <1>20, <1>21, <1>22, <1>23, <1>24,
     <1>25, <1>26, <1>30, <1>31, <1>32, <1>33, <1>34, <1>35, <1>36, <1>37, <1>38, <1>39, <1>40, <1>41 DEF Next, Generate, Handle

(* No item is truncated beyond what Twilio was sent of it, however many    *)
(* events are in flight.                                                   *)
THEOREM TruncationsWithinSent == Spec => []TruncationWithinSent
<1>1. Init => TrackerInv
  <2> SUFFICES ASSUME Init
               PROVE  OrderInv /\ TruncationWithinSent /\ TypeOK
    BY DEF TrackerInv
  <2>1. TypeOK
    BY InitTyped
  <2>2. Len(inbox) = 0 /\ active = 0 /\ made = 0 /\ \A n \in Responses : ~out[n].item
    BY DEF Init, Nothing
  <2>3. OrderInv
    BY <2>2 DEF OrderInv, AudioFollowsItem, ActiveItemIsLast, FutureIsSilent
  <2> QED
    BY <2>1, <2>3 DEF Init, TruncationWithinSent
<1>2. TrackerInv => TruncationWithinSent
  BY DEF TrackerInv
<1> QED
  BY <1>1, <1>2, TypeCorrect, TrackerInductive, PTL DEF Spec
-------------------------------------------------------------------------------
(* Function calls *)

At(i, type, n) == inbox[i] = <<type, n>>

(* One event of this kind, at most, is on its way.                         *)
Once(type, n) ==
  \A i, j \in 1..Len(inbox) : At(i, type, n) /\ At(j, type, n) => i = j

(* What is known of a function call at each step of its handler: it is on  *)
(* its way once, untouched, or in the handler, or was there.               *)
CallFollowsHandler(n) ==
  /\ Once("call", n)
  /\ OnItsWay("call", n) => out[n].call
  /\ ~out[n].call \/ OnItsWay("call", n) => ran[n] = 0 /\ answered[n] = 0 /\ calling # n
  /\ calling = n =>
       /\ handler = "executing" => ran[n] = 0
       /\ handler \in {"executing", "result"} => answered[n] = 0
       /\ handler \in {"request", "acting"} => answered[n] = 1

AnsweredInTurn(n) ==
  /\ ran[n] <= 1 /\ answered[n] <= 1
  /\ out[n].call /\ ~OnItsWay("call", n) /\ calling # n =>
       answered[n] = 1 \/ "openai" \notin sockets

CallInv ==
  /\ IF calling = 0 THEN handler \in {"wait", "cancelled", "truncated"}
                    ELSE handler \in {"executing", "result", "request", "acting"}
  /\ \A n \in Responses : CallFollowsHandler(n) /\ AnsweredInTurn(n)

(* What sending an event does to what is on its way.                       *)
LEMMA SendAdds ==
  ASSUME TypeOK, NEW type, NEW n, Send(type, n), NEW t, NEW m
  PROVE  /\ OnItsWay(t, m)' <=> OnItsWay(t, m) \/ <<t, m>> = <<type, n>>
         /\ Once(t, m) /\ (<<t, m>> # <<type, n>> \/ ~OnItsWay(t, m)) => Once(t, m)'
<1>1. /\ Len(inbox) \in Nat /\ Len(inbox') = Len(inbox) + 1
      /\ inbox'[Len(inbox')] = <<type, n>>
      /\ \A i \in 1..Len(inbox) : inbox'[i] = inbox[i]
      /\ DOMAIN inbox = 1..Len(inbox) /\ DOMAIN inbox' = 1..Len(inbox')
  <2>1. inbox \in Seq(Events) /\ inbox' = Append(inbox, <<type, n>>)
    BY DEF Send, TypeOK, ServerTypes
  <2> QED
    BY <2>1, SendAppends
<1>2. \A i \in 1..Len(inbox') : i = Len(inbox') \/ i \in 1..Len(inbox)
  BY <1>1
<1>3. \A i \in 1..Len(inbox) : i \in 1..Len(inbox') /\ i # Len(inbox')
  BY <1>1
<1>4. Len(inbox') \in 1..Len(inbox')
  BY <1>1
<1>5. OnItsWay(t, m)' <=> OnItsWay(t, m) \/ <<t, m>> = <<type, n>>
  BY <1>1, <1>2, <1>3, <1>4 DEF OnItsWay
<1>6. ASSUME Once(t, m), <<t, m>> # <<type, n>> \/ ~OnItsWay(t, m),
             NEW i \in 1..Len(inbox'), NEW j \in 1..Len(inbox'),
             inbox'[i] = <<t, m>>, inbox'[j] = <<t, m>>
      PROVE  i = j
  <2>1. CASE <<t, m>> # <<type, n>>
    BY <1>1, <1>2, <1>6, <2>1 DEF Once, At
  <2>2. CASE ~OnItsWay(t, m)
    BY <1>1, <1>2, <1>6, <2>2 DEF OnItsWay
  <2> QED
    BY <1>6, <2>1, <2>2
<1> QED
  BY <1>5, <1>6 DEF Once, At

(* And what receiving one does.                                            *)
LEMMA ReceiveTakes ==
  ASSUME TypeOK, NEW type, NEW n, Receive(type, n), NEW t, NEW m
  PROVE  /\ <<t, m>> # <<type, n>> => (OnItsWay(t, m)' <=> OnItsWay(t, m))
         /\ OnItsWay(type, n)
         /\ Once(type, n) => ~OnItsWay(type, n)'
         /\ Once(t, m) => Once(t, m)'
<1>1. /\ Len(inbox) \in Nat /\ Len(inbox) > 0 /\ inbox[1] = <<type, n>>
      /\ Len(inbox') = Len(inbox) - 1
      /\ \A i \in 1..Len(inbox') : inbox'[i] = inbox[i + 1]
      /\ DOMAIN inbox = 1..Len(inbox) /\ DOMAIN inbox' = 1..Len(inbox')
  <2>1. inbox \in Seq(Events) /\ inbox' \in Seq(Events)
    BY ReceiveTyped DEF TypeOK, ServerTypes
  <2> QED
    BY <2>1, ReceiveShifts
<1>2. \A i \in 1..Len(inbox') : i + 1 \in 1..Len(inbox) /\ i + 1 # 1
  BY <1>1
<1>3. ASSUME NEW i \in 1..Len(inbox), i # 1
      PROVE  i - 1 \in 1..Len(inbox') /\ inbox'[i - 1] = inbox[i]
  <2>1. i - 1 \in 1..Len(inbox') /\ (i - 1) + 1 = i
    BY <1>1, <1>3
  <2> QED
    BY <1>1, <2>1
<1>4. <<t, m>> # <<type, n>> => (OnItsWay(t, m)' <=> OnItsWay(t, m))
  <2>1. ASSUME NEW i \in 1..Len(inbox'), inbox'[i] = <<t, m>>
        PROVE  \E j \in 1..Len(inbox) : inbox[j] = <<t, m>>
    BY <1>1, <1>2, <2>1
  <2>2. ASSUME NEW i \in 1..Len(inbox), inbox[i] = <<t, m>>, <<t, m>> # <<type, n>>
        PROVE  \E j \in 1..Len(inbox') : inbox'[j] = <<t, m>>
    BY <1>1, <1>3, <2>2
  <2> QED
    BY <1>1, <2>1, <2>2, Zenon DEF OnItsWay
<1>5. OnItsWay(type, n)
  BY <1>1 DEF OnItsWay
<1>6. Once(type, n) => ~OnItsWay(type, n)'
  BY <1>1, <1>2 DEF OnItsWay, Once, At
<1>7. ASSUME Once(t, m), NEW i \in 1..Len(inbox'), NEW j \in 1..Len(inbox'),
             inbox'[i] = <<t, m>>, inbox'[j] = <<t, m>>
      PROVE  i = j
  <2>1. i + 1 = j + 1
    BY <1>1, <1>2, <1>7 DEF Once, At
  <2> QED
    BY <2>1
<1> QED
  BY <1>4, <1>5, <1>6, <1>7 DEF Once, At

(* A step that takes no call further keeps what is known of the calls.     *)
LEMMA CallsUndisturbed ==
  ASSUME CallInv, UNCHANGED <<calling, ran, answered>>, sockets' \subseteq sockets,
         \A n \in Responses :
           /\ out'[n].call = out[n].call
           /\ OnItsWay("call", n)' <=> OnItsWay("call", n)
           /\ Once("call", n) => Once("call", n)',
         \/ handler' = handler
         \/ calling = 0 /\ handler' \in {"wait", "cancelled", "truncated"}
  PROVE  CallInv'
<1>1. \A n \in Responses : CallFollowsHandler(n)' /\ AnsweredInTurn(n)'
  <2> SUFFICES ASSUME NEW n \in Responses
               PROVE  CallFollowsHandler(n)' /\ AnsweredInTurn(n)'
    OBVIOUS
  <2>1. CallFollowsHandler(n) /\ AnsweredInTurn(n)
    BY DEF CallInv
  <2>2. calling = n => handler' = handler
    BY LiveCallAssumption DEF Responses
  <2>3. CallFollowsHandler(n)'
    BY <2>1, <2>2 DEF CallFollowsHandler
  <2>4. AnsweredInTurn(n)'
    BY <2>1 DEF AnsweredInTurn
  <2> QED
    BY <2>3, <2>4
<1> QED
  BY <1>1 DEF CallInv

(* Every step of the call, the model and the bridge keeps the turns. *)
LEMMA CallsInductive == TypeOK /\ CallInv /\ [Next]_vars => CallInv'
<1> SUFFICES ASSUME TypeOK, CallInv, [Next]_vars
             PROVE  CallInv'
  OBVIOUS
<1> DEFINE Idle == UNCHANGED <<calling, ran, answered>> /\ sockets' \subseteq sockets
<1> DEFINE Calls == \A n \in Responses : out'[n].call = out[n].call
<1> DEFINE Queue == \A n \in Responses :
                      /\ OnItsWay("call", n)' <=> OnItsWay("call", n)
                      /\ Once("call", n) => Once("call", n)'
<1> USE DEF server, tracker, tools, words, line, audio, bridge
<1>a. inbox' = inbox => Queue
  BY DEF OnItsWay, Once, At
<1>b. ASSUME NEW type, NEW n, Send(type, n), type # "call"
      PROVE  Queue
  <2> SUFFICES ASSUME NEW m \in Responses
               PROVE  /\ OnItsWay("call", m)' <=> OnItsWay("call", m)
                      /\ Once("call", m) => Once("call", m)'
    OBVIOUS
  <2>1. <<"call", m>> # <<type, n>>
    BY <1>b
  <2> QED
    BY <1>b, <2>1, SendAdds
<1>c. ASSUME NEW type, NEW n, Receive(type, n), type # "call"
      PROVE  Queue
  <2> SUFFICES ASSUME NEW m \in Responses
               PROVE  /\ OnItsWay("call", m)' <=> OnItsWay("call", m)
                      /\ Once("call", m) => Once("call", m)'
    OBVIOUS
  <2>1. <<"call", m>> # <<type, n>>
    BY <1>c
  <2> QED
    BY <1>c, <2>1, ReceiveTakes
<1>d. ASSUME NEW n \in Responses
      PROVE  CallFollowsHandler(n) /\ AnsweredInTurn(n) /\ n # 0 /\ n \in Nat
  BY LiveCallAssumption DEF CallInv, Responses
<1>e. /\ handler = "wait" => calling = 0
      /\ handler \in {"cancelled", "truncated"} => calling = 0
      /\ handler \in {"executing", "result", "request", "acting"} =>
           calling \in Responses
  BY LiveCallAssumption DEF CallInv, TypeOK, BridgeTypes, Responses
<1>f. out \in [Responses -> Outputs] /\ ran \in [Responses -> Nat] /\ answered \in [Responses -> Nat]
  BY DEF TypeOK, ServerTypes, HistoryTypes
<1>g. active # 0 => active \in Responses
  BY ActiveTyped
<1> HIDE DEF Queue
<1>1. CASE UNCHANGED vars
  <2>1. Idle /\ Calls /\ handler' = handler /\ inbox' = inbox
    BY <1>1 DEF vars
  <2> QED
    BY <2>1, <1>a, CallsUndisturbed DEF Queue
<1>2. CASE StartResponse
  <2>1. Idle /\ Calls /\ handler' = handler /\ inbox' = inbox
    BY <1>2 DEF StartResponse
  <2> QED
    BY <2>1, <1>a, CallsUndisturbed DEF Queue
<1>3. CASE AddItem
  <2>1. Idle /\ Calls /\ handler' = handler /\ Send("item", active)
    BY <1>3, <1>f, <1>g DEF AddItem, Generates
  <2> QED
    BY <2>1, <1>b, CallsUndisturbed DEF Queue
<1>4. CASE SendAudio
  <2>1. Idle /\ Calls /\ handler' = handler /\ Send("audio", active)
    BY <1>4, <1>f, <1>g DEF SendAudio, Generates
  <2> QED
    BY <2>1, <1>b, CallsUndisturbed DEF Queue
<1>5. CASE SendText
  <2>1. Idle /\ Calls /\ handler' = handler /\ Send("text", active)
    BY <1>5, <1>f, <1>g DEF SendText, Generates
  <2> QED
    BY <2>1, <1>b, CallsUndisturbed DEF Queue
<1>6. CASE EndResponse
  <2>1. Idle /\ Calls /\ handler' = handler /\ Send("done", active)
    BY <1>6, <1>f, <1>g DEF EndResponse
  <2> QED
    BY <2>1, <1>b, CallsUndisturbed DEF Queue
<1>7. CASE Speak
  <2>1. Idle /\ Calls /\ handler' = handler /\ Send("speech", speeches + 1)
    BY <1>7, <1>f, <1>g DEF Speak
  <2> QED
    BY <2>1, <1>b, CallsUndisturbed DEF Queue
<1>8. CASE Transcribe
  <2>1. Idle /\ Calls /\ handler' = handler /\ Send("user", heardOf + 1)
    BY <1>8, <1>f, <1>g DEF Transcribe
  <2> QED
    BY <2>1, <1>b, CallsUndisturbed DEF Queue
<1>9. CASE CloseOpenAI
  <2>1. Idle /\ Calls /\ handler' = handler /\ inbox' = inbox
    BY <1>9, <1>f, <1>g DEF CloseOpenAI
  <2> QED
    BY <2>1, <1>a, CallsUndisturbed DEF Queue
<1>10. CASE HangUp
  <2>1. Idle /\ Calls /\ handler' = handler /\ inbox' = inbox
    BY <1>10, <1>f, <1>g DEF HangUp
  <2> QED
    BY <2>1, <1>a, CallsUndisturbed DEF Queue
<1>11. CASE Play
  <2>1. Idle /\ Calls /\ handler' = handler /\ inbox' = inbox
    BY <1>11, <1>f, <1>g DEF Play
  <2> QED
    BY <2>1, <1>a, CallsUndisturbed DEF Queue
<1>12. CASE TwilioLoopEnds
  <2>1. Idle /\ Calls /\ handler' = handler /\ inbox' = inbox
    BY <1>12, <1>f, <1>g DEF TwilioLoopEnds
  <2> QED
    BY <2>1, <1>a, CallsUndisturbed DEF Queue
<1>13. CASE OpenAILoopEnds
  <2>1. Idle /\ Calls /\ handler' = handler /\ inbox' = inbox
    BY <1>13, <1>f, <1>g DEF OpenAILoopEnds
  <2> QED
    BY <2>1, <1>a, CallsUndisturbed DEF Queue
<1>14. ASSUME NEW n \in Responses, OnAiAudio(n)
      PROVE  CallInv'
  <2>1. Idle /\ Calls /\ handler' = handler /\ Receive("audio", n)
    BY <1>14, <1>f, <1>g DEF OnAiAudio
  <2> QED
    BY <2>1, <1>c, CallsUndisturbed DEF Queue
<1>15. ASSUME NEW n \in Responses, OnOutputItemAdded(n)
      PROVE  CallInv'
  <2>1. Idle /\ Calls /\ handler' = handler /\ Receive("item", n)
    BY <1>15, <1>f, <1>g DEF OnOutputItemAdded
  <2> QED
    BY <2>1, <1>c, CallsUndisturbed DEF Queue
<1>16. ASSUME NEW n \in Responses, OnAiTranscript(n)
      PROVE  CallInv'
  <2>1. Idle /\ Calls /\ handler' = handler /\ Receive("text", n)
    BY <1>16, <1>f, <1>g DEF OnAiTranscript
  <2> QED
    BY <2>1, <1>c, CallsUndisturbed DEF Queue
<1>17. ASSUME NEW n \in Responses, OnResponseDone(n)
      PROVE  CallInv'
  <2>1. Idle /\ Calls /\ handler' = handler /\ Receive("done", n)
    BY <1>17, <1>f, <1>g DEF OnResponseDone
  <2> QED
    BY <2>1, <1>c, CallsUndisturbed DEF Queue
<1>18. ASSUME NEW k \in Speeches, OnUserTranscript(k)
      PROVE  CallInv'
  <2>1. Idle /\ Calls /\ handler' = handler /\ Receive("user", k)
    BY <1>18, <1>f, <1>g DEF OnUserTranscript
  <2> QED
    BY <2>1, <1>c, CallsUndisturbed DEF Queue
<1>19. ASSUME NEW k \in Speeches, OnSpeechStarted(k)
      PROVE  CallInv'
  <2>1. Idle /\ Calls /\ handler = "wait" /\ handler' \in {"wait", "cancelled"} /\ Receive("speech", k)
    BY <1>19, <1>f, <1>g DEF OnSpeechStarted, Receive
  <2> QED
    BY <2>1, <1>c, <1>e, CallsUndisturbed DEF Queue
<1>20. CASE Truncate
  <2>1. Idle /\ Calls /\ handler = "cancelled" /\ handler' \in {"wait", "truncated"} /\ inbox' = inbox
    BY <1>20, <1>f, <1>g DEF Truncate
  <2> QED
    BY <2>1, <1>a, <1>e, CallsUndisturbed DEF Queue
<1>21. CASE ClearTwilio
  <2>1. Idle /\ Calls /\ handler = "truncated" /\ handler' \in {"wait", "truncated"} /\ inbox' = inbox
    BY <1>21, <1>f, <1>g DEF ClearTwilio
  <2> QED
    BY <2>1, <1>a, <1>e, CallsUndisturbed DEF Queue
<1>30. CASE CallFunction
  <2>1. /\ active \in Responses /\ ~out[active].call /\ Send("call", active)
        /\ out' = [out EXCEPT ![active].call = TRUE]
        /\ UNCHANGED <<calling, ran, answered, handler, sockets>>
    BY <1>30, <1>g DEF CallFunction, Generates
  <2>2. ASSUME NEW n \in Responses
        PROVE  CallFollowsHandler(n)' /\ AnsweredInTurn(n)'
    <3>1. CallFollowsHandler(n) /\ AnsweredInTurn(n)
      BY <1>d
    <3>2. CASE n = active
      <4>1. ran[n] = 0 /\ answered[n] = 0 /\ calling # n /\ ~OnItsWay("call", n) /\ Once("call", n)
        BY <2>1, <3>1, <3>2 DEF CallFollowsHandler
      <4>2. OnItsWay("call", n)' /\ Once("call", n)' /\ out'[n].call
        <5>1. out'[n].call
          BY <2>1, <3>2, <1>f DEF Outputs
        <5> QED
          BY <2>1, <3>2, <4>1, <5>1, SendAdds
      <4> QED
        BY <2>1, <4>1, <4>2 DEF CallFollowsHandler, AnsweredInTurn
    <3>3. CASE n # active
      <4>1. out'[n].call = out[n].call
        BY <2>1, <3>3, <1>f
      <4>2. <<"call", n>> # <<"call", active>>
        BY <3>3
      <4>3. (OnItsWay("call", n)' <=> OnItsWay("call", n)) /\ (Once("call", n) => Once("call", n)')
        BY <2>1, <4>2, SendAdds
      <4>4. CallFollowsHandler(n)'
        BY <2>1, <3>1, <4>1, <4>3 DEF CallFollowsHandler
      <4> QED
        BY <2>1, <3>1, <4>1, <4>3, <4>4 DEF AnsweredInTurn
    <3> QED
      BY <3>2, <3>3
  <2> QED
    BY <2>1, <2>2 DEF CallInv
<1>31. ASSUME NEW m \in Responses, OnToolCall(m)
       PROVE  CallInv'
  <2>1. /\ Receive("call", m) /\ handler' = "executing" /\ calling' = m
        /\ UNCHANGED <<ran, answered, sockets, out>> /\ calling = 0
    BY <1>31, <1>e DEF OnToolCall, Receive
  <2>2. ASSUME NEW n \in Responses
        PROVE  CallFollowsHandler(n)' /\ AnsweredInTurn(n)'
    <3>1. CallFollowsHandler(n) /\ AnsweredInTurn(n)
      BY <1>d
    <3>2. CASE n = m
      <4>1. OnItsWay("call", n) /\ ~OnItsWay("call", n)' /\ Once("call", n)'
        BY <2>1, <3>1, <3>2, ReceiveTakes DEF CallFollowsHandler
      <4>2. ran[n] = 0 /\ answered[n] = 0 /\ out[n].call
        BY <3>1, <4>1 DEF CallFollowsHandler
      <4> QED
        BY <2>1, <3>2, <4>1, <4>2 DEF CallFollowsHandler, AnsweredInTurn
    <3>3. CASE n # m
      <4>1. <<"call", n>> # <<"call", m>>
        BY <3>3
      <4>2. (OnItsWay("call", n)' <=> OnItsWay("call", n)) /\ (Once("call", n) => Once("call", n)')
        BY <2>1, <4>1, ReceiveTakes
      <4>3. calling # n
        BY <1>d, <2>1
      <4>4. CallFollowsHandler(n)'
        BY <2>1, <3>1, <3>3, <4>2, <4>3 DEF CallFollowsHandler
      <4> QED
        BY <2>1, <3>1, <4>2, <4>3, <4>4 DEF AnsweredInTurn
    <3> QED
      BY <3>2, <3>3
  <2> QED
    BY <2>1, <2>2, <1>d DEF CallInv
<1>i. ASSUME NEW m \in Responses, calling = m, UNCHANGED <<inbox, out, sockets>>,
             \A n \in Responses : n # m =>
               ran'[n] = ran[n] /\ answered'[n] = answered[n] /\ calling' # n,
             CallFollowsHandler(m)', AnsweredInTurn(m)',
             \/ calling' = m /\ handler' \in {"result", "request", "acting"}
             \/ calling' = 0 /\ handler' = "wait"
      PROVE  CallInv'
  <2>1. ASSUME NEW n \in Responses, n # m
        PROVE  CallFollowsHandler(n)' /\ AnsweredInTurn(n)'
    <3>1. /\ CallFollowsHandler(n) /\ AnsweredInTurn(n)
          /\ ran'[n] = ran[n] /\ answered'[n] = answered[n] /\ calling' # n
      BY <1>d, <1>i, <2>1
    <3>2. (OnItsWay("call", n)' <=> OnItsWay("call", n)) /\ (Once("call", n)' <=> Once("call", n))
      BY <1>i DEF OnItsWay, Once, At
    <3>3. CallFollowsHandler(n)'
      BY <1>i, <2>1, <3>1, <3>2 DEF CallFollowsHandler
    <3> QED
      BY <1>i, <2>1, <3>1, <3>2, <3>3 DEF AnsweredInTurn
  <2>2. m # 0
    BY <1>d
  <2> QED
    BY <1>i, <2>1, <2>2 DEF CallInv
<1>j. ASSUME NEW m \in Responses, calling = m
      PROVE  /\ ~OnItsWay("call", m) /\ Once("call", m) /\ out[m].call
             /\ ran[m] \in Nat /\ ran[m] <= 1 /\ answered[m] \in Nat
             /\ handler = "executing" => ran[m] = 0
             /\ handler \in {"executing", "result"} => answered[m] = 0
             /\ handler \in {"request", "acting"} => answered[m] = 1
  BY <1>d, <1>j, <1>f DEF CallFollowsHandler, AnsweredInTurn
<1>k. inbox' = inbox =>
        \A m : (OnItsWay("call", m)' <=> OnItsWay("call", m)) /\ (Once("call", m)' <=> Once("call", m))
  BY DEF OnItsWay, Once, At
<1>32. CASE ExecuteTool
  <2>1. PICK m \in Responses : calling = m
    BY <1>32, <1>e DEF ExecuteTool
  <2>2. /\ handler = "executing" /\ handler' = "result" /\ calling' = m
        /\ UNCHANGED <<inbox, out, sockets, answered>>
        /\ ran' \in {ran, [ran EXCEPT ![m] = @ + 1]}
    BY <1>32, <2>1 DEF ExecuteTool
  <2>3. /\ ran'[m] <= 1 /\ \A n \in Responses : n # m => ran'[n] = ran[n]
    BY <2>1, <2>2, <1>j, <1>f
  <2>4. CallFollowsHandler(m)' /\ AnsweredInTurn(m)'
    BY <2>1, <2>2, <2>3, <1>j, <1>k DEF CallFollowsHandler, AnsweredInTurn
  <2> QED
    BY <2>1, <2>2, <2>3, <2>4, <1>i
<1>33. CASE SendToolResult
  <2>1. PICK m \in Responses : calling = m
    BY <1>33, <1>e DEF SendToolResult
  <2>2. /\ handler = "result" /\ UNCHANGED <<inbox, out, sockets, ran>>
        /\ \/ /\ answered' = [answered EXCEPT ![m] = @ + 1]
              /\ handler' = "request" /\ calling' = m
           \/ /\ "openai" \notin sockets /\ answered' = answered
              /\ handler' = "wait" /\ calling' = 0
    BY <1>33, <2>1 DEF SendToolResult, AbandonCall
  <2>3. /\ handler' = "request" => answered'[m] = 1
        /\ answered'[m] <= 1
        /\ \A n \in Responses : n # m => answered'[n] = answered[n]
    BY <2>1, <2>2, <1>j, <1>f
  <2>4. m # 0
    BY <1>d
  <2>5. CallFollowsHandler(m)' /\ AnsweredInTurn(m)'
    BY <2>1, <2>2, <2>3, <2>4, <1>j, <1>k DEF CallFollowsHandler, AnsweredInTurn
  <2>6. \A n \in Responses : n # m => calling' # n
    BY <2>2, <1>d
  <2> QED
    BY <2>1, <2>2, <2>3, <2>5, <2>6, <1>i
<1>34. CASE RequestResponse \/ ActOnResult \/ ActFails
  <2>1. PICK m \in Responses : calling = m
    BY <1>34, <1>e DEF RequestResponse, ActOnResult, ActFails
  <2>2. /\ handler \in {"request", "acting"} /\ UNCHANGED <<inbox, out, sockets, ran, answered>>
        /\ \/ handler' = "acting" /\ calling' = m
           \/ handler' = "wait" /\ calling' = 0
    BY <1>34, <2>1 DEF RequestResponse, ActOnResult, ActFails, AbandonCall
  <2>3. m # 0 /\ \A n \in Responses : n # m => calling' # n
    BY <2>2, <1>d
  <2>4. CallFollowsHandler(m)' /\ AnsweredInTurn(m)'
    BY <2>1, <2>2, <2>3, <1>j, <1>k DEF CallFollowsHandler, AnsweredInTurn
  <2> QED
    BY <2>1, <2>2, <2>3, <2>4, <1>i
<1> QED
  BY <1>1, <1>2, <1>3, <1>4, <1>5, <1>6, <1>7, <1>8, <1>9, <1>10, <1>11, <1>12, <1>13, <1>14,
     <1>15, <1>16, <1>17, <1>18, <1>19, <1>20, <1>21, <1>30, <1>31, <1>32, <1>33, <1>34
  DEF Next, Generate, Handle

(* No function is called when the call begins. *)
LEMMA InitCalls == Init => CallInv
<1> SUFFICES ASSUME Init
             PROVE  CallInv
  OBVIOUS
<1>1. Len(inbox) = 0 /\ DOMAIN inbox = {}
  BY DEF Init
<1>2. \A n \in Responses : ~out[n].call /\ ran[n] = 0 /\ answered[n] = 0 /\ calling # n
  BY LiveCallAssumption DEF Init, Nothing, Responses
<1>3. \A n \in Responses : CallFollowsHandler(n) /\ AnsweredInTurn(n)
  BY <1>1, <1>2 DEF CallFollowsHandler, AnsweredInTurn, Once, OnItsWay
<1> QED
  BY <1>3 DEF Init, CallInv

(* A function call is carried out at most once and answered before the     *)
(* next event is handled, unless OpenAI has closed the session.            *)
THEOREM CallsAreAnsweredInTurn == Spec => []CallsAnsweredInTurn
<1>1. Init => CallInv
  BY InitCalls
<1>2. CallInv => CallsAnsweredInTurn
  BY DEF CallInv, CallsAnsweredInTurn, AnsweredInTurn
<1> QED
  BY <1>1, <1>2, TypeCorrect, CallsInductive, PTL DEF Spec
-------------------------------------------------------------------------------
(* The transcript *)

(* The events that make up what is known of a response's text.             *)
Parts == {"text", "call", "done"}

(* The bridge has not yet received the end of this response.               *)
Open(n) == ~out[n].done \/ OnItsWay("done", n)

ResponsesInOrder ==
  /\ active # 0 => active = made
  /\ \A n \in Responses :
       /\ out[n].done <=> n <= made /\ n # active
       /\ n > made => out[n].text = 0 /\ ~out[n].call

PartsInOrder ==
  \A i, j \in 1..Len(inbox) : \A s, t \in Parts : \A m, n \in Responses :
    i < j /\ At(i, s, m) /\ At(j, t, n) => m <= n /\ (s = "done" => m # n)

PartsAreOpen ==
  \A i \in 1..Len(inbox) : \A t \in Parts : \A n \in Responses :
    At(i, t, n) => n <= made /\ Open(n) /\ (t = "done" => out[n].done)

(* The saved text is of one response that has not ended, the oldest of     *)
(* those in flight, and the one whose call is executed.                    *)
TextIsOldest ==
  text # <<>> =>
    /\ \A j \in 1..Len(text) : text[j] = text[1]
    /\ text[1] <= made /\ Open(text[1])
    /\ \A i \in 1..Len(inbox) : \A t \in Parts : \A n \in Responses :
         At(i, t, n) => text[1] <= n
    /\ calling \in {0, text[1]}

(* A turn is of one response, which has ended and has no other.            *)
TurnIsWhole(n) ==
  /\ \A i \in Turns(n) : ~Open(n) /\ \A j \in DOMAIN segments[i].said : segments[i].said[j] = n
  /\ \A i, j \in Turns(n) : i = j

InFlight(n) == {i \in 1..Len(inbox) : At(i, "text", n)}
Saved(n)    == IF text # <<>> /\ text[1] = n THEN Len(text) ELSE 0

(* No delta is lost: of a response that calls no function they are in      *)
(* flight, in the saved text or in its turn.                               *)
NothingIsLost(n) ==
  ~out[n].call =>
    IF Open(n)
      THEN out[n].text = Cardinality(InFlight(n)) + Saved(n)
      ELSE out[n].text > 0 => \E i \in Turns(n) : Len(segments[i].said) = out[n].text

FlightInv == ResponsesInOrder /\ PartsInOrder /\ PartsAreOpen

WordsInv ==
  /\ FlightInv /\ TextIsOldest
  /\ \A n \in Responses : TurnIsWhole(n) /\ NothingIsLost(n)

(* Sets of positions, as the queue moves.                                  *)
LEMMA ShiftedCount ==
  ASSUME NEW S, S \subseteq Int, IsFiniteSet(S)
  PROVE  Cardinality({i - 1 : i \in S}) = Cardinality(S)
<1> DEFINE T == {i - 1 : i \in S}
<1> DEFINE f == [i \in S |-> i - 1]
<1>1. f \in Bijection(S, T)
  <2>1. f \in [S -> T] /\ \A i \in S : f[i] = i - 1
    OBVIOUS
  <2>2. \A i, j \in S : f[i] = f[j] => i = j
    <3> SUFFICES ASSUME NEW i \in S, NEW j \in S, i - 1 = j - 1
                 PROVE  i = j
      BY <2>1
    <3>1. i \in Int /\ j \in Int
      OBVIOUS
    <3> QED
      BY <3>1
  <2>3. \A k \in T : \E i \in S : f[i] = k
    BY <2>1
  <2> HIDE DEF f, T
  <2> QED
    BY <2>1, <2>2, <2>3 DEF Bijection, Injection, Surjection, IsInjective
<1>2. ExistsBijection(S, T)
  BY <1>1 DEF ExistsBijection
<1> QED
  BY <1>2, FS_Bijection

(* The deltas of a response that are on the wire can be counted; *)
LEMMA FlightIsFinite ==
  ASSUME TypeOK, NEW n
  PROVE  IsFiniteSet(InFlight(n)) /\ Cardinality(InFlight(n)) \in Nat
<1>1. IsFiniteSet(1..Len(inbox))
  BY FS_Interval DEF TypeOK, ServerTypes
<1> QED
  BY <1>1, FS_Subset, FS_CardinalityType DEF InFlight

(* and so can its words the bridge holds and the deltas it has sent. *)
LEMMA WordsAreCounted ==
  ASSUME TypeOK, NEW r \in Responses
  PROVE  /\ Cardinality(InFlight(r)) \in Nat
         /\ Saved(r) \in Nat
         /\ out[r].text \in Nat
<1>1. Cardinality(InFlight(r)) \in Nat
  BY FlightIsFinite
<1>2. Saved(r) \in Nat
  <2>1. text \in Seq(Responses)
    BY DEF TypeOK, BridgeTypes
  <2>2. Len(text) \in Nat
    BY <2>1
  <2> QED
    BY <2>2 DEF Saved
<1>3. out[r].text \in Nat
  <2>1. out \in [Responses -> Outputs]
    BY DEF TypeOK, ServerTypes
  <2>2. out[r] \in Outputs
    BY <2>1
  <2> QED
    BY <2>2 DEF Outputs
<1> QED
  BY <1>1, <1>2, <1>3

(* one more is there when one is sent, *)
LEMMA SendCounts ==
  ASSUME TypeOK, NEW type, NEW n, Send(type, n), NEW r
  PROVE  Cardinality(InFlight(r))' =
           Cardinality(InFlight(r)) + (IF <<type, n>> = <<"text", r>> THEN 1 ELSE 0)
<1>1. /\ Len(inbox) \in Nat /\ Len(inbox') = Len(inbox) + 1
      /\ inbox'[Len(inbox')] = <<type, n>>
      /\ \A i \in 1..Len(inbox) : inbox'[i] = inbox[i]
  BY SendAppends DEF TypeOK, ServerTypes
<1>2. IsFiniteSet(InFlight(r)) /\ Cardinality(InFlight(r)) \in Nat
  BY FlightIsFinite
<1>3. Len(inbox') \notin InFlight(r)
  BY <1>1 DEF InFlight
<1>4. CASE <<type, n>> = <<"text", r>>
  <2>1. InFlight(r)' = InFlight(r) \cup {Len(inbox')}
    BY <1>1, <1>4 DEF InFlight, At
  <2> QED
    BY <1>2, <1>3, <1>4, <2>1, FS_AddElement
<1>5. CASE <<type, n>> # <<"text", r>>
  <2>1. InFlight(r)' = InFlight(r)
    BY <1>1, <1>5 DEF InFlight, At
  <2> QED
    BY <1>2, <1>5, <2>1
<1> QED
  BY <1>4, <1>5

(* and one less when one is received. *)
LEMMA ReceiveCounts ==
  ASSUME TypeOK, NEW type, NEW n, Receive(type, n), NEW r
  PROVE  Cardinality(InFlight(r))' =
           Cardinality(InFlight(r)) - (IF <<type, n>> = <<"text", r>> THEN 1 ELSE 0)
<1>1. /\ Len(inbox) \in Nat /\ Len(inbox) > 0 /\ inbox[1] = <<type, n>>
      /\ Len(inbox') = Len(inbox) - 1
      /\ \A i \in 1..Len(inbox') : inbox'[i] = inbox[i + 1]
  BY ReceiveShifts DEF TypeOK, ServerTypes
<1> DEFINE S == InFlight(r) \ {1}
<1>2. IsFiniteSet(InFlight(r)) /\ Cardinality(InFlight(r)) \in Nat
  BY FlightIsFinite
<1>3. IsFiniteSet(S)
      /\ Cardinality(S) = Cardinality(InFlight(r)) - (IF 1 \in InFlight(r) THEN 1 ELSE 0)
  BY <1>2, FS_RemoveElement
<1>4. 1 \in InFlight(r) <=> <<type, n>> = <<"text", r>>
  BY <1>1 DEF InFlight, At
<1>5. S \subseteq Int
  BY DEF InFlight
<1>6. InFlight(r)' = {i - 1 : i \in S}
  <2>1. ASSUME NEW i \in InFlight(r)'
        PROVE  i \in {k - 1 : k \in S}
    <3>1. i + 1 \in S /\ i = (i + 1) - 1
      BY <1>1, <2>1 DEF InFlight, At
    <3> QED
      BY <3>1
  <2>2. ASSUME NEW k \in S
        PROVE  k - 1 \in InFlight(r)'
    <3>1. k \in 1..Len(inbox) /\ inbox[k] = <<"text", r>> /\ k # 1
      BY <2>2 DEF InFlight, At
    <3>2. k - 1 \in 1..Len(inbox') /\ (k - 1) + 1 = k
      BY <1>1, <3>1
    <3> QED
      BY <1>1, <3>1, <3>2 DEF InFlight, At
  <2> QED
    BY <2>1, <2>2
<1> HIDE DEF S
<1>7. Cardinality(InFlight(r)') = Cardinality(S)
  BY <1>3, <1>5, <1>6, ShiftedCount
<1> QED
  BY <1>2, <1>3, <1>4, <1>7

(* What keeps a response's turns whole and its text complete.              *)
LEMMA WordsKept ==
  ASSUME NEW n \in Responses, TurnIsWhole(n), NothingIsLost(n),
         out'[n].text = out[n].text, out[n].call => out'[n].call, Open(n)' <=> Open(n),
         Turns(n)' = Turns(n), \A i \in Turns(n) : segments'[i] = segments[i],
         ~out'[n].call =>
           Cardinality(InFlight(n))' + Saved(n)' = Cardinality(InFlight(n)) + Saved(n)
  PROVE  TurnIsWhole(n)' /\ NothingIsLost(n)'
<1>1. TurnIsWhole(n)'
  BY DEF TurnIsWhole
<1>2. NothingIsLost(n)'
  BY DEF NothingIsLost
<1> QED
  BY <1>1, <1>2

(* An event that is received leaves the parts in flight in order.          *)
LEMMA ReceiveKeepsFlight ==
  ASSUME TypeOK, FlightInv, NEW type, NEW n, Receive(type, n),
         type \in Parts => n \in Responses, UNCHANGED <<made, active, out>>
  PROVE  /\ FlightInv'
         /\ \A r \in Responses : <<type, n>> # <<"done", r>> => (Open(r)' <=> Open(r))
         /\ type = "done" => ~Open(n)'
<1>1. /\ Len(inbox) \in Nat /\ Len(inbox) > 0 /\ inbox[1] = <<type, n>>
      /\ Len(inbox') = Len(inbox) - 1
      /\ \A i \in 1..Len(inbox') : inbox'[i] = inbox[i + 1]
  BY ReceiveShifts DEF TypeOK, ServerTypes
<1>2. \A i \in 1..Len(inbox') : i + 1 \in 1..Len(inbox) /\ 1 < i + 1
  BY <1>1
<1>3. 1 \in 1..Len(inbox)
  BY <1>1
<1>4. PartsInOrder'
  <2> SUFFICES ASSUME NEW i \in 1..Len(inbox'), NEW j \in 1..Len(inbox'),
                      NEW s \in Parts, NEW t \in Parts, NEW m \in Responses, NEW r \in Responses,
                      i < j, inbox'[i] = <<s, m>>, inbox'[j] = <<t, r>>
               PROVE  m <= r /\ (s = "done" => m # r)
    BY DEF PartsInOrder, At
  <2>1. i + 1 \in 1..Len(inbox) /\ j + 1 \in 1..Len(inbox) /\ i + 1 < j + 1
    BY <1>2
  <2>2. inbox[i + 1] = <<s, m>> /\ inbox[j + 1] = <<t, r>>
    BY <1>1
  <2> QED
    BY <2>1, <2>2 DEF FlightInv, PartsInOrder, At
<1>5. \A r \in Responses : <<type, n>> # <<"done", r>> => (Open(r)' <=> Open(r))
  <2> SUFFICES ASSUME NEW r \in Responses, <<type, n>> # <<"done", r>>
               PROVE  Open(r)' <=> Open(r)
    OBVIOUS
  <2>1. OnItsWay("done", r)' <=> OnItsWay("done", r)
    BY ReceiveTakes
  <2> QED
    BY <2>1 DEF Open
<1>6. ASSUME type \in Parts, NEW i \in 1..Len(inbox'), NEW t \in Parts, NEW r \in Responses,
             inbox'[i] = <<t, r>>
      PROVE  n <= r /\ (type = "done" => n # r)
  <2>1. inbox[i + 1] = <<t, r>> /\ i + 1 \in 1..Len(inbox) /\ 1 < i + 1
    BY <1>1, <1>2, <1>6
  <2> QED
    BY <1>1, <1>3, <1>6, <2>1 DEF FlightInv, PartsInOrder, At
<1>7. type = "done" => ~Open(n)'
  <2> SUFFICES ASSUME type = "done"
               PROVE  out'[n].done /\ ~OnItsWay("done", n)'
    BY DEF Open
  <2>1. type \in Parts /\ n \in Responses
    BY DEF Parts
  <2>2. out[n].done
    BY <1>1, <1>3, <2>1 DEF FlightInv, PartsAreOpen, At
  <2>3. DOMAIN inbox' = 1..Len(inbox')
    BY ReceiveTyped DEF TypeOK, ServerTypes
  <2> QED
    BY <1>6, <2>1, <2>2, <2>3 DEF OnItsWay
<1>8. PartsAreOpen'
  <2> SUFFICES ASSUME NEW i \in 1..Len(inbox'), NEW t \in Parts, NEW r \in Responses,
                      inbox'[i] = <<t, r>>
               PROVE  r <= made /\ Open(r)' /\ (t = "done" => out[r].done)
    BY DEF PartsAreOpen, At
  <2>1. r <= made /\ Open(r) /\ (t = "done" => out[r].done)
    BY <1>1, <1>2 DEF FlightInv, PartsAreOpen, At
  <2>2. <<type, n>> # <<"done", r>>
    BY <1>6 DEF Parts
  <2> QED
    BY <1>5, <2>1, <2>2
<1>9. ResponsesInOrder'
  BY DEF FlightInv, ResponsesInOrder
<1> QED
  BY <1>4, <1>5, <1>7, <1>8, <1>9 DEF FlightInv

(* The part received is of the response the saved text is of.              *)
LEMMA TextGoesOn ==
  ASSUME TypeOK, FlightInv, TextIsOldest, text # <<>>,
         NEW type \in Parts, NEW n \in Responses, Receive(type, n)
  PROVE  text[1] = n
<1>1. Len(inbox) \in Nat /\ Len(inbox) > 0 /\ inbox[1] = <<type, n>> /\ 1 \in 1..Len(inbox)
      /\ DOMAIN inbox = 1..Len(inbox)
  BY ReceiveShifts DEF TypeOK, ServerTypes
<1>2. text[1] \in Responses /\ text[1] <= n /\ Open(text[1]) /\ n <= made
  BY <1>1 DEF TypeOK, BridgeTypes, TextIsOldest, FlightInv, PartsAreOpen, At
<1>3. ASSUME text[1] < n
      PROVE  FALSE
  <2>1. made \in Nat /\ active \in Nat /\ text[1] \in Nat /\ n \in Nat
    BY LiveCallAssumption, <1>2 DEF TypeOK, ServerTypes, Responses
  <2>2. text[1] <= made /\ text[1] # active
    BY <1>2, <1>3, <2>1, LiveCallAssumption DEF FlightInv, ResponsesInOrder, Responses
  <2>3. OnItsWay("done", text[1])
    BY <1>2, <2>2 DEF FlightInv, ResponsesInOrder, Open
  <2>4. PICK k \in 1..Len(inbox) : inbox[k] = <<"done", text[1]>>
    BY <1>1, <2>3 DEF OnItsWay
  <2>5. k # 1
    BY <1>1, <1>3, <2>1, <2>4
  <2>6. n <= text[1]
    BY <1>1, <1>2, <2>4, <2>5 DEF FlightInv, PartsInOrder, At, Parts
  <2> QED
    BY <1>3, <2>1, <2>6
<1> QED
  BY <1>2, <1>3, LiveCallAssumption DEF Responses

(* An event that OpenAI sends comes last, and is counted.                  *)
LEMMA SendKeepsWords ==
  ASSUME TypeOK, TypeOK', WordsInv, NEW type, NEW n, Send(type, n),
         UNCHANGED <<made, calling, text, segments>>,
         type \in Parts => n = active /\ active # 0,
         active' = (IF type = "done" THEN 0 ELSE active),
         \A r \in Responses :
           /\ out'[r].done <=> out[r].done \/ (type = "done" /\ r = n)
           /\ out'[r].text = out[r].text + (IF type = "text" /\ r = n THEN 1 ELSE 0)
           /\ out'[r].call <=> out[r].call \/ (type = "call" /\ r = n)
  PROVE  WordsInv'
<1>1. /\ Len(inbox) \in Nat /\ Len(inbox') = Len(inbox) + 1
      /\ inbox'[Len(inbox')] = <<type, n>>
      /\ \A i \in 1..Len(inbox) : inbox'[i] = inbox[i]
  BY SendAppends DEF TypeOK, ServerTypes
<1>2. \A i \in 1..Len(inbox') : i = Len(inbox') \/ (i \in 1..Len(inbox) /\ i < Len(inbox'))
  BY <1>1
<1>3. made \in Nat /\ active \in Nat /\ (active # 0 => active \in Responses /\ active = made)
  BY ActiveTyped, LiveCallAssumption DEF TypeOK, ServerTypes, WordsInv, FlightInv, ResponsesInOrder
<1>4. \A r \in Responses : r \in Nat /\ r # 0
  BY LiveCallAssumption DEF Responses
<1>5. type \in Parts =>
        n \in Responses /\ n = made /\ ~out[n].done /\ (type = "done" => out'[n].done)
  BY <1>3 DEF WordsInv, FlightInv, ResponsesInOrder
<1>6. ASSUME NEW r \in Responses
      PROVE  Open(r)' <=> Open(r)
  <2>1. OnItsWay("done", r)' <=> OnItsWay("done", r) \/ <<"done", r>> = <<type, n>>
    BY SendAdds
  <2>2. CASE <<"done", r>> = <<type, n>>
    <3>1. ~out[r].done
      BY <1>5, <2>2 DEF Parts
    <3> QED
      BY <2>1, <2>2, <3>1 DEF Open
  <2>3. CASE <<"done", r>> # <<type, n>>
    <3>1. out'[r].done <=> out[r].done
      BY <2>3
    <3> QED
      BY <2>1, <2>3, <3>1 DEF Open
  <2> QED
    BY <2>2, <2>3
<1>7. ResponsesInOrder'
  <2>1. active' # 0 => active' = made'
    BY <1>3
  <2>2. ASSUME NEW r \in Responses
        PROVE  /\ out'[r].done <=> r <= made' /\ r # active'
               /\ r > made' => out'[r].text = 0 /\ ~out'[r].call
    <3>1. /\ out[r].done <=> r <= made /\ r # active
          /\ r > made => out[r].text = 0 /\ ~out[r].call
      BY DEF WordsInv, FlightInv, ResponsesInOrder
    <3>2. out'[r].done <=> r <= made' /\ r # active'
      BY <1>3, <1>4, <1>5, <3>1 DEF Parts
    <3>3. r > made => ~(type \in Parts /\ r = n)
      BY <1>3, <1>4, <1>5
    <3>4. out'[r].text \in Nat /\ out[r].text \in Nat
      BY DEF TypeOK, ServerTypes, Outputs
    <3> QED
      BY <3>1, <3>2, <3>3, <3>4 DEF Parts
  <2> QED
    BY <2>1, <2>2 DEF ResponsesInOrder
<1>8. PartsInOrder'
  <2> SUFFICES ASSUME NEW i \in 1..Len(inbox'), NEW j \in 1..Len(inbox'),
                      NEW s \in Parts, NEW t \in Parts, NEW m \in Responses, NEW r \in Responses,
                      i < j, inbox'[i] = <<s, m>>, inbox'[j] = <<t, r>>
               PROVE  m <= r /\ (s = "done" => m # r)
    BY DEF PartsInOrder, At
  <2>1. i \in 1..Len(inbox) /\ inbox[i] = <<s, m>>
    BY <1>1, <1>2
  <2>2. CASE j \in 1..Len(inbox)
    BY <1>1, <2>1, <2>2 DEF WordsInv, FlightInv, PartsInOrder, At
  <2>3. CASE j = Len(inbox')
    <3>1. t = type /\ r = n /\ r = made /\ ~out[r].done
      BY <1>1, <1>5, <2>3
    <3>2. m <= made /\ (s = "done" => out[m].done)
      BY <2>1 DEF WordsInv, FlightInv, PartsAreOpen, At
    <3> QED
      BY <3>1, <3>2
  <2> QED
    BY <1>2, <2>2, <2>3
<1>9. PartsAreOpen'
  <2> SUFFICES ASSUME NEW i \in 1..Len(inbox'), NEW t \in Parts, NEW r \in Responses,
                      inbox'[i] = <<t, r>>
               PROVE  r <= made /\ Open(r) /\ (t = "done" => out'[r].done)
    BY <1>6 DEF PartsAreOpen, At
  <2>1. CASE i \in 1..Len(inbox)
    BY <1>1, <2>1 DEF WordsInv, FlightInv, PartsAreOpen, At
  <2>2. CASE i = Len(inbox')
    <3>1. t = type /\ r = n
      BY <1>1, <2>2
    <3> QED
      BY <1>3, <1>5, <3>1 DEF Open
  <2> QED
    BY <1>2, <2>1, <2>2
<1>10. TextIsOldest'
  <2> SUFFICES ASSUME text # <<>>
               PROVE  /\ \A j \in 1..Len(text) : text[j] = text[1]
                      /\ text[1] <= made /\ Open(text[1])'
                      /\ \A i \in 1..Len(inbox') : \A t \in Parts : \A r \in Responses :
                           inbox'[i] = <<t, r>> => text[1] <= r
                      /\ calling \in {0, text[1]}
    BY DEF TextIsOldest, At, Open, OnItsWay
  <2>1. /\ \A j \in 1..Len(text) : text[j] = text[1]
        /\ text[1] <= made /\ Open(text[1]) /\ calling \in {0, text[1]}
    BY DEF WordsInv, TextIsOldest
  <2>2. text[1] \in Responses /\ text'[1] = text[1]
    BY DEF TypeOK, BridgeTypes
  <2>3. Open(text[1])'
    BY <1>6, <2>1, <2>2 DEF Open, OnItsWay
  <2>4. ASSUME NEW i \in 1..Len(inbox'), NEW t \in Parts, NEW r \in Responses, inbox'[i] = <<t, r>>
        PROVE  text[1] <= r
    <3>1. CASE i \in 1..Len(inbox)
      BY <1>1, <2>4, <3>1 DEF WordsInv, TextIsOldest, At
    <3>2. CASE i = Len(inbox')
      <4>1. t = type /\ r = n
        BY <1>1, <2>4, <3>2
      <4> QED
        BY <1>5, <2>1, <4>1
    <3> QED
      BY <1>2, <3>1, <3>2
  <2> QED
    BY <2>1, <2>3, <2>4
<1>11. ASSUME NEW r \in Responses
       PROVE  TurnIsWhole(r)' /\ NothingIsLost(r)'
  <2>1. TurnIsWhole(r) /\ NothingIsLost(r) /\ (Open(r)' <=> Open(r))
    BY <1>6 DEF WordsInv
  <2>2. Turns(r)' = Turns(r) /\ Saved(r)' = Saved(r)
    BY DEF Turns, Saved
  <2>3. Cardinality(InFlight(r))' =
          Cardinality(InFlight(r)) + (IF <<type, n>> = <<"text", r>> THEN 1 ELSE 0)
    BY SendCounts
  <2>4. Cardinality(InFlight(r)) \in Nat /\ Saved(r) \in Nat /\ out[r].text \in Nat
    BY WordsAreCounted
  <2>5. CASE <<type, n>> = <<"text", r>>
    <3>1. Open(r) /\ out'[r].text = out[r].text + 1 /\ (out'[r].call <=> out[r].call)
      BY <1>5, <2>5 DEF Open, Parts
    <3>2. NothingIsLost(r)'
      BY <2>1, <2>2, <2>3, <2>4, <2>5, <3>1 DEF NothingIsLost
    <3>3. TurnIsWhole(r)'
      BY <2>1, <2>2 DEF TurnIsWhole
    <3> QED
      BY <3>2, <3>3
  <2>6. CASE <<type, n>> # <<"text", r>>
    <3>1. out'[r].text = out[r].text /\ (out[r].call => out'[r].call)
      BY <2>4, <2>6
    <3> QED
      BY <2>1, <2>2, <2>3, <2>4, <2>6, <3>1, WordsKept
  <2> QED
    BY <2>5, <2>6
<1> QED
  BY <1>7, <1>8, <1>9, <1>10, <1>11 DEF WordsInv, FlightInv

(* What the events behind the head say of the text, once it is received.   *)
LEMMA OldestStays ==
  ASSUME TypeOK, FlightInv, NEW type, NEW n, Receive(type, n), NEW m,
         \A i \in 1..Len(inbox) : \A t \in Parts : \A r \in Responses :
           i > 1 /\ At(i, t, r) => m <= r
  PROVE  \A i \in 1..Len(inbox') : \A t \in Parts : \A r \in Responses :
           inbox'[i] = <<t, r>> => m <= r
<1>1. /\ Len(inbox) \in Nat /\ Len(inbox') = Len(inbox) - 1
      /\ \A i \in 1..Len(inbox') : inbox'[i] = inbox[i + 1]
  BY ReceiveShifts DEF TypeOK, ServerTypes
<1> SUFFICES ASSUME NEW i \in 1..Len(inbox'), NEW t \in Parts, NEW r \in Responses,
                    inbox'[i] = <<t, r>>
             PROVE  m <= r
  OBVIOUS
<1>2. i + 1 \in 1..Len(inbox) /\ i + 1 > 1 /\ inbox[i + 1] = <<t, r>>
  BY <1>1
<1> QED
  BY <1>2 DEF At

(* Receiving anything but text and the end of a response.                  *)
LEMMA ReceiveKeepsWords ==
  ASSUME TypeOK, TypeOK', WordsInv, NEW type, NEW n, Receive(type, n),
         type \notin {"text", "done"}, type = "call" => n \in Responses,
         UNCHANGED <<made, active, out, text>>,
         calling' = (IF type = "call" THEN n ELSE calling),
         \A r \in Responses :
           Turns(r)' = Turns(r) /\ \A i \in Turns(r) : segments'[i] = segments[i]
  PROVE  WordsInv'
<1>1. type \in Parts => n \in Responses
  BY DEF Parts
<1>2. FlightInv' /\ \A r \in Responses : Open(r)' <=> Open(r)
  <2>1. \A r : <<type, n>> # <<"done", r>>
    OBVIOUS
  <2> QED
    BY <1>1, <2>1, ReceiveKeepsFlight DEF WordsInv
<1>3. TextIsOldest'
  <2> SUFFICES ASSUME text # <<>>
               PROVE  /\ \A j \in 1..Len(text) : text[j] = text[1]
                      /\ text[1] <= made /\ Open(text[1])'
                      /\ \A i \in 1..Len(inbox') : \A t \in Parts : \A r \in Responses :
                           inbox'[i] = <<t, r>> => text[1] <= r
                      /\ calling' \in {0, text[1]}
    BY DEF TextIsOldest, At, Open, OnItsWay
  <2>1. /\ \A j \in 1..Len(text) : text[j] = text[1]
        /\ text[1] <= made /\ Open(text[1]) /\ calling \in {0, text[1]}
        /\ \A i \in 1..Len(inbox) : \A t \in Parts : \A r \in Responses :
             At(i, t, r) => text[1] <= r
    BY DEF WordsInv, TextIsOldest
  <2>2. text[1] \in Responses /\ text'[1] = text[1]
    BY DEF TypeOK, BridgeTypes
  <2>3. Open(text[1])'
    BY <1>2, <2>1, <2>2 DEF Open, OnItsWay
  <2>4. \A i \in 1..Len(inbox') : \A t \in Parts : \A r \in Responses :
          inbox'[i] = <<t, r>> => text[1] <= r
    BY <2>1, OldestStays DEF WordsInv
  <2>5. type = "call" => text[1] = n
    BY TextGoesOn, <1>1 DEF WordsInv, Parts
  <2> QED
    BY <2>1, <2>3, <2>4, <2>5
<1>4. ASSUME NEW r \in Responses
      PROVE  TurnIsWhole(r)' /\ NothingIsLost(r)'
  <2>1. TurnIsWhole(r) /\ NothingIsLost(r) /\ (Open(r)' <=> Open(r))
    BY <1>2 DEF WordsInv
  <2>2. Cardinality(InFlight(r))' = Cardinality(InFlight(r))
    <3>1. <<type, n>> # <<"text", r>>
      OBVIOUS
    <3> QED
      BY <3>1, ReceiveCounts, FlightIsFinite
  <2>3. Saved(r)' = Saved(r)
    BY DEF Saved
  <2> QED
    BY <2>1, <2>2, <2>3, WordsKept
<1> QED
  BY <1>2, <1>3, <1>4 DEF WordsInv

(* A step that receives and sends nothing.                                 *)
LEMMA QuietKeepsWords ==
  ASSUME TypeOK, TypeOK', WordsInv, ResponsesInOrder', made' >= made,
         UNCHANGED <<inbox, out, text, segments>>, calling' \in {0, calling}
  PROVE  WordsInv'
<1>1. \A n : (OnItsWay("done", n)' <=> OnItsWay("done", n)) /\ (Open(n)' <=> Open(n))
  BY DEF Open, OnItsWay
<1>2. PartsInOrder'
  BY DEF WordsInv, FlightInv, PartsInOrder, At
<1>3. PartsAreOpen'
  <2> SUFFICES ASSUME NEW i \in 1..Len(inbox), NEW t \in Parts, NEW n \in Responses,
                      inbox[i] = <<t, n>>
               PROVE  n <= made' /\ Open(n) /\ (t = "done" => out[n].done)
    BY <1>1 DEF PartsAreOpen, At
  <2>1. n <= made /\ Open(n) /\ (t = "done" => out[n].done)
    BY DEF WordsInv, FlightInv, PartsAreOpen, At
  <2> QED
    BY <2>1, LiveCallAssumption DEF TypeOK, ServerTypes, Responses
<1>4. TextIsOldest'
  <2> SUFFICES ASSUME text # <<>>
               PROVE  /\ \A j \in 1..Len(text) : text[j] = text[1]
                      /\ text[1] <= made' /\ Open(text[1])
                      /\ \A i \in 1..Len(inbox) : \A t \in Parts : \A n \in Responses :
                           At(i, t, n) => text[1] <= n
                      /\ calling' \in {0, text[1]}
    BY DEF TextIsOldest, At, Open, OnItsWay
  <2>1. text[1] \in Nat
    <3>1. text[1] \in Responses
      BY DEF TypeOK, BridgeTypes
    <3> QED
      BY <3>1, LiveCallAssumption DEF Responses
  <2> QED
    BY <2>1, LiveCallAssumption DEF WordsInv, TextIsOldest, TypeOK, ServerTypes
<1>5. ASSUME NEW n \in Responses
      PROVE  TurnIsWhole(n)' /\ NothingIsLost(n)'
  <2>1. TurnIsWhole(n) /\ NothingIsLost(n)
    BY DEF WordsInv
  <2>2. Turns(n)' = Turns(n) /\ Saved(n)' = Saved(n) /\ InFlight(n)' = InFlight(n)
    BY DEF Turns, Saved, InFlight, At
  <2> QED
    BY <1>1, <2>1, <2>2, WordsKept
<1> QED
  BY <1>2, <1>3, <1>4, <1>5 DEF WordsInv, FlightInv

(* The turns, as one is added.                                             *)
LEMMA TurnAdded ==
  ASSUME TypeOK, NEW s \in Segments, segments' = Append(segments, s), NEW r
  PROVE  /\ Turns(r)' = IF s.by = "agent" /\ \E j \in DOMAIN s.said : s.said[j] = r
                          THEN Turns(r) \cup {Len(segments) + 1} ELSE Turns(r)
         /\ \A i \in Turns(r) : segments'[i] = segments[i] /\ i # Len(segments) + 1
         /\ segments'[Len(segments) + 1] = s
<1>1. /\ Len(segments) \in Nat /\ DOMAIN segments = 1..Len(segments)
      /\ DOMAIN segments' = 1..(Len(segments) + 1)
      /\ segments'[Len(segments) + 1] = s
      /\ \A i \in 1..Len(segments) : segments'[i] = segments[i]
  BY DEF TypeOK, BridgeTypes
<1>2. \A i \in 1..(Len(segments) + 1) : i = Len(segments) + 1 \/ i \in 1..Len(segments)
  BY <1>1
<1>3. \A i \in 1..Len(segments) : i \in 1..(Len(segments) + 1) /\ i # Len(segments) + 1
  BY <1>1
<1>4. Len(segments) + 1 \in 1..(Len(segments) + 1)
  BY <1>1
<1>5. \A i : i \in Turns(r)' <=>
        \/ i \in Turns(r)
        \/ i = Len(segments) + 1 /\ s.by = "agent" /\ \E j \in DOMAIN s.said : s.said[j] = r
  <2> SUFFICES ASSUME NEW i
               PROVE  i \in Turns(r)' <=>
                        \/ i \in Turns(r)
                        \/ /\ i = Len(segments) + 1 /\ s.by = "agent"
                           /\ \E j \in DOMAIN s.said : s.said[j] = r
    OBVIOUS
  <2>1. CASE i \in 1..Len(segments)
    BY <1>1, <1>3, <2>1 DEF Turns
  <2>2. CASE i = Len(segments) + 1
    <3>1. i \notin Turns(r)
      BY <1>1, <2>2 DEF Turns
    <3> QED
      BY <1>1, <1>4, <2>2, <3>1 DEF Turns
  <2>3. CASE i \notin 1..(Len(segments) + 1)
    BY <1>1, <1>3, <1>4, <2>3 DEF Turns
  <2> QED
    BY <1>2, <2>1, <2>2, <2>3
<1>6. \A i \in Turns(r) : segments'[i] = segments[i] /\ i # Len(segments) + 1
  BY <1>1, <1>3 DEF Turns
<1>7. CASE s.by = "agent" /\ \E j \in DOMAIN s.said : s.said[j] = r
  <2>1. Turns(r)' = Turns(r) \cup {Len(segments) + 1}
    BY <1>5, <1>7
  <2> QED
    BY <1>1, <1>6, <1>7, <2>1
<1>8. CASE ~(s.by = "agent" /\ \E j \in DOMAIN s.said : s.said[j] = r)
  <2>1. Turns(r)' = Turns(r)
    BY <1>5, <1>8
  <2> QED
    BY <1>1, <1>6, <1>8, <2>1
<1> QED
  BY <1>7, <1>8

(* A delta of the text is appended to those of its own response.           *)
LEMMA TranscriptKeepsWords ==
  ASSUME TypeOK, TypeOK', WordsInv, calling = 0, NEW n \in Responses, OnAiTranscript(n)
  PROVE  WordsInv'
<1>1. /\ Receive("text", n) /\ text' = Append(text, n)
      /\ UNCHANGED <<made, active, out, segments, calling>>
  BY DEF OnAiTranscript, server, tools
<1>2. FlightInv' /\ \A r \in Responses : Open(r)' <=> Open(r)
  <2>1. \A r : <<"text", n>> # <<"done", r>>
    OBVIOUS
  <2> QED
    BY <1>1, <2>1, ReceiveKeepsFlight DEF WordsInv
<1>3. text # <<>> => text[1] = n
  BY <1>1, TextGoesOn DEF WordsInv, Parts
<1>4. /\ text \in Seq(Responses) /\ Len(text) \in Nat /\ Len(text') = Len(text) + 1
      /\ text'[Len(text) + 1] = n /\ \A j \in 1..Len(text) : text'[j] = text[j]
      /\ text' # <<>>
  BY <1>1 DEF TypeOK, BridgeTypes
<1>5. \A j \in 1..Len(text') : text'[j] = n
  <2> SUFFICES ASSUME NEW j \in 1..Len(text')
               PROVE  text'[j] = n
    OBVIOUS
  <2>1. CASE j = Len(text) + 1
    BY <1>4, <2>1
  <2>2. CASE j \in 1..Len(text)
    <3>1. text # <<>>
      BY <2>2, <1>4
    <3> QED
      BY <1>3, <1>4, <2>2, <3>1 DEF WordsInv, TextIsOldest
  <2> QED
    BY <1>4, <2>1, <2>2
<1>6. text'[1] = n
  BY <1>4, <1>5
<1>7. inbox[1] = <<"text", n>> /\ 1 \in 1..Len(inbox)
  BY <1>1, ReceiveShifts DEF TypeOK, ServerTypes
<1>8. n <= made /\ Open(n)
  BY <1>7 DEF WordsInv, FlightInv, PartsAreOpen, At, Parts
<1>9. \A i \in 1..Len(inbox') : \A t \in Parts : \A r \in Responses :
        inbox'[i] = <<t, r>> => n <= r
  <2>1. \A i \in 1..Len(inbox) : \A t \in Parts : \A r \in Responses :
          i > 1 /\ At(i, t, r) => n <= r
    BY <1>7 DEF WordsInv, FlightInv, PartsInOrder, At, Parts
  <2> QED
    BY <1>1, <2>1, OldestStays DEF WordsInv
<1>10. TextIsOldest'
  <2>1. Open(n)'
    BY <1>2, <1>8
  <2> QED
    BY <1>1, <1>5, <1>6, <1>8, <1>9, <2>1 DEF TextIsOldest, At, Open, OnItsWay
<1>11. ASSUME NEW r \in Responses
       PROVE  TurnIsWhole(r)' /\ NothingIsLost(r)'
  <2>1. TurnIsWhole(r) /\ NothingIsLost(r) /\ (Open(r)' <=> Open(r))
    BY <1>2 DEF WordsInv
  <2>2. Turns(r)' = Turns(r)
    BY <1>1 DEF Turns
  <2>3. /\ Cardinality(InFlight(r)) \in Nat
        /\ Cardinality(InFlight(r))' = Cardinality(InFlight(r)) - (IF r = n THEN 1 ELSE 0)
    <3>1. <<"text", n>> = <<"text", r>> <=> r = n
      OBVIOUS
    <3> QED
      BY <1>1, <3>1, ReceiveCounts, FlightIsFinite
  <2>4. Saved(r)' = Saved(r) + (IF r = n THEN 1 ELSE 0)
    <3>1. text = <<>> => Len(text) = 0
      OBVIOUS
    <3>2. CASE r = n
      <4>1. Saved(r)' = Len(text) + 1
        BY <1>4, <1>6, <3>2 DEF Saved
      <4>2. Saved(r) = Len(text)
        BY <1>3, <3>1, <3>2 DEF Saved
      <4> QED
        BY <3>2, <4>1, <4>2
    <3>3. CASE r # n
      <4>1. Saved(r)' = 0
        BY <1>6, <3>3 DEF Saved
      <4>2. Saved(r) = 0
        BY <1>3, <3>3 DEF Saved
      <4> QED
        BY <3>3, <4>1, <4>2
    <3> QED
      BY <3>2, <3>3
  <2>5. Saved(r) \in Nat
    BY <1>4 DEF Saved
  <2>6. Cardinality(InFlight(r))' + Saved(r)' = Cardinality(InFlight(r)) + Saved(r)
    BY <2>3, <2>4, <2>5
  <2> QED
    BY <1>1, <2>1, <2>2, <2>6, WordsKept
<1> QED
  BY <1>2, <1>10, <1>11 DEF WordsInv

(* The end of a response makes its whole text a turn.                      *)
LEMMA DoneKeepsWords ==
  ASSUME TypeOK, TypeOK', WordsInv, NEW n \in Responses, OnResponseDone(n)
  PROVE  WordsInv'
<1>1. /\ Receive("done", n) /\ text' = <<>>
      /\ UNCHANGED <<made, active, out, calling>>
      /\ segments' = IF text # <<>> THEN Append(segments, [by |-> "agent", said |-> text])
                     ELSE segments
  BY DEF OnResponseDone, server, tools
<1> DEFINE s == [by |-> "agent", said |-> text]
<1>2. FlightInv' /\ ~Open(n)' /\ \A r \in Responses : r # n => (Open(r)' <=> Open(r))
  <2>1. \A r : r # n => <<"done", n>> # <<"done", r>>
    OBVIOUS
  <2> QED
    BY <1>1, <2>1, ReceiveKeepsFlight DEF WordsInv
<1>3. text # <<>> => text[1] = n /\ \A j \in 1..Len(text) : text[j] = n
  BY <1>1, TextGoesOn DEF WordsInv, TextIsOldest, Parts
<1>4. inbox[1] = <<"done", n>> /\ 1 \in 1..Len(inbox) /\ Len(inbox) \in Nat
  BY <1>1, ReceiveShifts DEF TypeOK, ServerTypes
<1>5. n <= made /\ Open(n) /\ out[n].done
  BY <1>4 DEF WordsInv, FlightInv, PartsAreOpen, At, Parts
<1>6. Turns(n) = {}
  BY <1>5 DEF WordsInv, TurnIsWhole
<1>7. InFlight(n) = {}
  <2> SUFFICES ASSUME NEW i \in 1..Len(inbox), inbox[i] = <<"text", n>>
               PROVE  FALSE
    BY DEF InFlight, At
  <2>1. i # 1
    BY <1>4
  <2>2. 1 < i
    BY <2>1
  <2> QED
    BY <1>4, <2>2 DEF WordsInv, FlightInv, PartsInOrder, At, Parts
<1>8. /\ text \in Seq(Responses) /\ Len(text) \in Nat /\ DOMAIN text = 1..Len(text)
      /\ text # <<>> => Len(text) > 0 /\ 1 \in DOMAIN text
  BY DEF TypeOK, BridgeTypes
<1>9. TextIsOldest'
  BY <1>1 DEF TextIsOldest
<1>a. Cardinality(InFlight(n)) = 0 /\ NothingIsLost(n)
  BY <1>7, FS_EmptySet DEF WordsInv
<1>10. s \in Segments /\ s.by = "agent" /\ s.said = text
  BY <1>8 DEF Segments
<1> HIDE DEF s
<1>11. TurnIsWhole(n)' /\ NothingIsLost(n)'
  <2>1. CASE text = <<>>
    <3>1. Turns(n)' = {}
      BY <1>1, <1>6, <2>1 DEF Turns
    <3>2. ~out[n].call => out[n].text = 0
      BY <1>5, <1>a, <2>1 DEF NothingIsLost, Saved
    <3> QED
      BY <1>1, <1>2, <3>1, <3>2 DEF TurnIsWhole, NothingIsLost
  <2>2. CASE text # <<>>
    <3>1. segments' = Append(segments, s)
      BY <1>1, <2>2 DEF s
    <3>2. \E j \in DOMAIN s.said : s.said[j] = n
      BY <1>3, <1>8, <1>10, <2>2
    <3>3. Turns(n)' = {Len(segments) + 1} /\ segments'[Len(segments) + 1] = s
      BY <1>6, <1>10, <3>1, <3>2, TurnAdded
    <3>4. TurnIsWhole(n)'
      BY <1>2, <1>3, <1>8, <1>10, <2>2, <3>3 DEF TurnIsWhole
    <3>5. ~out[n].call => out[n].text = Len(text)
      BY <1>3, <1>5, <1>8, <1>a, <2>2 DEF NothingIsLost, Saved
    <3> QED
      BY <1>1, <1>2, <1>10, <3>3, <3>4, <3>5 DEF NothingIsLost
  <2> QED
    BY <2>1, <2>2
<1>12. ASSUME NEW r \in Responses, r # n
       PROVE  TurnIsWhole(r)' /\ NothingIsLost(r)'
  <2>1. TurnIsWhole(r) /\ NothingIsLost(r) /\ (Open(r)' <=> Open(r))
    BY <1>2, <1>12 DEF WordsInv
  <2>2. Turns(r)' = Turns(r) /\ \A i \in Turns(r) : segments'[i] = segments[i]
    <3>1. CASE text = <<>>
      BY <1>1, <3>1 DEF Turns
    <3>2. CASE text # <<>>
      <4>1. segments' = Append(segments, s)
        BY <1>1, <3>2 DEF s
      <4>2. ~\E j \in DOMAIN s.said : s.said[j] = r
        BY <1>3, <1>8, <1>10, <1>12, <3>2
      <4> QED
        BY <1>10, <4>1, <4>2, TurnAdded
    <3> QED
      BY <3>1, <3>2
  <2>3. Saved(r) = 0 /\ Saved(r)' = 0
    BY <1>1, <1>3, <1>12 DEF Saved
  <2>4. Cardinality(InFlight(r))' = Cardinality(InFlight(r))
    <3>1. <<"done", n>> # <<"text", r>>
      OBVIOUS
    <3> QED
      BY <1>1, <3>1, ReceiveCounts, FlightIsFinite
  <2> QED
    BY <1>1, <2>1, <2>2, <2>3, <2>4, WordsKept
<1> QED
  BY <1>2, <1>9, <1>11, <1>12 DEF WordsInv

(* What a function call forgets is the text of the response that made it.  *)
LEMMA ForgetKeepsWords ==
  ASSUME TypeOK, TypeOK', WordsInv, CallInv, ActOnResult
  PROVE  WordsInv'
<1>1. /\ text' = <<>> /\ calling # 0
      /\ UNCHANGED <<inbox, made, active, out, segments>>
  BY DEF ActOnResult, CallInv, server
<1>2. calling \in Responses /\ out[calling].call
  <2>1. calling \in Responses
    BY <1>1, LiveCallAssumption DEF TypeOK, BridgeTypes, Responses
  <2> QED
    BY <2>1 DEF CallInv, CallFollowsHandler
<1>3. \A n : (OnItsWay("done", n)' <=> OnItsWay("done", n)) /\ (Open(n)' <=> Open(n))
  BY <1>1 DEF Open, OnItsWay
<1>4. FlightInv'
  <2>1. ResponsesInOrder'
    BY <1>1 DEF WordsInv, FlightInv, ResponsesInOrder
  <2>2. PartsInOrder'
    BY <1>1 DEF WordsInv, FlightInv, PartsInOrder, At
  <2>3. PartsAreOpen'
    BY <1>1, <1>3 DEF WordsInv, FlightInv, PartsAreOpen, At
  <2> QED
    BY <2>1, <2>2, <2>3 DEF FlightInv
<1>5. ASSUME NEW n \in Responses
      PROVE  TurnIsWhole(n)' /\ NothingIsLost(n)'
  <2>1. TurnIsWhole(n) /\ NothingIsLost(n)
    BY DEF WordsInv
  <2>2. Turns(n)' = Turns(n) /\ InFlight(n)' = InFlight(n)
    BY <1>1 DEF Turns, InFlight, At
  <2>3. ~out[n].call => Saved(n) = 0 /\ Saved(n)' = 0
    <3>1. text # <<>> => text[1] = calling
      BY <1>1 DEF WordsInv, TextIsOldest
    <3> QED
      BY <1>1, <1>2, <3>1 DEF Saved
  <2> QED
    BY <1>1, <1>3, <2>1, <2>2, <2>3, WordsKept
<1> QED
  BY <1>1, <1>4, <1>5 DEF WordsInv, TextIsOldest

(* Every step keeps the transcript faithful.                               *)
LEMMA WordsInductive == TypeOK /\ TypeOK' /\ CallInv /\ WordsInv /\ [Next]_vars => WordsInv'
<1> SUFFICES ASSUME TypeOK, TypeOK', CallInv, WordsInv, [Next]_vars
             PROVE  WordsInv'
  OBVIOUS
<1> USE DEF server, tracker, tools, words, line, audio, bridge
<1> DEFINE Quiet == UNCHANGED <<inbox, out, text, segments>> /\ calling' \in {0, calling}
<1>a. active # 0 => active \in Responses
  BY ActiveTyped
<1>b. out \in [Responses -> Outputs]
  BY DEF TypeOK, ServerTypes
<1>c. segments' = segments =>
        \A r \in Responses : Turns(r)' = Turns(r) /\ \A i \in Turns(r) : segments'[i] = segments[i]
  BY DEF Turns
<1>d. ASSUME UNCHANGED <<made, active>>, Quiet
      PROVE  WordsInv'
  <2>1. ResponsesInOrder'
    BY <1>d DEF WordsInv, FlightInv, ResponsesInOrder
  <2>2. made' >= made
    BY <1>d, LiveCallAssumption DEF TypeOK, ServerTypes
  <2> QED
    BY <1>d, <2>1, <2>2, QuietKeepsWords
<1>1. CASE UNCHANGED vars
  BY <1>1, <1>d DEF vars
<1>2. CASE StartResponse
  <2>1. Quiet /\ made' = made + 1 /\ active' = made + 1 /\ active = 0
    BY <1>2 DEF StartResponse
  <2>2. made \in Nat
    BY LiveCallAssumption DEF TypeOK, ServerTypes
  <2>3. ResponsesInOrder'
    <3> SUFFICES ASSUME NEW n \in Responses
                 PROVE  /\ out[n].done <=> n <= made + 1 /\ n # made + 1
                        /\ n > made + 1 => out[n].text = 0 /\ ~out[n].call
      BY <2>1 DEF ResponsesInOrder
    <3>1. /\ out[n].done <=> n <= made /\ n # 0
          /\ n > made => out[n].text = 0 /\ ~out[n].call
      BY <2>1 DEF WordsInv, FlightInv, ResponsesInOrder
    <3>2. n \in Nat /\ n # 0
      BY LiveCallAssumption DEF Responses
    <3> QED
      BY <2>2, <3>1, <3>2
  <2> QED
    BY <2>1, <2>2, <2>3, QuietKeepsWords
<1>3. CASE AddItem
  <2>1. /\ Send("item", active) /\ UNCHANGED <<made, calling, text, segments>>
        /\ active' = active
    BY <1>3 DEF AddItem
  <2>2. \A r \in Responses :
          /\ out'[r].done <=> out[r].done
          /\ out'[r].text = out[r].text /\ out[r].text \in Nat
          /\ out'[r].call <=> out[r].call
    BY <1>3, <1>a, <1>b DEF AddItem, Generates, Outputs
  <2> QED
    BY <2>1, <2>2, SendKeepsWords DEF Parts
<1>4. CASE SendAudio
  <2>1. /\ Send("audio", active) /\ UNCHANGED <<made, calling, text, segments>>
        /\ active' = active
    BY <1>4 DEF SendAudio
  <2>2. \A r \in Responses :
          /\ out'[r].done <=> out[r].done
          /\ out'[r].text = out[r].text /\ out[r].text \in Nat
          /\ out'[r].call <=> out[r].call
    BY <1>4, <1>a, <1>b DEF SendAudio, Generates, Outputs
  <2> QED
    BY <2>1, <2>2, SendKeepsWords DEF Parts
<1>5. CASE SendText
  <2>1. /\ Send("text", active) /\ UNCHANGED <<made, calling, text, segments>>
        /\ active' = active
    BY <1>5 DEF SendText
  <2>2. \A r \in Responses :
          /\ out'[r].done <=> out[r].done
          /\ out'[r].text = out[r].text + (IF r = active THEN 1 ELSE 0) /\ out[r].text \in Nat
          /\ out'[r].call <=> out[r].call
    BY <1>5, <1>a, <1>b DEF SendText, Generates, Outputs
  <2>3. active # 0
    BY <1>5 DEF SendText, Generates
  <2> QED
    BY <2>1, <2>2, <2>3, SendKeepsWords
<1>6. CASE CallFunction
  <2>1. /\ Send("call", active) /\ UNCHANGED <<made, calling, text, segments>>
        /\ active' = active
    BY <1>6 DEF CallFunction
  <2>2. \A r \in Responses :
          /\ out'[r].done <=> out[r].done
          /\ out'[r].text = out[r].text /\ out[r].text \in Nat
          /\ out'[r].call <=> out[r].call \/ r = active
    BY <1>6, <1>a, <1>b DEF CallFunction, Generates, Outputs
  <2>3. active # 0
    BY <1>6 DEF CallFunction, Generates
  <2> QED
    BY <2>1, <2>2, <2>3, SendKeepsWords
<1>7. CASE EndResponse
  <2>1. /\ Send("done", active) /\ UNCHANGED <<made, calling, text, segments>>
        /\ active' = 0
    BY <1>7 DEF EndResponse
  <2>2. \A r \in Responses :
          /\ out'[r].done <=> out[r].done \/ r = active
          /\ out'[r].text = out[r].text /\ out[r].text \in Nat
          /\ out'[r].call <=> out[r].call
    BY <1>7, <1>a, <1>b DEF EndResponse, Outputs
  <2>3. active # 0
    BY <1>7 DEF EndResponse
  <2> QED
    BY <2>1, <2>2, <2>3, SendKeepsWords
<1>8. CASE Speak
  <2>1. /\ Send("speech", speeches + 1) /\ UNCHANGED <<made, calling, text, segments>>
        /\ active' = active
    BY <1>8 DEF Speak
  <2>2. \A r \in Responses :
          /\ out'[r].done <=> out[r].done
          /\ out'[r].text = out[r].text /\ out[r].text \in Nat
          /\ out'[r].call <=> out[r].call
    BY <1>8, <1>a, <1>b DEF Speak, Outputs
  <2> QED
    BY <2>1, <2>2, SendKeepsWords DEF Parts
<1>9. CASE Transcribe
  <2>1. /\ Send("user", heardOf + 1) /\ UNCHANGED <<made, calling, text, segments>>
        /\ active' = active
    BY <1>9 DEF Transcribe
  <2>2. \A r \in Responses :
          /\ out'[r].done <=> out[r].done
          /\ out'[r].text = out[r].text /\ out[r].text \in Nat
          /\ out'[r].call <=> out[r].call
    BY <1>9, <1>a, <1>b DEF Transcribe, Outputs
  <2> QED
    BY <2>1, <2>2, SendKeepsWords DEF Parts
<1>10. ASSUME NEW n \in Responses, OnAiAudio(n)
       PROVE  WordsInv'
  <2>1. /\ Receive("audio", n) /\ UNCHANGED <<made, active, out, text, segments>>
        /\ calling' = calling
    BY <1>10 DEF OnAiAudio
  <2> QED
    BY <1>c, <2>1, ReceiveKeepsWords
<1>11. ASSUME NEW n \in Responses, OnOutputItemAdded(n)
       PROVE  WordsInv'
  <2>1. /\ Receive("item", n) /\ UNCHANGED <<made, active, out, text, segments>>
        /\ calling' = calling
    BY <1>11 DEF OnOutputItemAdded
  <2> QED
    BY <1>c, <2>1, ReceiveKeepsWords
<1>12. ASSUME NEW n \in Responses, OnToolCall(n)
       PROVE  WordsInv'
  <2>1. /\ Receive("call", n) /\ UNCHANGED <<made, active, out, text, segments>>
        /\ calling' = n
    BY <1>12 DEF OnToolCall
  <2> QED
    BY <1>c, <2>1, ReceiveKeepsWords
<1>13. ASSUME NEW k \in Speeches, OnSpeechStarted(k)
       PROVE  WordsInv'
  <2>1. /\ Receive("speech", k) /\ UNCHANGED <<made, active, out, text, segments>>
        /\ calling' = calling
    BY <1>13 DEF OnSpeechStarted
  <2> QED
    BY <1>c, <2>1, ReceiveKeepsWords
<1>14. ASSUME NEW k \in Speeches, OnUserTranscript(k)
       PROVE  WordsInv'
  <2> DEFINE s == [by |-> "customer", said |-> <<k>>]
  <2>1. /\ Receive("user", k) /\ UNCHANGED <<made, active, out, text, calling>>
        /\ segments' = Append(segments, s)
    BY <1>14 DEF OnUserTranscript
  <2>2. s \in Segments /\ s.by # "agent"
    BY DEF Segments
  <2> HIDE DEF s
  <2>3. \A r \in Responses : Turns(r)' = Turns(r) /\ \A i \in Turns(r) : segments'[i] = segments[i]
    BY <2>1, <2>2, TurnAdded
  <2> QED
    BY <2>1, <2>3, ReceiveKeepsWords
<1>15. ASSUME NEW n \in Responses, OnAiTranscript(n)
       PROVE  WordsInv'
  <2>1. calling = 0
    BY <1>15 DEF OnAiTranscript, Receive, CallInv
  <2> QED
    BY <1>15, <2>1, TranscriptKeepsWords
<1>16. ASSUME NEW n \in Responses, OnResponseDone(n)
       PROVE  WordsInv'
  BY <1>16, DoneKeepsWords
<1>17. CASE ActOnResult
  BY <1>17, ForgetKeepsWords
<1>18. CASE CloseOpenAI
  BY <1>18, <1>d DEF CloseOpenAI
<1>19. CASE HangUp
  BY <1>19, <1>d DEF HangUp
<1>20. CASE Play
  BY <1>20, <1>d DEF Play
<1>21. CASE Truncate
  BY <1>21, <1>d DEF Truncate
<1>22. CASE ClearTwilio
  BY <1>22, <1>d DEF ClearTwilio
<1>23. CASE ExecuteTool
  BY <1>23, <1>d DEF ExecuteTool
<1>24. CASE SendToolResult
  BY <1>24, <1>d DEF SendToolResult, AbandonCall
<1>25. CASE RequestResponse
  BY <1>25, <1>d DEF RequestResponse, AbandonCall
<1>26. CASE ActFails
  BY <1>26, <1>d DEF ActFails, AbandonCall
<1>27. CASE OpenAILoopEnds
  BY <1>27, <1>d DEF OpenAILoopEnds
<1>28. CASE TwilioLoopEnds
  BY <1>28, <1>d DEF TwilioLoopEnds
<1> QED
  BY <1>1, <1>2, <1>3, <1>4, <1>5, <1>6, <1>7, <1>8, <1>9, <1>10, <1>11,
     <1>12, <1>13, <1>14, <1>15, <1>16, <1>17, <1>18, <1>19, <1>20, <1>21,
     <1>22, <1>23, <1>24, <1>25, <1>26, <1>27, <1>28
  DEF Next, Generate, Handle

(* Nothing is said before the loops start.                                 *)
LEMMA InitWords == Init => WordsInv
<1> SUFFICES ASSUME Init
             PROVE  WordsInv
  OBVIOUS
<1>1. /\ Len(inbox) = 0 /\ text = <<>> /\ made = 0 /\ active = 0 /\ DOMAIN segments = {}
      /\ \A n \in Responses : ~out[n].done /\ out[n].text = 0 /\ ~out[n].call
  BY DEF Init, Nothing
<1>2. FlightInv
  <2>1. \A n \in Responses : ~(n <= 0)
    BY LiveCallAssumption DEF Responses
  <2> QED
    BY <1>1, <2>1 DEF FlightInv, ResponsesInOrder, PartsInOrder, PartsAreOpen
<1>3. \A n \in Responses : Turns(n) = {} /\ InFlight(n) = {} /\ Saved(n) = 0
  BY <1>1 DEF Turns, InFlight, Saved
<1>4. ASSUME NEW n \in Responses
      PROVE  TurnIsWhole(n) /\ NothingIsLost(n)
  <2>1. Cardinality(InFlight(n)) = 0
    BY <1>3, FS_EmptySet
  <2> QED
    BY <1>1, <1>3, <2>1 DEF TurnIsWhole, NothingIsLost, Open
<1> QED
  BY <1>1, <1>2, <1>4 DEF WordsInv, TextIsOldest

(* An agent's turn is the text of one response, and every response that    *)
(* was received to its end without a function call has its whole text in   *)
(* one turn.                                                               *)
THEOREM TranscriptIsFaithful == Spec => []TranscriptFaithful
<1>1. Init => CallInv
  BY InitCalls
<1>2. Init => WordsInv
  BY InitWords
<1>3. WordsInv => TranscriptFaithful
  BY DEF WordsInv, TurnIsWhole, NothingIsLost, TranscriptFaithful, Open
<1> QED
  BY <1>1, <1>2, <1>3, TypeCorrect, CallsInductive, WordsInductive, PTL DEF Spec

-------------------------------------------------------------------------------
(* The transcript as a record of what was said *)

(* Speeches are noted in the order they were heard: those that are not are *)
(* on their way, the next one first.                                       *)
NotesInOrder ==
  /\ \A i, j \in 1..Len(inbox) : \A k, l \in Speeches :
       i < j /\ At(i, "user", k) /\ At(j, "user", l) => k < l
  /\ \A k, l \in Speeches : OnItsWay("user", k) /\ Record!Noted(l) => l < k
  /\ \A k \in Speeches : k <= heardOf <=> OnItsWay("user", k) \/ Record!Noted(k)

(* The bridge has no more text of a response than there is. *)
WordsBounded ==
  \A n \in Responses : Open(n) => Cardinality(InFlight(n)) + Saved(n) <= out[n].text

ClosedInOrder == \A m, n \in Responses : m < n /\ ~Open(n) => ~Open(m)

RecordInv == NotesInOrder /\ WordsBounded /\ ClosedInOrder

(***************************************************************************)
(* For the record a step is one of three: OpenAI sends an event, the       *)
(* bridge receives one, or neither, and the saved text may be forgotten.   *)
(***************************************************************************)
Sends(type, n) ==
  /\ Send(type, n)
  /\ type \in Parts => n = active /\ active # 0
  /\ type = "user" => n = heardOf + 1 /\ n \in Speeches
  /\ heardOf' = heardOf + (IF type = "user" THEN 1 ELSE 0)
  /\ \A r \in Responses :
       /\ out'[r].done <=> out[r].done \/ (type = "done" /\ r = n)
       /\ out'[r].text = out[r].text + (IF type = "text" /\ r = n THEN 1 ELSE 0)
       /\ out'[r].call <=> out[r].call \/ (type = "call" /\ r = n)
  /\ UNCHANGED <<text, segments>>

Receives(type, n) ==
  /\ Receive(type, n)
  /\ type \in Parts => n \in Responses
  /\ type = "user" => n \in Speeches
  /\ text' = CASE type = "text" -> Append(text, n) [] type = "done" -> <<>> [] OTHER -> text
  /\ segments' = CASE type = "user" -> Append(segments, [by |-> "customer", said |-> <<n>>])
                   [] type = "done" /\ text # <<>> ->
                        Append(segments, [by |-> "agent", said |-> text])
                   [] OTHER -> segments
  /\ UNCHANGED <<made, active, out, heardOf>>

Quiet ==
  /\ UNCHANGED <<inbox, heardOf, segments>>
  /\ text' \in {text, <<>>}
  /\ \A r \in Responses :
       /\ out'[r].done <=> out[r].done
       /\ out'[r].text = out[r].text
       /\ out'[r].call <=> out[r].call

(* There is no other step.                                                 *)
LEMMA StepOfThree ==
  ASSUME TypeOK, [Next]_vars
  PROVE  \/ \E type, n : Sends(type, n)
         \/ \E type, n : Receives(type, n)
         \/ Quiet
<1> USE DEF server, tracker, tools, words, line, audio, bridge
<1>a. active # 0 => active \in Responses
  BY ActiveTyped
<1>b. out \in [Responses -> Outputs] /\ \A r \in Responses : out[r].text \in Nat
  BY DEF TypeOK, ServerTypes, Outputs
<1>c. \A r \in Responses : out[r].text + 0 = out[r].text
  BY <1>b
<1>d. heardOf + 0 = heardOf
  BY LiveCallAssumption DEF TypeOK, ServerTypes
<1>q. ASSUME UNCHANGED <<inbox, heardOf, segments, out>>, text' \in {text, <<>>}
      PROVE  Quiet
  BY <1>q DEF Quiet
<1>1. CASE UNCHANGED vars
  BY <1>1, <1>q DEF vars
<1>2. CASE StartResponse
  BY <1>2, <1>q DEF StartResponse
<1>3. CASE AddItem
  <2>1. Sends("item", active)
    BY <1>3, <1>a, <1>b, <1>c, <1>d DEF AddItem, Sends, Parts, Outputs, Generates
  <2> QED
    BY <2>1
<1>4. CASE SendAudio
  <2>1. Sends("audio", active)
    BY <1>4, <1>a, <1>b, <1>c, <1>d DEF SendAudio, Sends, Parts, Outputs, Generates
  <2> QED
    BY <2>1
<1>5. CASE SendText
  <2>1. Sends("text", active)
    BY <1>5, <1>a, <1>b, <1>c, <1>d DEF SendText, Sends, Parts, Outputs, Generates
  <2> QED
    BY <2>1
<1>6. CASE CallFunction
  <2>1. Sends("call", active)
    BY <1>6, <1>a, <1>b, <1>c, <1>d DEF CallFunction, Sends, Parts, Outputs, Generates
  <2> QED
    BY <2>1
<1>7. CASE EndResponse
  <2>1. Sends("done", active)
    BY <1>7, <1>a, <1>b, <1>c, <1>d DEF EndResponse, Sends, Parts, Outputs
  <2> QED
    BY <2>1
<1>8. CASE Speak
  <2>1. Sends("speech", speeches + 1)
    BY <1>8, <1>c, <1>d DEF Speak, Sends, Parts
  <2> QED
    BY <2>1
<1>9. CASE Transcribe
  <2>1. heardOf + 1 \in Speeches
    BY <1>9, LiveCallAssumption DEF Transcribe, TypeOK, ServerTypes, Speeches
  <2>2. Sends("user", heardOf + 1)
    BY <1>9, <1>c, <2>1 DEF Transcribe, Sends, Parts
  <2> QED
    BY <2>2
<1>10. ASSUME NEW n \in Responses, OnAiAudio(n)
       PROVE  \E type, m : Receives(type, m)
  <2>1. Receives("audio", n)
    BY <1>10 DEF OnAiAudio, Receives, Parts
  <2> QED
    BY <2>1
<1>11. ASSUME NEW n \in Responses, OnOutputItemAdded(n)
       PROVE  \E type, m : Receives(type, m)
  <2>1. Receives("item", n)
    BY <1>11 DEF OnOutputItemAdded, Receives, Parts
  <2> QED
    BY <2>1
<1>12. ASSUME NEW n \in Responses, OnAiTranscript(n)
       PROVE  \E type, m : Receives(type, m)
  <2>1. Receives("text", n)
    BY <1>12 DEF OnAiTranscript, Receives, Parts
  <2> QED
    BY <2>1
<1>13. ASSUME NEW n \in Responses, OnResponseDone(n)
       PROVE  \E type, m : Receives(type, m)
  <2>1. Receives("done", n)
    BY <1>13 DEF OnResponseDone, Receives, Parts
  <2> QED
    BY <2>1
<1>14. ASSUME NEW n \in Responses, OnToolCall(n)
       PROVE  \E type, m : Receives(type, m)
  <2>1. Receives("call", n)
    BY <1>14 DEF OnToolCall, Receives, Parts
  <2> QED
    BY <2>1
<1>15. ASSUME NEW k \in Speeches, OnUserTranscript(k)
       PROVE  \E type, m : Receives(type, m)
  <2>1. Receives("user", k)
    BY <1>15 DEF OnUserTranscript, Receives, Parts
  <2> QED
    BY <2>1
<1>16. ASSUME NEW k \in Speeches, OnSpeechStarted(k)
       PROVE  \E type, m : Receives(type, m)
  <2>1. Receives("speech", k)
    BY <1>16 DEF OnSpeechStarted, Receives, Parts
  <2> QED
    BY <2>1
<1>17. CASE ActOnResult
  BY <1>17, <1>q DEF ActOnResult
<1>18. CASE CloseOpenAI \/ HangUp \/ Play \/ Truncate \/ ClearTwilio \/ ExecuteTool
  BY <1>18, <1>q DEF CloseOpenAI, HangUp, Play, Truncate, ClearTwilio, ExecuteTool
<1>19. CASE SendToolResult \/ RequestResponse \/ ActFails \/ OpenAILoopEnds \/ TwilioLoopEnds
  BY <1>19, <1>q DEF SendToolResult, RequestResponse, ActFails, OpenAILoopEnds, TwilioLoopEnds,
     AbandonCall
<1> QED
  BY <1>1, <1>2, <1>3, <1>4, <1>5, <1>6, <1>7, <1>8, <1>9, <1>10, <1>11,
     <1>12, <1>13, <1>14, <1>15, <1>16, <1>17, <1>18, <1>19
  DEF Next, Generate, Handle

(* What a turn added to the transcript says.                               *)
LEMMA TurnWritten ==
  ASSUME TypeOK, NEW s, segments' = Append(segments, s)
  PROVE  /\ \A k : Record!Noted(k)' <=> Record!Noted(k) \/ s = Record!CustomerTurn(k)
         /\ \A n : Record!Said(n)' <=>
              Record!Said(n) \/ (s.by = "agent" /\ \E j \in DOMAIN s.said : s.said[j] = n)
<1>1. /\ Len(segments) \in Nat /\ DOMAIN segments = 1..Len(segments)
      /\ DOMAIN segments' = 1..(Len(segments) + 1)
      /\ segments'[Len(segments) + 1] = s
      /\ \A i \in 1..Len(segments) : segments'[i] = segments[i]
  BY DEF TypeOK, BridgeTypes
<1>2. \A i \in 1..(Len(segments) + 1) : i = Len(segments) + 1 \/ i \in 1..Len(segments)
  BY <1>1
<1>3. \A i \in 1..Len(segments) : i \in 1..(Len(segments) + 1)
  BY <1>1
<1>4. Len(segments) + 1 \in 1..(Len(segments) + 1)
  BY <1>1
<1>5. \A k : Record!Noted(k)' <=> Record!Noted(k) \/ s = Record!CustomerTurn(k)
  BY <1>1, <1>2, <1>3, <1>4 DEF Record!Noted, Record!CustomerTurn
<1>6. \A n : Record!Said(n)' <=>
        Record!Said(n) \/ (s.by = "agent" /\ \E j \in DOMAIN s.said : s.said[j] = n)
  BY <1>1, <1>2, <1>3, <1>4 DEF Record!Said
<1> QED
  BY <1>5, <1>6

(* A response that was said is one that has turns.                         *)
LEMMA SaidHasTurn == \A n : Record!Said(n) <=> Turns(n) # {}
BY DEF Record!Said, Turns

(* A response stays open until the bridge receives its end.                *)
LEMMA SendKeepsOpen ==
  ASSUME TypeOK, WordsInv, NEW type, NEW n, Sends(type, n), NEW r \in Responses
  PROVE  Open(r)' <=> Open(r)
<1>1. OnItsWay("done", r)' <=> OnItsWay("done", r) \/ <<"done", r>> = <<type, n>>
  BY SendAdds DEF Sends
<1>2. out'[r].done <=> out[r].done \/ (type = "done" /\ r = n)
  BY DEF Sends
<1>3. type = "done" /\ r = n => ~out[r].done
  BY DEF Sends, Parts, WordsInv, FlightInv, ResponsesInOrder
<1> QED
  BY <1>1, <1>2, <1>3 DEF Open

(* What OpenAI sends keeps the record in order.                            *)
LEMMA SendKeepsRecord ==
  ASSUME TypeOK, TypeOK', WordsInv, RecordInv, NEW type, NEW n, Sends(type, n)
  PROVE  RecordInv'
<1>1. /\ Len(inbox) \in Nat /\ Len(inbox') = Len(inbox) + 1
      /\ inbox'[Len(inbox')] = <<type, n>>
      /\ \A i \in 1..Len(inbox) : inbox'[i] = inbox[i]
  BY SendAppends DEF TypeOK, ServerTypes, Sends
<1>2. \A i \in 1..Len(inbox') : i = Len(inbox') \/ (i \in 1..Len(inbox) /\ i < Len(inbox'))
  BY <1>1
<1>3. heardOf \in Nat /\ \A k \in Speeches : k \in Nat
  BY LiveCallAssumption DEF TypeOK, ServerTypes, Speeches
<1>5. \A k : Record!Noted(k)' <=> Record!Noted(k)
  BY DEF Sends, Record!Noted
<1>6. \A k : OnItsWay("user", k)' <=> OnItsWay("user", k) \/ <<"user", k>> = <<type, n>>
  BY SendAdds DEF Sends
<1>7. DOMAIN inbox = 1..Len(inbox)
  BY DEF TypeOK, ServerTypes
<1>8. NotesInOrder'
  <2>1. ASSUME NEW i \in 1..Len(inbox'), NEW j \in 1..Len(inbox'),
               NEW k \in Speeches, NEW l \in Speeches,
               i < j, inbox'[i] = <<"user", k>>, inbox'[j] = <<"user", l>>
        PROVE  k < l
    <3>1. i \in 1..Len(inbox) /\ inbox[i] = <<"user", k>>
      BY <1>1, <1>2, <2>1
    <3>2. CASE j \in 1..Len(inbox)
      BY <1>1, <2>1, <3>1, <3>2 DEF RecordInv, NotesInOrder, At
    <3>3. CASE j = Len(inbox')
      <4>1. type = "user" /\ n = l
        BY <1>1, <2>1, <3>3
      <4>2. l = heardOf + 1
        BY <4>1 DEF Sends
      <4>3. OnItsWay("user", k)
        BY <1>7, <3>1 DEF OnItsWay
      <4>4. k <= heardOf
        BY <4>3 DEF RecordInv, NotesInOrder
      <4> QED
        BY <1>3, <4>2, <4>4
    <3> QED
      BY <1>2, <3>2, <3>3
  <2>2. ASSUME NEW k \in Speeches, NEW l \in Speeches, OnItsWay("user", k)', Record!Noted(l)'
        PROVE  l < k
    <3>1. l <= heardOf
      BY <1>5, <2>2 DEF RecordInv, NotesInOrder
    <3>2. CASE OnItsWay("user", k)
      BY <1>5, <2>2, <3>2 DEF RecordInv, NotesInOrder
    <3>3. CASE <<"user", k>> = <<type, n>>
      <4>1. k = heardOf + 1
        BY <3>3 DEF Sends
      <4> QED
        BY <1>3, <3>1, <4>1
    <3> QED
      BY <1>6, <2>2, <3>2, <3>3
  <2>3. ASSUME NEW k \in Speeches
        PROVE  k <= heardOf' <=> OnItsWay("user", k)' \/ Record!Noted(k)'
    <3>1. k <= heardOf <=> OnItsWay("user", k) \/ Record!Noted(k)
      BY DEF RecordInv, NotesInOrder
    <3>2. CASE type = "user"
      <4>1. n = heardOf + 1 /\ heardOf' = heardOf + 1
        BY <3>2 DEF Sends
      <4>2. k <= heardOf' <=> k <= heardOf \/ k = n
        BY <1>3, <4>1
      <4> QED
        BY <1>5, <1>6, <3>1, <3>2, <4>2
    <3>3. CASE type # "user"
      <4>1. heardOf' = heardOf
        BY <1>3, <3>3 DEF Sends
      <4> QED
        BY <1>5, <1>6, <3>1, <3>3, <4>1
    <3> QED
      BY <3>2, <3>3
  <2> QED
    BY <2>1, <2>2, <2>3 DEF NotesInOrder, At
<1>9. WordsBounded'
  <2> SUFFICES ASSUME NEW r \in Responses, Open(r)'
               PROVE  Cardinality(InFlight(r))' + Saved(r)' <= out'[r].text
    BY DEF WordsBounded
  <2>1. Cardinality(InFlight(r)) + Saved(r) <= out[r].text
    BY SendKeepsOpen DEF RecordInv, WordsBounded
  <2>2. out'[r].text = out[r].text + (IF <<type, n>> = <<"text", r>> THEN 1 ELSE 0)
    BY DEF Sends
  <2>3. /\ Cardinality(InFlight(r))' =
             Cardinality(InFlight(r)) + (IF <<type, n>> = <<"text", r>> THEN 1 ELSE 0)
        /\ Cardinality(InFlight(r)) \in Nat
    BY SendCounts, FlightIsFinite DEF Sends
  <2>4. Saved(r)' = Saved(r) /\ Saved(r) \in Nat
    BY DEF Sends, Saved, TypeOK, BridgeTypes
  <2>5. out[r].text \in Nat
    BY DEF TypeOK, ServerTypes, Outputs
  <2> QED
    BY <2>1, <2>2, <2>3, <2>4, <2>5
<1>10. ClosedInOrder'
  BY SendKeepsOpen DEF RecordInv, ClosedInOrder
<1> QED
  BY <1>8, <1>9, <1>10 DEF RecordInv

(* When part of a response is received, those before it have ended.        *)
LEMMA EarlierAreClosed ==
  ASSUME TypeOK, FlightInv, NEW type \in Parts, NEW n \in Responses, Receive(type, n),
         NEW m \in Responses, m < n
  PROVE  ~Open(m)
<1>1. Len(inbox) \in Nat /\ inbox[1] = <<type, n>> /\ 1 \in 1..Len(inbox)
      /\ DOMAIN inbox = 1..Len(inbox)
  BY ReceiveShifts DEF TypeOK, ServerTypes
<1>2. n <= made
  BY <1>1 DEF FlightInv, PartsAreOpen, At
<1>3. m \in Nat /\ n \in Nat /\ made \in Nat
  BY LiveCallAssumption DEF TypeOK, ServerTypes, Responses
<1>4. out[m].done
  BY <1>2, <1>3, LiveCallAssumption DEF FlightInv, ResponsesInOrder, Responses
<1>5. ASSUME NEW i \in 1..Len(inbox), inbox[i] = <<"done", m>>
      PROVE  FALSE
  <2>1. 1 < i
    BY <1>1, <1>3, <1>5
  <2>2. n <= m
    BY <1>1, <1>5, <2>1 DEF FlightInv, PartsInOrder, At, Parts
  <2> QED
    BY <1>3, <2>2
<1> QED
  BY <1>1, <1>4, <1>5 DEF Open, OnItsWay

(* The speech noted next is the next one heard.                            *)
LEMMA EarlierAreNoted ==
  ASSUME TypeOK, NotesInOrder, NEW k \in Speeches, Receive("user", k)
  PROVE  /\ k <= heardOf /\ ~Record!Noted(k)
         /\ \A l \in Speeches : (l < k => Record!Noted(l)) /\ (l > k => ~Record!Noted(l))
<1>1. Len(inbox) \in Nat /\ inbox[1] = <<"user", k>> /\ 1 \in 1..Len(inbox)
      /\ DOMAIN inbox = 1..Len(inbox)
  BY ReceiveShifts DEF TypeOK, ServerTypes
<1>2. heardOf \in Nat /\ \A l \in Speeches : l \in Nat
  BY LiveCallAssumption DEF TypeOK, ServerTypes, Speeches
<1>3. k <= heardOf /\ \A l \in Speeches : Record!Noted(l) => l < k
  BY <1>1 DEF OnItsWay, NotesInOrder
<1>4. ASSUME NEW l \in Speeches, l < k
      PROVE  Record!Noted(l)
  <2>1. l <= heardOf
    BY <1>2, <1>3, <1>4
  <2>2. ASSUME NEW i \in 1..Len(inbox), inbox[i] = <<"user", l>>
        PROVE  FALSE
    <3>1. 1 < i
      BY <1>1, <1>2, <1>4, <2>2
    <3>2. k < l
      BY <1>1, <2>2, <3>1 DEF NotesInOrder, At
    <3> QED
      BY <1>2, <1>4, <3>2
  <2> QED
    BY <1>1, <2>1, <2>2 DEF OnItsWay, NotesInOrder
<1> QED
  BY <1>2, <1>3, <1>4

(* So does what the bridge receives; *)
LEMMA ReceiveKeepsRecord ==
  ASSUME TypeOK, TypeOK', WordsInv, RecordInv, NEW type, NEW n, Receives(type, n)
  PROVE  RecordInv'
<1>1. /\ Len(inbox) \in Nat /\ Len(inbox) > 0 /\ inbox[1] = <<type, n>>
      /\ Len(inbox') = Len(inbox) - 1
      /\ \A i \in 1..Len(inbox') : inbox'[i] = inbox[i + 1]
      /\ DOMAIN inbox = 1..Len(inbox) /\ DOMAIN inbox' = 1..Len(inbox')
  BY ReceiveShifts DEF TypeOK, ServerTypes, Receives
<1>2. \A i \in 1..Len(inbox') : i + 1 \in 1..Len(inbox) /\ 1 < i + 1
  BY <1>1
<1>3. 1 \in 1..Len(inbox)
  BY <1>1
<1>4. heardOf' = heardOf /\ \A k \in Speeches : k \in Nat
  BY LiveCallAssumption DEF Receives, Speeches
<1>5. \A k : OnItsWay("user", k)' => OnItsWay("user", k)
  BY <1>1, <1>2 DEF OnItsWay
<1>6. \A k : <<"user", k>> # <<type, n>> => (OnItsWay("user", k)' <=> OnItsWay("user", k))
  BY ReceiveTakes DEF Receives
<1>7. \A k : Record!Noted(k)' <=> Record!Noted(k) \/ <<"user", k>> = <<type, n>>
  <2>1. CASE type = "user"
    <3> DEFINE s == [by |-> "customer", said |-> <<n>>]
    <3>1. segments' = Append(segments, s)
      BY <2>1 DEF Receives
    <3>2. \A k : s = Record!CustomerTurn(k) <=> k = n
      BY DEF Record!CustomerTurn
    <3> HIDE DEF s
    <3> QED
      BY <2>1, <3>1, <3>2, TurnWritten
  <2>2. CASE type = "done" /\ text # <<>>
    <3> DEFINE s == [by |-> "agent", said |-> text]
    <3>1. segments' = Append(segments, s)
      BY <2>2 DEF Receives
    <3>2. \A k : s # Record!CustomerTurn(k)
      BY DEF Record!CustomerTurn
    <3> HIDE DEF s
    <3> QED
      BY <2>2, <3>1, <3>2, TurnWritten
  <2>3. CASE type # "user" /\ ~(type = "done" /\ text # <<>>)
    <3>1. segments' = segments
      BY <2>3 DEF Receives
    <3> QED
      BY <2>3, <3>1 DEF Record!Noted
  <2> QED
    BY <2>1, <2>2, <2>3
<1>8. NotesInOrder'
  <2>1. ASSUME NEW i \in 1..Len(inbox'), NEW j \in 1..Len(inbox'),
               NEW k \in Speeches, NEW l \in Speeches,
               i < j, inbox'[i] = <<"user", k>>, inbox'[j] = <<"user", l>>
        PROVE  k < l
    <3>1. i + 1 \in 1..Len(inbox) /\ j + 1 \in 1..Len(inbox) /\ i + 1 < j + 1
      BY <1>2, <2>1
    <3>2. inbox[i + 1] = <<"user", k>> /\ inbox[j + 1] = <<"user", l>>
      BY <1>1, <2>1
    <3> QED
      BY <3>1, <3>2 DEF RecordInv, NotesInOrder, At
  <2>2. ASSUME NEW k \in Speeches, NEW l \in Speeches, OnItsWay("user", k)', Record!Noted(l)'
        PROVE  l < k
    <3>1. CASE Record!Noted(l)
      BY <1>5, <2>2, <3>1 DEF RecordInv, NotesInOrder
    <3>2. CASE <<"user", l>> = <<type, n>>
      <4>1. PICK i \in 1..Len(inbox') : inbox'[i] = <<"user", k>>
        BY <1>1, <2>2 DEF OnItsWay
      <4>2. i + 1 \in 1..Len(inbox) /\ 1 < i + 1 /\ inbox[i + 1] = <<"user", k>>
        BY <1>1, <1>2, <4>1
      <4> QED
        BY <1>1, <1>3, <3>2, <4>2 DEF RecordInv, NotesInOrder, At
    <3> QED
      BY <1>7, <2>2, <3>1, <3>2
  <2>3. ASSUME NEW k \in Speeches
        PROVE  k <= heardOf <=> OnItsWay("user", k)' \/ Record!Noted(k)'
    <3>1. k <= heardOf <=> OnItsWay("user", k) \/ Record!Noted(k)
      BY DEF RecordInv, NotesInOrder
    <3>2. <<"user", k>> = <<type, n>> => OnItsWay("user", k)
      BY <1>1, <1>3 DEF OnItsWay
    <3> QED
      BY <1>5, <1>6, <1>7, <3>1, <3>2
  <2> QED
    BY <1>4, <2>1, <2>2, <2>3 DEF NotesInOrder, At
<1>9. \A r \in Responses : Open(r)' => Open(r)
  <2>1. \A r \in Responses : OnItsWay("done", r)' => OnItsWay("done", r)
    BY <1>1, <1>2 DEF OnItsWay
  <2> QED
    BY <2>1 DEF Open, Receives
<1>10. \A r \in Responses : <<type, n>> # <<"done", r>> => (Open(r)' <=> Open(r))
  <2>1. \A r \in Responses : <<type, n>> # <<"done", r>> =>
          (OnItsWay("done", r)' <=> OnItsWay("done", r))
    BY ReceiveTakes DEF Receives
  <2> QED
    BY <2>1 DEF Open, Receives
<1>11. WordsBounded'
  <2> SUFFICES ASSUME NEW r \in Responses, Open(r)'
               PROVE  Cardinality(InFlight(r))' + Saved(r)' <= out[r].text
    BY DEF WordsBounded, Receives
  <2>1. Cardinality(InFlight(r)) + Saved(r) <= out[r].text
    BY <1>9 DEF RecordInv, WordsBounded
  <2>2. /\ Cardinality(InFlight(r))' =
             Cardinality(InFlight(r)) - (IF <<type, n>> = <<"text", r>> THEN 1 ELSE 0)
        /\ Cardinality(InFlight(r)) \in Nat
    BY ReceiveCounts, FlightIsFinite DEF Receives
  <2>3. /\ text \in Seq(Responses) /\ Len(text) \in Nat /\ (text = <<>> => Len(text) = 0)
        /\ Saved(r) \in Nat /\ out[r].text \in Nat
    <3>1. text \in Seq(Responses) /\ Len(text) \in Nat /\ (text = <<>> => Len(text) = 0)
      BY DEF TypeOK, BridgeTypes
    <3>2. out[r].text \in Nat
      BY DEF TypeOK, ServerTypes, Outputs
    <3> QED
      BY <3>1, <3>2 DEF Saved
  <2>4. Saved(r)' <= Saved(r) + (IF <<type, n>> = <<"text", r>> THEN 1 ELSE 0) /\ Saved(r)' \in Nat
    <3>1. CASE type = "text"
      <4>1. n \in Responses /\ text' = Append(text, n)
        BY <3>1 DEF Receives, Parts
      <4>2. text # <<>> => text[1] = n
        BY <3>1, <4>1, TextGoesOn DEF Receives, Parts, WordsInv
      <4>3. Len(text') = Len(text) + 1 /\ text'[1] = n
        BY <2>3, <4>1, <4>2
      <4>4. text' # <<>>
        BY <2>3, <4>1
      <4>5. CASE r = n
        <5>1. Saved(r)' = Len(text) + 1
          BY <4>3, <4>4, <4>5 DEF Saved
        <5>2. Saved(r) = Len(text)
          BY <2>3, <4>2, <4>5 DEF Saved
        <5> QED
          BY <2>3, <3>1, <4>5, <5>1, <5>2
      <4>6. CASE r # n
        <5>1. Saved(r)' = 0
          BY <4>3, <4>6 DEF Saved
        <5> QED
          BY <2>3, <4>6, <5>1
      <4> QED
        BY <4>5, <4>6
    <3>2. CASE type = "done"
      BY <2>3, <3>2 DEF Receives, Saved
    <3>3. CASE type \notin {"text", "done"}
      <4>1. text' = text
        BY <3>3 DEF Receives
      <4>2. Saved(r)' = Saved(r)
        BY <4>1 DEF Saved
      <4> QED
        BY <2>3, <3>3, <4>2
    <3> QED
      BY <3>1, <3>2, <3>3
  <2> QED
    BY <2>1, <2>2, <2>3, <2>4
<1>12. ClosedInOrder'
  <2> SUFFICES ASSUME NEW m \in Responses, NEW r \in Responses, m < r, ~Open(r)'
               PROVE  ~Open(m)'
    BY DEF ClosedInOrder
  <2>1. CASE <<type, n>> = <<"done", r>>
    <3>1. ~Open(m)
      BY <2>1, EarlierAreClosed DEF Receives, Parts, WordsInv
    <3> QED
      BY <1>9, <3>1
  <2>2. CASE <<type, n>> # <<"done", r>>
    BY <1>9, <1>10, <2>2 DEF RecordInv, ClosedInOrder
  <2> QED
    BY <2>1, <2>2
<1> QED
  BY <1>8, <1>11, <1>12 DEF RecordInv

(* and a step that is neither. *)
LEMMA QuietKeepsRecord ==
  ASSUME TypeOK, RecordInv, Quiet
  PROVE  RecordInv'
<1>1. \A k : (OnItsWay("user", k)' <=> OnItsWay("user", k)) /\ (Record!Noted(k)' <=> Record!Noted(k))
  BY DEF Quiet, OnItsWay, Record!Noted
<1>2. \A r \in Responses : Open(r)' <=> Open(r)
  BY DEF Quiet, Open, OnItsWay
<1>3. \A r \in Responses : InFlight(r)' = InFlight(r) /\ Saved(r)' <= Saved(r)
                           /\ Saved(r) \in Nat /\ Saved(r)' \in Nat
  <2>1. Len(text) \in Nat
    BY DEF TypeOK, BridgeTypes
  <2> QED
    BY <2>1 DEF Quiet, InFlight, At, Saved
<1>4. NotesInOrder'
  BY <1>1 DEF RecordInv, NotesInOrder, Quiet, At
<1>5. WordsBounded'
  <2> SUFFICES ASSUME NEW r \in Responses, Open(r)'
               PROVE  Cardinality(InFlight(r))' + Saved(r)' <= out'[r].text
    BY DEF WordsBounded
  <2>1. /\ Cardinality(InFlight(r)) + Saved(r) <= out[r].text
        /\ Cardinality(InFlight(r)) \in Nat /\ out[r].text \in Nat
    BY <1>2, WordsAreCounted DEF RecordInv, WordsBounded
  <2>2. Cardinality(InFlight(r))' = Cardinality(InFlight(r)) /\ out'[r].text = out[r].text
    BY <1>3 DEF Quiet
  <2> QED
    BY <1>3, <2>1, <2>2
<1>6. ClosedInOrder'
  BY <1>2 DEF RecordInv, ClosedInOrder
<1> QED
  BY <1>4, <1>5, <1>6 DEF RecordInv

(* What OpenAI sends is said, called, ended or heard, or is not a word.    *)
LEMMA SendIsTranscriptStep ==
  ASSUME TypeOK, WordsInv, NEW type, NEW n, Sends(type, n)
  PROVE  [Record!TranscriptNext]_(Record!transcriptVars)
<1> DEFINE Spoken == [r \in Responses |-> out[r].text]
<1> DEFINE Ended  == {r \in Responses : out[r].done}
<1> DEFINE Called == {r \in Responses : out[r].call}
<1>1. /\ segments' = segments
      /\ type # "user" => heardOf' = heardOf
      /\ \A r \in Responses : out[r].text \in Nat
      /\ heardOf \in Nat
  BY LiveCallAssumption DEF Sends, TypeOK, ServerTypes, Outputs
<1>2. type \in Parts => n \in Responses /\ n \notin Ended /\ \A m \in Responses : m < n => m \in Ended
  <2> SUFFICES ASSUME type \in Parts
               PROVE  n \in Responses /\ n \notin Ended /\ \A m \in Responses : m < n => m \in Ended
    OBVIOUS
  <2>1. n = active /\ n \in Responses /\ n = made
    BY ActiveTyped DEF Sends, WordsInv, FlightInv, ResponsesInOrder
  <2>2. \A m \in Responses : m \in Nat /\ m # 0
    BY LiveCallAssumption DEF Responses
  <2>3. \A m \in Responses : out[m].done <=> m <= made /\ m # active
    BY DEF WordsInv, FlightInv, ResponsesInOrder
  <2> QED
    BY <2>1, <2>2, <2>3
<1>3. type # "text" => Spoken' = Spoken
  BY <1>1 DEF Sends
<1>4. type # "done" => Ended' = Ended
  BY DEF Sends
<1>5. type # "call" => Called' = Called
  BY DEF Sends
<1>6. CASE type = "text"
  <2>1. Spoken' = [Spoken EXCEPT ![n] = @ + 1]
    <3>1. n \in Responses /\ \A r \in Responses :
            out'[r].text = out[r].text + (IF r = n THEN 1 ELSE 0)
      BY <1>2, <1>6 DEF Sends, Parts
    <3>2. \A r \in Responses : out'[r].text = IF r = n THEN out[r].text + 1 ELSE out[r].text
      BY <1>1, <3>1
    <3> QED
      BY <3>1, <3>2
  <2>2. Record!SayWord(n)
    BY <1>1, <1>2, <1>4, <1>5, <1>6, <2>1 DEF Record!SayWord, Record!Current, Parts
  <2> QED
    BY <1>2, <1>6, <2>2 DEF Record!TranscriptNext, Parts
<1>7. CASE type = "call"
  <2>1. Called' = Called \cup {n}
    BY <1>2, <1>7 DEF Sends, Parts
  <2>2. Record!CallTool(n)
    BY <1>1, <1>2, <1>3, <1>4, <1>7, <2>1 DEF Record!CallTool, Record!Current, Parts
  <2> QED
    BY <1>2, <1>7, <2>2 DEF Record!TranscriptNext, Parts
<1>8. CASE type = "done"
  <2>1. Ended' = Ended \cup {n}
    BY <1>2, <1>8 DEF Sends, Parts
  <2>2. Record!EndSpeaking(n)
    BY <1>1, <1>2, <1>3, <1>5, <1>8, <2>1 DEF Record!EndSpeaking, Record!Current, Parts
  <2> QED
    BY <1>2, <1>8, <2>2 DEF Record!TranscriptNext, Parts
<1>9. CASE type = "user"
  <2>1. heardOf + 1 \in Speeches /\ heardOf' = heardOf + 1
    BY <1>9 DEF Sends
  <2>2. Record!HearSpeech
    BY <1>1, <1>3, <1>4, <1>5, <1>9, <2>1 DEF Record!HearSpeech
  <2> QED
    BY <2>2 DEF Record!TranscriptNext
<1>10. CASE type \notin {"text", "call", "done", "user"}
  BY <1>1, <1>3, <1>4, <1>5, <1>10 DEF Record!transcriptVars
<1> QED
  BY <1>6, <1>7, <1>8, <1>9, <1>10

(* What the bridge receives writes the next turn, or none.                 *)
LEMMA ReceiveIsTranscriptStep ==
  ASSUME TypeOK, WordsInv, RecordInv, NEW type, NEW n, Receives(type, n)
  PROVE  [Record!TranscriptNext]_(Record!transcriptVars)
<1>1. Receive(type, n) /\ UNCHANGED <<out, heardOf>>
  BY DEF Receives
<1>2. CASE type = "user"
  <2>1. n \in Speeches /\ segments' = Append(segments, Record!CustomerTurn(n))
    BY <1>2 DEF Receives, Record!CustomerTurn
  <2>2. Record!WriteCustomer(n)
    BY <1>1, <1>2, <2>1, EarlierAreNoted DEF RecordInv, Record!WriteCustomer
  <2> QED
    BY <2>1, <2>2 DEF Record!TranscriptNext
<1>3. CASE type = "done" /\ text # <<>>
  <2>1. /\ type \in Parts /\ n \in Responses
        /\ segments' = Append(segments, [by |-> "agent", said |-> text])
    BY <1>3 DEF Receives, Parts
  <2>2. text[1] = n /\ \A j \in 1..Len(text) : text[j] = n
    BY <1>1, <1>3, <2>1, TextGoesOn DEF WordsInv, TextIsOldest
  <2>3. inbox[1] = <<"done", n>> /\ 1 \in 1..Len(inbox) /\ Len(inbox) \in Nat
    BY <1>1, <1>3, ReceiveShifts DEF TypeOK, ServerTypes
  <2>4. n <= made /\ Open(n) /\ out[n].done
    BY <2>1, <2>3 DEF WordsInv, FlightInv, PartsAreOpen, At, Parts
  <2>5. ~Record!Said(n)
    BY <2>1, <2>4, SaidHasTurn DEF WordsInv, TurnIsWhole
  <2>6. ASSUME NEW m \in Responses, m < n
        PROVE  Record!Settled(m)
    <3>1. ~Open(m)
      BY <1>1, <2>1, <2>6, EarlierAreClosed DEF WordsInv
    <3>2. out[m].call \/ out[m].text = 0 \/ Turns(m) # {}
      <4>1. NothingIsLost(m) /\ out[m].text \in Nat
        BY DEF WordsInv, TypeOK, ServerTypes, Outputs
      <4> QED
        BY <3>1, <4>1 DEF NothingIsLost
    <3> QED
      BY <3>1, <3>2, SaidHasTurn DEF Open, Record!Settled
  <2>7. ASSUME NEW m \in Responses, m > n
        PROVE  ~Record!Said(m)
    <3>1. n < m
      BY <2>1, <2>7, LiveCallAssumption DEF Responses
    <3>2. Open(m)
      BY <2>1, <2>4, <3>1 DEF RecordInv, ClosedInOrder
    <3> QED
      BY <3>2, SaidHasTurn DEF WordsInv, TurnIsWhole
  <2>8. InFlight(n) = {}
    <3> SUFFICES ASSUME NEW i \in 1..Len(inbox), inbox[i] = <<"text", n>>
                 PROVE  FALSE
      BY DEF InFlight, At
    <3>1. 1 < i
      BY <2>3
    <3> QED
      BY <2>1, <2>3, <3>1 DEF WordsInv, FlightInv, PartsInOrder, At, Parts
  <2>9. text \in Seq(Responses) /\ Len(text) \in Nat /\ Len(text) > 0 /\ out[n].text \in Nat
    <3>1. text \in Seq(Responses)
      BY DEF TypeOK, BridgeTypes
    <3>2. out[n].text \in Nat
      BY <2>1 DEF TypeOK, ServerTypes, Outputs
    <3> QED
      BY <1>3, <3>1, <3>2
  <2>10. Len(text) \in 1..out[n].text /\ (~out[n].call => Len(text) = out[n].text)
    <3>1. Cardinality(InFlight(n)) = 0 /\ Saved(n) = Len(text)
      BY <1>3, <2>2, <2>8, FS_EmptySet DEF Saved
    <3>2. Cardinality(InFlight(n)) + Saved(n) <= out[n].text
      BY <2>1, <2>4 DEF RecordInv, WordsBounded
    <3>3. ~out[n].call => out[n].text = Cardinality(InFlight(n)) + Saved(n)
      BY <2>1, <2>4 DEF WordsInv, NothingIsLost
    <3> QED
      BY <2>9, <3>1, <3>2, <3>3
  <2>11. text = [j \in 1..Len(text) |-> n]
    BY <2>2, <2>9
  <2>12. segments' = Append(segments, Record!AgentTurn(n, Len(text)))
    BY <2>1, <2>11 DEF Record!AgentTurn
  <2>13. Record!WriteAgent(n)
    BY <1>1, <2>1, <2>4, <2>5, <2>6, <2>7, <2>10, <2>12 DEF Record!WriteAgent
  <2> QED
    BY <2>1, <2>13 DEF Record!TranscriptNext
<1>4. CASE type # "user" /\ ~(type = "done" /\ text # <<>>)
  <2>1. segments' = segments
    BY <1>4 DEF Receives
  <2> QED
    BY <1>1, <2>1 DEF Record!transcriptVars
<1> QED
  BY <1>2, <1>3, <1>4

(* The bridge writes a transcript as Transcript describes: whatever is in  *)
(* flight, interrupted or failing, turns are added at the end, in the      *)
(* order the responses were made and the speeches heard, one each, no      *)
(* response shortened but one that called a function.                      *)
THEOREM BridgeWritesTranscript == Spec => RecordSpecHolds
<1>1. Init => RecordInv /\ Record!TranscriptInit
  <2> SUFFICES ASSUME Init
               PROVE  RecordInv /\ Record!TranscriptInit
    OBVIOUS
  <2>1. /\ Len(inbox) = 0 /\ DOMAIN inbox = {} /\ text = <<>> /\ DOMAIN segments = {}
        /\ segments = <<>> /\ heardOf = 0
        /\ \A n \in Responses : ~out[n].done /\ out[n].text = 0 /\ ~out[n].call
    BY DEF Init, Nothing
  <2>2. \A k \in Speeches : k \in Nat /\ k > 0
    BY LiveCallAssumption DEF Speeches
  <2>3. NotesInOrder
    BY <2>1, <2>2 DEF NotesInOrder, OnItsWay, Record!Noted
  <2>4. WordsBounded
    <3>1. \A n \in Responses : InFlight(n) = {} /\ Saved(n) = 0 /\ 0 <= out[n].text
      BY <2>1 DEF InFlight, Saved
    <3>2. Cardinality({}) = 0
      BY FS_EmptySet
    <3>3. \A n \in Responses : Cardinality(InFlight(n)) + Saved(n) <= out[n].text
      BY <3>1, <3>2
    <3> QED
      BY <3>3 DEF WordsBounded
  <2>5. ClosedInOrder
    BY <2>1 DEF ClosedInOrder, Open
  <2>6. Record!TranscriptInit
    BY <2>1 DEF Record!TranscriptInit
  <2> QED
    BY <2>3, <2>4, <2>5, <2>6 DEF RecordInv
<1>2. TypeOK /\ TypeOK' /\ WordsInv /\ RecordInv /\ [Next]_vars => RecordInv'
  BY StepOfThree, SendKeepsRecord, ReceiveKeepsRecord, QuietKeepsRecord
<1>3. TypeOK /\ WordsInv /\ RecordInv /\ [Next]_vars => [Record!TranscriptNext]_(Record!transcriptVars)
  <2>1. Quiet => UNCHANGED Record!transcriptVars
    BY DEF Quiet, Record!transcriptVars
  <2> QED
    BY <2>1, StepOfThree, SendIsTranscriptStep, ReceiveIsTranscriptStep
<1>4. Spec => [](TypeOK /\ CallInv /\ WordsInv)
  BY InitCalls, InitWords, TypeCorrect, CallsInductive, WordsInductive, PTL DEF Spec
<1> QED
  BY <1>1, <1>2, <1>3, <1>4, PTL DEF Spec, RecordSpecHolds, Record!TranscriptSpec

(* The transcript of a call is kept: turns come in order and once, and     *)
(* every response received to its end has its turn (save one that called a *)
(* function).                                                              *)
THEOREM TranscriptIsKept == Spec => TranscriptKept
BY BridgeWritesTranscript, TranscriptIsFaithful DEF TranscriptKept
===============================================================================
