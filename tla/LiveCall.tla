------------------------------- MODULE LiveCall -------------------------------
(***************************************************************************)
(* Inside one bridged call: realtime/voice_bridge.py between start() and   *)
(* _cleanup, the event loop of providers/openai/realtime.py and the tools  *)
(* run by tools/executor.py.                                               *)
(*                                                                         *)
(* OpenAI sends events over one socket, in order; the bridge handles one   *)
(* event at a time, awaiting both sockets and the tools inside a handler,  *)
(* while OpenAI goes on generating, Twilio goes on playing and the loop    *)
(* that reads Twilio's messages runs.  An exception ends the handler, not  *)
(* the loop.                                                               *)
(***************************************************************************)
EXTENDS Naturals, Sequences

CONSTANTS
  MaxResponses,  \* bound: responses OpenAI generates in the call
  MaxDeltas,     \* bound: audio and transcript deltas of a response, of each
  MaxSpeeches,   \* bound: times the caller starts to speak
  MaxInbox,      \* bound: events on their way to the bridge
  Faults         \* the faults the environment may cause

ASSUME LiveCallAssumption ==
  /\ MaxResponses \in Nat /\ MaxDeltas \in Nat
  /\ MaxSpeeches \in Nat /\ MaxInbox \in Nat
  /\ Faults \subseteq {"provider", "redis", "tool"}

Responses == 1..MaxResponses
Speeches  == 1..MaxSpeeches

VARIABLES
  made,      \* responses OpenAI has started
  active,    \* the response it is generating, 0 for none
  cancelled, \* it was told to cancel that one
  out,       \* what it has sent of each response
  speeches,  \* times the caller started to speak
  heardOf,   \* how many of them were transcribed
  inbox,     \* events sent and not yet received by the bridge
  handler,   \* where the handler of the current event is
  calling,   \* the function call it executes: the response that made it
  outcome,   \* what that call returned
  item,      \* _current_assistant_item_id, 0 for ""
  played,    \* _played_audio_bytes, in deltas
  text,      \* _current_ai_text: the responses its deltas belong to
  segments,  \* _transcript_segments
  is_active, \* the flag of the Twilio loop
  loops,     \* the loops that still run
  sockets,   \* the sockets that are open
  buffer,    \* audio Twilio has received and not played, in deltas
  sent,      \* audio of an item sent to Twilio (history)
  truncated, \* truncations OpenAI was sent: <<item, length>> (history)
  ran,       \* times a function call was carried out (history)
  answered,  \* times its result was sent (history)
  cleared    \* last start of speech for which Twilio was cleared (history)

server  == <<made, active, cancelled, out, speeches, heardOf>>
tracker == <<item, played>>
tools   == <<calling, outcome, ran, answered>>
words   == <<text, segments>>
line    == <<is_active, loops, sockets>>
audio   == <<buffer, sent>>

vars == <<server, inbox, handler, tracker, tools, words, line, audio,
          truncated, cleared>>

Nothing == [item |-> FALSE, audio |-> 0, text |-> 0, call |-> FALSE, done |-> FALSE]

(* The greeting, if any, is injected before the loops start: to OpenAI it  *)
(* is one more reason to respond.                                          *)
Init ==
  /\ made = 0 /\ active = 0 /\ cancelled = FALSE
  /\ out = [n \in Responses |-> Nothing]
  /\ speeches = 0 /\ heardOf = 0
  /\ inbox = <<>>
  /\ handler = "wait" /\ calling = 0 /\ outcome = "none"
  /\ item = 0 /\ played = 0
  /\ text = <<>> /\ segments = <<>>
  /\ is_active = TRUE
  /\ loops = {"twilio", "openai"} /\ sockets = {"twilio", "openai"}
  /\ buffer = 0 /\ sent = [n \in Responses |-> 0]
  /\ truncated = {}
  /\ ran = [n \in Responses |-> 0] /\ answered = [n \in Responses |-> 0]
  /\ cleared = 0

-------------------------------------------------------------------------------
(* OpenAI and the caller: the environment *)

Send(type, n) ==
  /\ "openai" \in sockets /\ Len(inbox) < MaxInbox
  /\ inbox' = Append(inbox, <<type, n>>)

bridge == <<handler, tracker, tools, words, line, audio, truncated, cleared>>

StartResponse ==
  /\ "openai" \in sockets /\ active = 0 /\ made < MaxResponses
  /\ made' = made + 1 /\ active' = made + 1 /\ cancelled' = FALSE
  /\ UNCHANGED <<out, speeches, heardOf, inbox, bridge>>

(* A response is one message, spoken and transcribed, and at most one      *)
(* function call; a cancelled one only ends.                               *)
Generates == active # 0 /\ ~cancelled

AddItem ==
  /\ Generates /\ ~out[active].item
  /\ Send("item", active)
  /\ out' = [out EXCEPT ![active].item = TRUE]
  /\ UNCHANGED <<made, active, cancelled, speeches, heardOf, bridge>>

SendAudio ==
  /\ Generates /\ out[active].item /\ out[active].audio < MaxDeltas
  /\ Send("audio", active)
  /\ out' = [out EXCEPT ![active].audio = @ + 1]
  /\ UNCHANGED <<made, active, cancelled, speeches, heardOf, bridge>>

SendText ==
  /\ Generates /\ out[active].item /\ out[active].text < MaxDeltas
  /\ Send("text", active)
  /\ out' = [out EXCEPT ![active].text = @ + 1]
  /\ UNCHANGED <<made, active, cancelled, speeches, heardOf, bridge>>

CallFunction ==
  /\ Generates /\ ~out[active].call
  /\ Send("call", active)
  /\ out' = [out EXCEPT ![active].call = TRUE]
  /\ UNCHANGED <<made, active, cancelled, speeches, heardOf, bridge>>

EndResponse ==
  /\ active # 0
  /\ Send("done", active)
  /\ out' = [out EXCEPT ![active].done = TRUE]
  /\ active' = 0 /\ cancelled' = FALSE
  /\ UNCHANGED <<made, speeches, heardOf, bridge>>

Speak ==
  /\ speeches < MaxSpeeches
  /\ Send("speech", speeches + 1)
  /\ speeches' = speeches + 1
  /\ UNCHANGED <<made, active, cancelled, out, heardOf, bridge>>

(* Transcription is a job of its own and may end after the answer.         *)
Transcribe ==
  /\ heardOf < speeches
  /\ Send("user", heardOf + 1)
  /\ heardOf' = heardOf + 1
  /\ UNCHANGED <<made, active, cancelled, out, speeches, bridge>>

CloseOpenAI ==
  /\ "openai" \in sockets
  /\ sockets' = sockets \ {"openai"}
  /\ UNCHANGED <<server, inbox, handler, tracker, tools, words, is_active, loops,
                 audio, truncated, cleared>>

HangUp ==
  /\ "twilio" \in sockets
  /\ sockets' = sockets \ {"twilio"}
  /\ UNCHANGED <<server, inbox, handler, tracker, tools, words, is_active, loops,
                 audio, truncated, cleared>>

Play ==
  /\ "twilio" \in sockets /\ buffer > 0
  /\ buffer' = buffer - 1
  /\ UNCHANGED <<server, inbox, handler, tracker, tools, words, line, sent,
                 truncated, cleared>>

-------------------------------------------------------------------------------
(* Faulty variants of actions below: each must break a property. *)

Receive(type, n) ==
  /\ "openai" \in loops /\ handler = "wait" /\ inbox # <<>>
  /\ Head(inbox) = <<type, n>>
  /\ inbox' = Tail(inbox)

(* The byte count is not reset for a new item. *)
OnOutputItemAddedKeepsCount(n) ==
  /\ Receive("item", n)
  /\ item' = n
  /\ UNCHANGED <<server, handler, played, tools, words, line, audio, truncated, cleared>>

(* The agent's turn is saved under the name OpenAI gives the speaker. *)
OnResponseDoneAssistant(n) ==
  /\ Receive("done", n)
  /\ segments' = IF text # <<>> THEN Append(segments, [by |-> "assistant", said |-> text])
                 ELSE segments
  /\ text' = <<>>
  /\ UNCHANGED <<server, handler, tracker, tools, line, audio, truncated, cleared>>

(* The caller's words, transcribed late, are put before the answer. *)
OnUserTranscriptFirst(k) ==
  /\ Receive("user", k)
  /\ segments' = <<[by |-> "customer", said |-> <<k>>]>> \o segments
  /\ UNCHANGED <<server, handler, tracker, tools, text, line, audio, truncated, cleared>>

(* A tool's exception escapes the executor. *)
ExecuteToolRaises ==
  /\ handler = "executing"
  /\ ran' = [ran EXCEPT ![calling] = @ + 1]
  /\ \/ /\ outcome' \in {"plain", "transfer", "end"}
        /\ handler' = "result" /\ calling' = calling
     \/ /\ "tool" \in Faults
        /\ outcome' = "none" /\ calling' = 0 /\ handler' = "wait"
  /\ UNCHANGED <<server, inbox, tracker, answered, words, line, audio, truncated, cleared>>

(* An exception of a handler ends the receive loop. *)
ActFailsEndsLoop ==
  /\ handler = "acting"
  /\ \/ outcome = "transfer" /\ "redis" \in Faults /\ is_active' = is_active
     \/ outcome = "end" /\ "provider" \in Faults /\ is_active' = FALSE
  /\ handler' = "wait" /\ calling' = 0 /\ outcome' = "none"
  /\ loops' = loops \ {"openai"}
  /\ UNCHANGED <<server, inbox, tracker, ran, answered, words, sockets, audio,
                 truncated, cleared>>

-------------------------------------------------------------------------------
(* The handlers of OpenAI's events *)

(* The audio goes to Twilio and is counted, unless Twilio is gone.         *)
OnAiAudio(n) ==
  /\ Receive("audio", n)
  /\ IF "twilio" \in sockets
       THEN /\ buffer' = buffer + 1
            /\ sent' = [sent EXCEPT ![n] = @ + 1]
            /\ played' = played + 1
       ELSE UNCHANGED <<buffer, sent, played>>
  /\ UNCHANGED <<server, handler, item, tools, words, line, truncated, cleared>>

OnOutputItemAdded(n) ==
  /\ Receive("item", n)
  /\ item' = n /\ played' = 0
  /\ UNCHANGED <<server, handler, tools, words, line, audio, truncated, cleared>>

OnAiTranscript(n) ==
  /\ Receive("text", n)
  /\ text' = Append(text, n)
  /\ UNCHANGED <<server, handler, tracker, tools, segments, line, audio, truncated, cleared>>

OnUserTranscript(k) ==
  /\ Receive("user", k)
  /\ segments' = Append(segments, [by |-> "customer", said |-> <<k>>])
  /\ UNCHANGED <<server, handler, tracker, tools, text, line, audio, truncated, cleared>>

OnResponseDone(n) ==
  /\ Receive("done", n)
  /\ segments' = IF text # <<>> THEN Append(segments, [by |-> "agent", said |-> text])
                 ELSE segments
  /\ text' = <<>>
  /\ UNCHANGED <<server, handler, tracker, tools, line, audio, truncated, cleared>>

(* Barge-in: cancel the response, truncate its item, clear Twilio's buffer *)
(* and forget the item; each of the three is an await, and one that raises *)
(* ends the handler where it is.                                           *)
OnSpeechStarted(k) ==
  /\ Receive("speech", k)
  /\ IF "openai" \in sockets
       THEN cancelled' = (active # 0) /\ handler' = "cancelled"
       ELSE UNCHANGED <<cancelled, handler>>
  /\ UNCHANGED <<made, active, out, speeches, heardOf, tracker, tools, words, line,
                 audio, truncated, cleared>>

Truncate ==
  /\ handler = "cancelled"
  /\ IF item = 0 \/ played = 0
       THEN handler' = "truncated" /\ UNCHANGED truncated
       ELSE IF "openai" \in sockets
         THEN handler' = "truncated" /\ truncated' = truncated \cup {<<item, played>>}
         ELSE handler' = "wait" /\ UNCHANGED truncated
  /\ UNCHANGED <<server, inbox, tracker, tools, words, line, audio, cleared>>

ClearTwilio ==
  /\ handler = "truncated"
  /\ IF "twilio" \in sockets
       THEN /\ buffer' = 0 /\ item' = 0 /\ played' = 0
            /\ cleared' = cleared + 1
       ELSE UNCHANGED <<buffer, tracker, cleared>>
  /\ handler' = "wait"
  /\ UNCHANGED <<server, inbox, tools, words, line, sent, truncated>>

(* A function call: execute, send the result, ask for a response, act on   *)
(* the special results, forget item and text.                              *)
OnToolCall(n) ==
  /\ Receive("call", n)
  /\ handler' = "executing" /\ calling' = n
  /\ UNCHANGED <<server, tracker, outcome, ran, answered, words, line, audio,
                 truncated, cleared>>

(* ToolExecutor.execute refuses unknown tools, tools the agent may not use *)
(* and arguments it cannot parse, and turns every exception into a failed  *)
(* result.                                                                 *)
ExecuteTool ==
  /\ handler = "executing"
  /\ \/ outcome' \in {"plain", "transfer", "end"} /\ ran' = [ran EXCEPT ![calling] = @ + 1]
     \/ "tool" \in Faults /\ outcome' = "failed" /\ ran' = [ran EXCEPT ![calling] = @ + 1]
     \/ outcome' = "failed" /\ UNCHANGED ran
  /\ handler' = "result"
  /\ UNCHANGED <<server, inbox, tracker, calling, answered, words, line, audio,
                 truncated, cleared>>

AbandonCall == handler' = "wait" /\ calling' = 0 /\ outcome' = "none"

SendToolResult ==
  /\ handler = "result"
  /\ IF "openai" \in sockets
       THEN /\ answered' = [answered EXCEPT ![calling] = @ + 1]
            /\ handler' = "request" /\ UNCHANGED <<calling, outcome>>
       ELSE AbandonCall /\ UNCHANGED answered
  /\ UNCHANGED <<server, inbox, tracker, ran, words, line, audio, truncated, cleared>>

RequestResponse ==
  /\ handler = "request"
  /\ IF "openai" \in sockets
       THEN handler' = "acting" /\ UNCHANGED <<calling, outcome>>
       ELSE AbandonCall
  /\ UNCHANGED <<server, inbox, tracker, ran, answered, words, line, audio,
                 truncated, cleared>>

(* A transfer is noted in Redis and goes no further: the result of         *)
(* transfer_call carries no number.  The end of a call stops the Twilio    *)
(* loop and asks the provider to hang up, which is HangUp.                 *)
ActOnResult ==
  /\ handler = "acting"
  /\ is_active' = (is_active /\ outcome # "end")
  /\ AbandonCall
  /\ item' = 0 /\ played' = 0 /\ text' = <<>>
  /\ UNCHANGED <<server, inbox, ran, answered, segments, loops, sockets, audio,
                 truncated, cleared>>

ActFails ==
  /\ handler = "acting"
  /\ \/ outcome = "transfer" /\ "redis" \in Faults /\ is_active' = is_active
     \/ outcome = "end" /\ "provider" \in Faults /\ is_active' = FALSE
  /\ AbandonCall
  /\ UNCHANGED <<server, inbox, tracker, ran, answered, words, loops, sockets, audio,
                 truncated, cleared>>

-------------------------------------------------------------------------------
(* The end of the loops *)

(* A stop message, a disconnect, the flag seen at the next message, or     *)
(* audio that can no longer be passed to OpenAI.                           *)
TwilioLoopEnds ==
  /\ "twilio" \in loops
  /\ ~is_active \/ sockets # {"twilio", "openai"}
  /\ loops' = loops \ {"twilio"} /\ is_active' = FALSE
  /\ UNCHANGED <<server, inbox, handler, tracker, tools, words, sockets, audio,
                 truncated, cleared>>

(* What had arrived before the socket closed is still handled.             *)
OpenAILoopEnds ==
  /\ "openai" \in loops /\ "openai" \notin sockets
  /\ handler = "wait" /\ inbox = <<>>
  /\ loops' = loops \ {"openai"}
  /\ UNCHANGED <<server, inbox, handler, tracker, tools, words, is_active, sockets,
                 audio, truncated, cleared>>

-------------------------------------------------------------------------------
Generate ==
  \/ StartResponse \/ AddItem \/ SendAudio \/ SendText \/ CallFunction \/ EndResponse
  \/ Speak \/ Transcribe \/ CloseOpenAI \/ HangUp \/ Play

Handle ==
  \/ \E n \in Responses :
       \/ OnAiAudio(n) \/ OnOutputItemAdded(n) \/ OnAiTranscript(n)
       \/ OnResponseDone(n) \/ OnToolCall(n)
  \/ \E k \in Speeches : OnUserTranscript(k) \/ OnSpeechStarted(k)
  \/ Truncate \/ ClearTwilio
  \/ ExecuteTool \/ SendToolResult \/ RequestResponse \/ ActOnResult \/ ActFails
  \/ OpenAILoopEnds

Next == Generate \/ Handle \/ TwilioLoopEnds

Spec == Init /\ [][Next]_vars

(* The event loop resumes the bridge; tools return (no timeout makes them).*)
FairSpec == Spec /\ WF_vars(Handle)

-------------------------------------------------------------------------------
(* Properties *)

Events ==
  ({"item", "audio", "text", "call", "done"} \X Responses)
    \cup ({"speech", "user"} \X Speeches)

Outputs ==
  [item : BOOLEAN, audio : 0..MaxDeltas, text : 0..MaxDeltas, call : BOOLEAN, done : BOOLEAN]

Segments ==
  [by : {"agent"}, said : Seq(Responses)] \cup [by : {"customer"}, said : Seq(Speeches)]

ServerTypes ==
  /\ made \in 0..MaxResponses /\ active \in 0..MaxResponses
  /\ cancelled \in BOOLEAN
  /\ out \in [Responses -> Outputs]
  /\ speeches \in 0..MaxSpeeches /\ heardOf \in 0..MaxSpeeches
  /\ inbox \in Seq(Events)

BridgeTypes ==
  /\ handler \in {"wait", "cancelled", "truncated", "executing", "result",
                  "request", "acting"}
  /\ calling \in 0..MaxResponses
  /\ outcome \in {"none", "plain", "transfer", "end", "failed"}
  /\ item \in 0..MaxResponses /\ played \in Nat
  /\ text \in Seq(Responses)
  /\ segments \in Seq(Segments)
  /\ is_active \in BOOLEAN
  /\ loops \subseteq {"twilio", "openai"} /\ sockets \subseteq {"twilio", "openai"}

HistoryTypes ==
  /\ buffer \in Nat /\ sent \in [Responses -> Nat]
  /\ truncated \subseteq Responses \X Nat
  /\ ran \in [Responses -> Nat] /\ answered \in [Responses -> Nat]
  /\ cleared \in Nat

TypeOK == ServerTypes /\ BridgeTypes /\ HistoryTypes

(* The count belongs to the current item, whatever was cancelled, still in *)
(* flight, or interrupted by a tool: no item is truncated beyond the audio *)
(* of its own that Twilio was sent.                                        *)
TruncationWithinSent ==
  /\ item # 0 => played <= sent[item]
  /\ \A t \in truncated : t[2] <= sent[t[1]]

OnItsWay(type, n) == \E i \in DOMAIN inbox : inbox[i] = <<type, n>>

Turns(n) ==
  {i \in DOMAIN segments : segments[i].by = "agent" /\ n \in {segments[i].said[j] :
                                                   j \in DOMAIN segments[i].said}}

(* An agent's turn in the transcript is the text of one response; each     *)
(* response that was received to its end has one turn with its whole text, *)
(* unless it called a function, which drops what was said before.          *)
TranscriptFaithful ==
  \A n \in Responses :
    /\ \A i \in Turns(n) : \A j \in DOMAIN segments[i].said : segments[i].said[j] = n
    /\ \A i, j \in Turns(n) : i = j
    /\ out[n].done /\ ~OnItsWay("done", n) /\ out[n].text > 0 /\ ~out[n].call =>
         \E i \in Turns(n) : Len(segments[i].said) = out[n].text

(* A function call is carried out at most once, and a result is sent for   *)
(* it before the next event is handled, whether the tool was refused,      *)
(* failed or returned, unless OpenAI has closed the session.               *)
CallsAnsweredInTurn ==
  \A n \in Responses :
    /\ ran[n] <= 1 /\ answered[n] <= 1
    /\ out[n].call /\ ~OnItsWay("call", n) /\ calling # n =>
         answered[n] = 1 \/ "openai" \notin sockets

(* A caller who starts to speak silences the agent, whatever handlers do   *)
(* or fail to do before, as long as both ends are connected.               *)
BargeInSilences ==
  \A k \in Speeches :
    speeches >= k ~> cleared >= k \/ sockets # {"twilio", "openai"}

(* The transcript written is what one promises, though the bridge knows of *)
(* a response only what it has received and may forget what it has saved.  *)
Record == INSTANCE Transcript WITH
            spoken <- [n \in Responses |-> out[n].text],
            ended  <- {n \in Responses : out[n].done},
            called <- {n \in Responses : out[n].call},
            heard  <- heardOf
RecordSpecHolds == Record!TranscriptSpec

(* What the bridge writes of a call: every step keeps to the promise, and  *)
(* no response received to its end is left out.                            *)
TranscriptKept == RecordSpecHolds /\ []TranscriptFaithful
===============================================================================
