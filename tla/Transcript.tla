------------------------------ MODULE Transcript ------------------------------
(***************************************************************************)
(* What the transcript of a call promises, whatever is in flight, is       *)
(* interrupted or fails in between: turns are only ever added at the end.  *)
(* The agent's are the responses in the order they were made, one turn     *)
(* each, complete unless the response called a function, and none is       *)
(* skipped that has words to keep; the caller's are the speeches heard, in *)
(* order, none twice and none skipped.                                     *)
(***************************************************************************)
EXTENDS Naturals, Sequences

CONSTANTS Responses, Speeches

VARIABLES
  spoken,   \* the words made of each response
  ended,    \* the responses that have ended
  called,   \* the responses that called a function
  heard,    \* how many speeches have been heard
  segments  \* the transcript

transcriptVars == <<spoken, ended, called, heard, segments>>

AgentTurn(n, k) == [by |-> "agent", said |-> [j \in 1..k |-> n]]
CustomerTurn(k) == [by |-> "customer", said |-> <<k>>]

Said(n)  == \E i \in DOMAIN segments :
              segments[i].by = "agent" /\ \E j \in DOMAIN segments[i].said : segments[i].said[j] = n
Noted(k) == \E i \in DOMAIN segments : segments[i] = CustomerTurn(k)

(* Nothing is left to write of a response. *)
Settled(n) == n \in ended /\ (spoken[n] = 0 \/ n \in called \/ Said(n))

TranscriptInit ==
  /\ spoken = [n \in Responses |-> 0]
  /\ ended = {} /\ called = {}
  /\ heard = 0
  /\ segments = <<>>

(* Responses are made one at a time. *)
Current(n) == n \notin ended /\ \A m \in Responses : m < n => m \in ended

SayWord(n) ==
  /\ Current(n)
  /\ spoken' = [spoken EXCEPT ![n] = @ + 1]
  /\ UNCHANGED <<ended, called, heard, segments>>

CallTool(n) ==
  /\ Current(n)
  /\ called' = called \cup {n}
  /\ UNCHANGED <<spoken, ended, heard, segments>>

EndSpeaking(n) ==
  /\ Current(n)
  /\ ended' = ended \cup {n}
  /\ UNCHANGED <<spoken, called, heard, segments>>

HearSpeech ==
  /\ heard + 1 \in Speeches
  /\ heard' = heard + 1
  /\ UNCHANGED <<spoken, ended, called, segments>>

WriteAgent(n) ==
  /\ n \in ended /\ ~Said(n)
  /\ \A m \in Responses : (m < n => Settled(m)) /\ (m > n => ~Said(m))
  /\ \E k \in 1..spoken[n] :
       /\ n \notin called => k = spoken[n]
       /\ segments' = Append(segments, AgentTurn(n, k))
  /\ UNCHANGED <<spoken, ended, called, heard>>

WriteCustomer(k) ==
  /\ k <= heard /\ ~Noted(k)
  /\ \A j \in Speeches : (j < k => Noted(j)) /\ (j > k => ~Noted(j))
  /\ segments' = Append(segments, CustomerTurn(k))
  /\ UNCHANGED <<spoken, ended, called, heard>>

TranscriptNext ==
  \/ \E n \in Responses :
       SayWord(n) \/ CallTool(n) \/ EndSpeaking(n) \/ WriteAgent(n)
  \/ \E k \in Speeches : WriteCustomer(k)
  \/ HearSpeech

TranscriptSpec == TranscriptInit /\ [][TranscriptNext]_transcriptVars
===============================================================================
