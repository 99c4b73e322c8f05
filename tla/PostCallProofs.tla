---------------------------- MODULE PostCallProofs -----------------------------
(***************************************************************************)
(* Proofs about PostCall, for any number of calls, endpoints and retries   *)
(* and any faults.                                                         *)
(***************************************************************************)
EXTENDS PostCall, FiniteSetTheorems, TLAPS

-------------------------------------------------------------------------------
(* The inductive invariant *)

(* The places of a call that this attempt has not stored an analysis of. *)
Unsaved ==
  {"persisting", "persisted", "completed", "enqueuing", "queued", "loading", "asking",
   "saving", "broken"}

(* What the attempt holds, and what the log can hold by its place. *)
Held(c) ==
  /\ pc[c] \in {"asking", "saving", "broken", "reading", "analyzed", "closing"} => c \in logged
  /\ pc[c] \in {"asking", "reading", "analyzed"} => view[c] = summary[c]
  /\ pc[c] = "saving" => view[c] = tries[c] + 1
  /\ summary[c] <= tries[c] + 1
  /\ pc[c] \in Unsaved => summary[c] <= tries[c]
  /\ todo[c] # {} => pc[c] \in {"completed", "analyzed"}

(* A POST that may still arrive was given up, and carries what the log     *)
(* held.                                                                   *)
SlowHold ==
  \A x \in slow :
    /\ <<x[1], x[2]>> \in late
    /\ x[3].event = "call.analyzed" => x[2] \in logged /\ x[3].summary <= summary[x[2]]

(* What an endpoint has been told by the call's place. *)
ToldOnce(e, c) ==
  <<e, c>> \notin late /\ c \notin repeated =>
    /\ Analyses(e, c) \subseteq {Len(received[e][c])}
    /\ pc[c] \in Unsaved \cup {"reading"} => Analyses(e, c) = {}
    /\ e \in todo[c] => Analyses(e, c) = {}
    /\ \A n \in Analyses(e, c) : received[e][c][n].summary = summary[c]

(* Whoever subscribed in time is told or about to be. *)
Reached(e, c) ==
  "call.analyzed" \in events[e] /\ <<e, c>> \notin missed \cup late =>
    /\ pc[c] = "analyzed" => e \in todo[c] \/ Analyses(e, c) # {}
    /\ pc[c] = "closing" => Analyses(e, c) # {}
    /\ pc[c] = "done" /\ c \in logged => Analyses(e, c) # {}

PostInv ==
  /\ TypeOK /\ SlowHold /\ ToldIsStored
  /\ \A c \in Calls : Held(c)
  /\ \A e \in Endpoints, c \in Calls : ToldOnce(e, c) /\ Reached(e, c)

-------------------------------------------------------------------------------
(* What an endpoint receives *)

(* A message received is appended to what the endpoint has heard of the
   call, and to nothing else. *)
LEMMA Receives ==
  ASSUME TypeOK, NEW e \in Endpoints, NEW c \in Calls, NEW m \in Message, Receive(e, c, m)
  PROVE  /\ received' \in [Endpoints -> [Calls -> Seq(Message)]]
         /\ \A f \in Endpoints, d \in Calls : <<f, d>> # <<e, c>> =>
              received'[f][d] = received[f][d] /\ Analyses(f, d)' = Analyses(f, d)
         /\ Len(received[e][c]) \in Nat /\ DOMAIN received[e][c] = 1..Len(received[e][c])
         /\ Len(received'[e][c]) = Len(received[e][c]) + 1
         /\ \A n \in Analyses(e, c) : n \in Nat /\ n <= Len(received[e][c])
                                      /\ received'[e][c][n] = received[e][c][n]
         /\ received'[e][c][Len(received[e][c]) + 1] = m
         /\ m.event # "call.analyzed" => Analyses(e, c)' = Analyses(e, c)
         /\ m.event = "call.analyzed" =>
              Analyses(e, c)' = Analyses(e, c) \cup {Len(received[e][c]) + 1}
<1> DEFINE s == received[e][c]
           t == received'[e][c]
<1>1. s \in Seq(Message) /\ t = Append(s, m)
  BY DEF TypeOK, Receive
<1>2. received' \in [Endpoints -> [Calls -> Seq(Message)]]
  <2>1. Append(s, m) \in Seq(Message)
    BY <1>1
  <2>2. received' = [received EXCEPT ![e] = [received[e] EXCEPT ![c] = Append(s, m)]]
    BY DEF Receive
  <2> HIDE DEF s
  <2> QED
    BY <2>1, <2>2 DEF TypeOK
<1>3. \A f \in Endpoints, d \in Calls : <<f, d>> # <<e, c>> =>
        received'[f][d] = received[f][d] /\ Analyses(f, d)' = Analyses(f, d)
  BY DEF TypeOK, Receive, Analyses
<1>4. /\ Len(s) \in Nat /\ DOMAIN s = 1..Len(s) /\ Len(t) = Len(s) + 1
      /\ DOMAIN t = 1..Len(s) + 1 /\ t[Len(s) + 1] = m
      /\ \A n \in 1..Len(s) : t[n] = s[n]
  BY <1>1
<1>5. /\ Analyses(e, c) = {n \in 1..Len(s) : s[n].event = "call.analyzed"}
      /\ Analyses(e, c)' = {n \in 1..Len(s) + 1 : t[n].event = "call.analyzed"}
  BY <1>4 DEF Analyses
<1> HIDE DEF s, t
<1>6. /\ \A n \in Analyses(e, c) : n \in Nat /\ n <= Len(s) /\ t[n] = s[n]
      /\ m.event # "call.analyzed" => Analyses(e, c)' = Analyses(e, c)
      /\ m.event = "call.analyzed" => Analyses(e, c)' = Analyses(e, c) \cup {Len(s) + 1}
  BY <1>4, <1>5
<1> QED
  BY <1>2, <1>3, <1>4, <1>6 DEF s, t

(* The places of the analyses an endpoint has heard. *)
LEMMA AnalysisPlaces ==
  ASSUME TypeOK, NEW e \in Endpoints, NEW c \in Calls, NEW n \in Analyses(e, c)
  PROVE  n \in Nat /\ n <= Len(received[e][c]) /\ received[e][c][n].summary \in Nat
<1> DEFINE s == received[e][c]
<1>1. s \in Seq(Message)
  BY DEF TypeOK
<1>2. n \in DOMAIN s
  BY DEF Analyses
<1> HIDE DEF s
<1>3. n \in 1..Len(s) /\ s[n] \in Message /\ Len(s) \in Nat
  BY <1>1, <1>2
<1> QED
  BY <1>3 DEF s, Message, Attempts

-------------------------------------------------------------------------------
(* The steps *)

(* A call moves on without anybody receiving anything. *)
LEMMA CallMoves ==
  ASSUME PostInv, NEW c \in Calls, TypeOK', UNCHANGED <<events, network>>,
         logged \subseteq logged', summary[c] <= summary'[c],
         \A d \in Calls : d # c =>
           /\ pc'[d] = pc[d] /\ tries'[d] = tries[d] /\ view'[d] = view[d] /\ todo'[d] = todo[d]
           /\ summary'[d] = summary[d]
           /\ d \in logged' <=> d \in logged
           /\ d \in repeated' <=> d \in repeated,
         Held(c)', \A e \in Endpoints : ToldOnce(e, c)' /\ Reached(e, c)'
  PROVE  PostInv'
<1> USE DEF network
<1>1. \A e, d : Analyses(e, d)' = Analyses(e, d)
  BY DEF Analyses
<1>2. TypeOK /\ \A d \in Calls : summary[d] \in Nat /\ summary'[d] \in Nat /\ summary[d] <= summary'[d]
  <2>1. TypeOK
    BY DEF PostInv
  <2>2. summary \in [Calls -> Attempts] /\ summary' \in [Calls -> Attempts] /\ Attempts \subseteq Nat
    BY <2>1 DEF TypeOK, Attempts
  <2>3. \A d \in Calls : summary[d] \in Nat /\ summary'[d] \in Nat
    BY <2>2
  <2>4. \A d \in Calls : d # c => summary'[d] = summary[d]
    OBVIOUS
  <2> QED
    BY <2>1, <2>3, <2>4
<1>3. SlowHold'
  <2> SUFFICES ASSUME NEW x \in slow, x[3].event = "call.analyzed"
               PROVE  x[2] \in logged' /\ x[3].summary <= summary'[x[2]]
    BY DEF PostInv, SlowHold
  <2>1. x[2] \in Calls /\ x[3].summary \in Nat
    <3>1. x \in Endpoints \X Calls \X Message
      BY <1>2 DEF TypeOK
    <3> QED
      BY <3>1 DEF Message, Attempts
  <2>2. x[2] \in logged /\ x[3].summary <= summary[x[2]]
    BY DEF PostInv, SlowHold
  <2>3. summary[x[2]] \in Nat /\ summary'[x[2]] \in Nat /\ summary[x[2]] <= summary'[x[2]]
    BY <1>2, <2>1
  <2> QED
    BY <2>1, <2>2, <2>3
<1>4. ToldIsStored'
  <2> SUFFICES ASSUME NEW e \in Endpoints, NEW d \in Calls, NEW n \in Analyses(e, d)
               PROVE  /\ d \in logged'
                      /\ received[e][d][n].summary <= summary'[d]
                      /\ <<e, d>> \notin late =>
                           \A m \in Analyses(e, d) : m < n =>
                             received[e][d][m].summary <= received[e][d][n].summary
    BY <1>1 DEF ToldIsStored
  <2>1. received[e][d][n].summary \in Nat
    BY <1>2, AnalysisPlaces
  <2> QED
    BY <1>2, <2>1 DEF PostInv, ToldIsStored
<1>5. ASSUME NEW d \in Calls
      PROVE  Held(d)'
  BY DEF PostInv, Held
<1>6. ASSUME NEW e \in Endpoints, NEW d \in Calls
      PROVE  ToldOnce(e, d)' /\ Reached(e, d)'
  BY <1>1 DEF PostInv, ToldOnce, Reached
<1> QED
  BY <1>3, <1>4, <1>5, <1>6 DEF PostInv

(* A call goes to another place, and nothing else changes but for what its
   dispatch has still to do. *)
LEMMA CallGoes ==
  ASSUME PostInv, NEW c \in Calls, NEW from, NEW to \in PCs, Goto(c, from, to),
         UNCHANGED <<events, row, attempt, network>>,
         \/ todo' = todo
         \/ \E es \in SUBSET Endpoints : todo' = [todo EXCEPT ![c] = es],
         Held(c)', \A e \in Endpoints : ToldOnce(e, c)' /\ Reached(e, c)'
  PROVE  PostInv'
<1> USE DEF row, attempt
<1>1. TypeOK /\ pc' = [pc EXCEPT ![c] = to] /\ summary[c] \in Nat
  BY DEF PostInv, TypeOK, Goto, Attempts
<1>2. TypeOK'
  <2>1. pc' \in [Calls -> PCs] /\ todo' \in [Calls -> SUBSET Endpoints]
    BY <1>1 DEF TypeOK
  <2> QED
    BY <1>1, <2>1 DEF TypeOK, network
<1>3. \A d \in Calls : d # c => pc'[d] = pc[d] /\ todo'[d] = todo[d]
  BY <1>1 DEF TypeOK
<1> QED
  BY <1>1, <1>2, <1>3, CallMoves

(* A place that a call in flight leaves for another, when what it holds, the
   log and the endpoints stay as they are. *)
LEMMA PlacesChange ==
  ASSUME PostInv, NEW c \in Calls,
         \/ EventSent(c) \/ Enqueue(c) \/ TakeTask(c) \/ SaveFails(c) \/ CloseSession(c)
         \/ ReadEndpoints(c) \/ Crash(c)
         \/ PersistLog(c) /\ pc'[c] = "enqueuing"
  PROVE  PostInv'
<1> USE DEF row, attempt, network
<1>1. /\ TypeOK /\ Held(c) /\ \A e \in Endpoints : ToldOnce(e, c) /\ Reached(e, c)
      /\ summary[c] \in Nat /\ tries[c] \in Nat
  BY DEF PostInv, TypeOK, Attempts
<1> DEFINE Moves(from, to) ==
      /\ Goto(c, from, to)
      /\ <<from, to>> \in
           {<<"completed", "enqueuing">>, <<"analyzed", "closing">>, <<"enqueuing", "queued">>,
            <<"enqueuing", "lost">>, <<"queued", "loading">>, <<"saving", "broken">>,
            <<"closing", "done">>, <<"persisting", "enqueuing">>, <<"persisted", "enqueuing">>,
            <<"persisted", "completed">>, <<"reading", "analyzed">>} \cup PCs \X {"lost"}
      /\ UNCHANGED <<events, row, attempt, network>>
      /\ <<from, to>> \in {<<"completed", "enqueuing">>, <<"analyzed", "closing">>} =>
           todo[c] = {} /\ todo' = todo
      /\ \/ /\ todo' = todo /\ to # "completed" /\ to # "analyzed"
            /\ to = "lost" => from = "enqueuing"
         \/ to = "lost" /\ todo' = [todo EXCEPT ![c] = {}]
         \/ to = "completed" /\ todo' = [todo EXCEPT ![c] = Subscribed("call.completed")]
         \/ to = "analyzed" /\ todo' = [todo EXCEPT ![c] = Subscribed("call.analyzed")]
<1>2. PICK from, to \in PCs : Moves(from, to)
  <2>1. ASSUME EventSent(c)
        PROVE  Moves("completed", "enqueuing") \/ Moves("analyzed", "closing")
    BY <2>1 DEF EventSent
  <2>2. ASSUME Enqueue(c)
        PROVE  Moves("enqueuing", "queued") \/ Moves("enqueuing", "lost")
    BY <2>2 DEF Enqueue
  <2>3. ASSUME TakeTask(c)
        PROVE  Moves("queued", "loading")
    BY <2>3 DEF TakeTask
  <2>4. ASSUME SaveFails(c)
        PROVE  Moves("saving", "broken")
    BY <2>4 DEF SaveFails
  <2>5. ASSUME CloseSession(c)
        PROVE  Moves("closing", "done")
    BY <2>5 DEF CloseSession
  <2>6. ASSUME ReadEndpoints(c)
        PROVE  Moves("persisted", "completed") \/ Moves("reading", "analyzed")
    BY <2>6 DEF ReadEndpoints
  <2>7. ASSUME Crash(c)
        PROVE  \E from \in PCs : Moves(from, "lost")
    <3>1. pc[c] \in PCs
      BY <1>1 DEF TypeOK
    <3>2. Goto(c, pc[c], "lost") /\ todo' = [todo EXCEPT ![c] = {}]
          /\ UNCHANGED <<events, row, attempt, network>>
      BY <2>7 DEF Crash, Goto
    <3> QED
      BY <3>1, <3>2
  <2>8. ASSUME PersistLog(c), pc'[c] = "enqueuing"
        PROVE  Moves("persisting", "enqueuing") \/ Moves("persisted", "enqueuing")
    <3>1. pc \in [Calls -> PCs]
      BY <1>1 DEF TypeOK
    <3>2. ~Goto(c, "persisting", "persisted")
      BY <2>8, <3>1 DEF Goto
    <3> QED
      BY <2>8, <3>2 DEF PersistLog
  <2>9. {"persisting", "persisted", "completed", "enqueuing", "queued", "loading", "saving",
         "broken", "reading", "analyzed", "closing", "done", "lost"} \subseteq PCs
    BY DEF PCs, Worker
  <2> HIDE DEF Moves
  <2> QED
    BY <2>1, <2>2, <2>3, <2>4, <2>5, <2>6, <2>7, <2>8, <2>9
<1>3. pc[c] = from /\ pc'[c] = to
  BY <1>1, <1>2 DEF Goto, TypeOK
<1>4. /\ \A e, d : Analyses(e, d)' = Analyses(e, d)
      /\ \A event : Subscribed(event) \in SUBSET Endpoints
  BY <1>2 DEF Analyses, Subscribed
<1>5. /\ todo' = todo \/ \E es \in SUBSET Endpoints : todo' = [todo EXCEPT ![c] = es]
      /\ to \notin {"completed", "analyzed"} => todo'[c] = {}
      /\ to = "analyzed" => todo'[c] = Subscribed("call.analyzed")
  BY <1>1, <1>2, <1>3, <1>4 DEF TypeOK, Held
<1>6. Held(c)'
  BY <1>1, <1>2, <1>3, <1>5 DEF Held, Unsaved
<1>7. ASSUME NEW e \in Endpoints
      PROVE  ToldOnce(e, c)' /\ Reached(e, c)'
  <2>1. ToldOnce(e, c) /\ Reached(e, c)
    BY <1>1
  <2>2. ToldOnce(e, c)'
    BY <1>2, <1>3, <1>4, <1>5, <2>1 DEF ToldOnce, Unsaved
  <2>3. Reached(e, c)'
    BY <1>2, <1>3, <1>4, <1>5, <2>1 DEF Reached, Subscribed
  <2> QED
    BY <2>2, <2>3
<1> QED
  BY <1>2, <1>5, <1>6, <1>7, CallGoes

(* The cleanup has committed the log. *)
LEMMA LogPersisted ==
  ASSUME PostInv, NEW c \in Calls, PersistLog(c)
  PROVE  PostInv'
<1> USE DEF row, attempt, network
<1>1. /\ TypeOK /\ Held(c) /\ \A e \in Endpoints : ToldOnce(e, c) /\ Reached(e, c)
      /\ summary[c] \in Nat
  BY DEF PostInv, TypeOK, Attempts
<1>2. CASE pc'[c] = "enqueuing"
  BY <1>2, PlacesChange
<1>3. CASE /\ Goto(c, "persisting", "persisted") /\ logged' = logged \cup {c}
           /\ UNCHANGED <<events, summary, attempt, todo, network>>
  <2>1. /\ pc' = [pc EXCEPT ![c] = "persisted"] /\ pc[c] = "persisting" /\ pc'[c] = "persisted"
        /\ \A e, d : Analyses(e, d)' = Analyses(e, d)
    BY <1>1, <1>3 DEF Goto, TypeOK, Analyses
  <2>2. TypeOK'
    <3>1. pc' \in [Calls -> PCs] /\ logged' \subseteq Calls
      BY <1>1, <1>3, <2>1 DEF TypeOK, PCs
    <3> QED
      BY <1>1, <1>3, <3>1 DEF TypeOK
  <2>3. Held(c)'
    BY <1>1, <1>3, <2>1 DEF Held, Unsaved
  <2>4. \A e \in Endpoints : ToldOnce(e, c)' /\ Reached(e, c)'
    BY <1>1, <1>3, <2>1 DEF ToldOnce, Reached, Unsaved
  <2>5. \A d \in Calls : d # c => pc'[d] = pc[d] /\ (d \in logged' <=> d \in logged)
    BY <1>1, <1>3, <2>1 DEF TypeOK
  <2> QED
    BY <1>1, <1>3, <2>2, <2>3, <2>4, <2>5, CallMoves
<1> QED
  <2>1. PersistLog(c) =>
          \/ pc'[c] = "enqueuing"
          \/ /\ Goto(c, "persisting", "persisted") /\ logged' = logged \cup {c}
             /\ UNCHANGED <<events, summary, attempt, todo, network>>
    BY <1>1 DEF PersistLog, Goto, TypeOK
  <2> QED
    BY <1>2, <1>3, <2>1

(* The task reads the log and asks for an analysis. *)
LEMMA TaskReads ==
  ASSUME PostInv, NEW c \in Calls, LoadLog(c) \/ AskOpenAI(c)
  PROVE  PostInv'
<1> USE DEF row, attempt, network
<1>1. /\ TypeOK /\ Held(c) /\ \A e \in Endpoints : ToldOnce(e, c) /\ Reached(e, c)
      /\ summary[c] \in Attempts /\ summary[c] \in Nat /\ tries[c] + 1 \in Attempts
      /\ tries[c] \in Nat
  BY PostCallAssumption DEF PostInv, TypeOK, Attempts
<1>2. PICK to \in PCs, v \in Attempts :
        /\ pc' = [pc EXCEPT ![c] = to] /\ view' = [view EXCEPT ![c] = v]
        /\ \/ pc[c] = "loading" /\ c \notin logged /\ to = "done" /\ v = summary[c]
           \/ pc[c] = "loading" /\ c \in logged /\ to \in {"asking", "reading"} /\ v = summary[c]
           \/ pc[c] = "asking" /\ to = "saving" /\ v = tries[c] + 1
           \/ pc[c] = "asking" /\ to = "reading" /\ v = view[c]
        /\ UNCHANGED <<events, row, tries, repeated, todo, network>>
  <2>1. CASE LoadLog(c)
    BY <1>1, <2>1 DEF LoadLog, Goto, PCs, Worker
  <2>2. CASE AskOpenAI(c)
    <3>1. view = [view EXCEPT ![c] = view[c]] /\ view[c] \in Attempts
      BY <1>1 DEF TypeOK
    <3> QED
      BY <1>1, <2>2, <3>1 DEF AskOpenAI, Goto, PCs, Worker
  <2> QED
    BY <2>1, <2>2
<1>3. /\ pc'[c] = to /\ view'[c] = v
      /\ \A d \in Calls : d # c => pc'[d] = pc[d] /\ view'[d] = view[d]
      /\ \A e, d : Analyses(e, d)' = Analyses(e, d)
  BY <1>1, <1>2 DEF TypeOK, Analyses
<1>4. TypeOK'
  <2>1. pc' \in [Calls -> PCs] /\ view' \in [Calls -> Attempts]
    BY <1>1, <1>2 DEF TypeOK
  <2> QED
    BY <1>1, <1>2, <2>1 DEF TypeOK
<1>5. Held(c)'
  BY <1>1, <1>2, <1>3 DEF Held, Unsaved
<1>6. \A e \in Endpoints : ToldOnce(e, c)' /\ Reached(e, c)'
  BY <1>1, <1>2, <1>3 DEF ToldOnce, Reached, Unsaved
<1> QED
  BY <1>1, <1>2, <1>3, <1>4, <1>5, <1>6, CallMoves

(* The analysis is committed: it is newer than any before. *)
LEMMA AnalysisSaved ==
  ASSUME PostInv, NEW c \in Calls, SaveAnalysis(c)
  PROVE  PostInv'
<1> USE DEF row, attempt, network
<1>1. /\ TypeOK /\ Held(c) /\ \A e \in Endpoints : ToldOnce(e, c) /\ Reached(e, c)
      /\ summary[c] \in Nat /\ view[c] \in Attempts /\ view[c] \in Nat /\ tries[c] \in Nat
  BY DEF PostInv, TypeOK, Attempts
<1>2. /\ pc[c] = "saving" /\ pc' = [pc EXCEPT ![c] = "reading"]
      /\ summary' = [summary EXCEPT ![c] = view[c]]
      /\ UNCHANGED <<events, logged, attempt, todo, network>>
  BY DEF SaveAnalysis, Goto
<1>3. /\ pc'[c] = "reading" /\ summary'[c] = view[c]
      /\ \A d \in Calls : d # c => pc'[d] = pc[d] /\ summary'[d] = summary[d]
      /\ \A e, d : Analyses(e, d)' = Analyses(e, d)
  BY <1>1, <1>2 DEF TypeOK, Analyses
<1>4. TypeOK'
  <2>1. pc' \in [Calls -> PCs] /\ summary' \in [Calls -> Attempts]
    BY <1>1, <1>2 DEF TypeOK, PCs, Worker
  <2> QED
    BY <1>1, <1>2, <2>1 DEF TypeOK
<1>5. Held(c)' /\ summary[c] <= summary'[c]
  BY <1>1, <1>2, <1>3 DEF Held, Unsaved
<1>6. \A e \in Endpoints : ToldOnce(e, c)' /\ Reached(e, c)'
  BY <1>1, <1>2, <1>3 DEF ToldOnce, Reached, Unsaved
<1> QED
  BY <1>1, <1>2, <1>3, <1>4, <1>5, <1>6, CallMoves

(* The task is put back or dropped. *)
LEMMA TaskRetried ==
  ASSUME PostInv, NEW c \in Calls, Retry(c)
  PROVE  PostInv'
<1> USE DEF row, network
<1>1. /\ TypeOK /\ Held(c) /\ \A e \in Endpoints : ToldOnce(e, c) /\ Reached(e, c)
      /\ summary[c] \in Nat /\ tries[c] \in 0..MaxRetries /\ MaxRetries \in Nat
  BY PostCallAssumption DEF PostInv, TypeOK, Attempts
<1>2. /\ pc[c] \in {"broken", "loading", "reading", "closing"}
      /\ repeated' = repeated \cup {d \in {c} : pc[d] = "closing"}
      /\ UNCHANGED <<events, row, view, todo, network>>
  BY DEF Retry
<1>3. PICK to \in {"queued", "dropped"}, n \in 0..MaxRetries :
        /\ pc' = [pc EXCEPT ![c] = to] /\ tries' = [tries EXCEPT ![c] = n]
        /\ to = "queued" => n = tries[c] + 1
        /\ to = "dropped" => n = tries[c]
  <2>1. tries = [tries EXCEPT ![c] = tries[c]]
    BY <1>1 DEF TypeOK
  <2> QED
    BY <1>1, <2>1 DEF Retry
<1>4. /\ pc'[c] = to /\ tries'[c] = n
      /\ \A d \in Calls : d # c =>
           /\ pc'[d] = pc[d] /\ tries'[d] = tries[d]
           /\ d \in repeated' <=> d \in repeated
      /\ \A e, d : Analyses(e, d)' = Analyses(e, d)
      /\ c \notin repeated' => c \notin repeated /\ pc[c] # "closing"
  BY <1>1, <1>2, <1>3 DEF TypeOK, Analyses
<1>5. TypeOK'
  <2>1. pc' \in [Calls -> PCs] /\ tries' \in [Calls -> 0..MaxRetries] /\ repeated' \subseteq Calls
    BY <1>1, <1>2, <1>3 DEF TypeOK, PCs
  <2> QED
    BY <1>1, <1>2, <2>1 DEF TypeOK
<1>6. Held(c)'
  BY <1>1, <1>2, <1>3, <1>4 DEF Held, Unsaved
<1>7. \A e \in Endpoints : ToldOnce(e, c)' /\ Reached(e, c)'
  BY <1>1, <1>2, <1>3, <1>4 DEF ToldOnce, Reached, Unsaved
<1> QED
  BY <1>1, <1>2, <1>4, <1>5, <1>6, <1>7, CallMoves

(* An endpoint comes or goes. *)
LEMMA EndpointChanges ==
  ASSUME PostInv, NEW e \in Endpoints,
         DeleteEndpoint(e) \/ \E es \in SUBSET Events \ {{}} : CreateEndpoint(e, es)
  PROVE  PostInv'
<1> DEFINE gone == {d \in Calls : pc[d] \in {"analyzed", "closing", "done", "dropped", "lost"}}
<1> USE DEF row, attempt
<1>1. PICK es \in SUBSET Events :
        /\ events' = [events EXCEPT ![e] = es]
        /\ UNCHANGED <<logged, summary, pc, attempt, todo, slow, received, late>>
        /\ \/ es = {} /\ missed' = missed
           \/ missed' = missed \cup {<<e, d>> : d \in gone}
  BY DEF DeleteEndpoint, CreateEndpoint, network
<1>2. /\ TypeOK /\ \A f, d : Analyses(f, d)' = Analyses(f, d)
      /\ \A f \in Endpoints : f # e => events'[f] = events[f]
      /\ events'[e] = es /\ missed \subseteq missed'
  BY <1>1 DEF PostInv, TypeOK, Analyses
<1>3. TypeOK'
  BY <1>1, <1>2 DEF TypeOK
<1>4. SlowHold' /\ ToldIsStored'
  BY <1>1, <1>2 DEF PostInv, SlowHold, ToldIsStored
<1>5. ASSUME NEW d \in Calls
      PROVE  Held(d)'
  BY <1>1 DEF PostInv, Held
<1>6. ASSUME NEW f \in Endpoints, NEW d \in Calls
      PROVE  ToldOnce(f, d)' /\ Reached(f, d)'
  <2>1. ToldOnce(f, d) /\ Reached(f, d)
    BY DEF PostInv
  <2>2. ToldOnce(f, d)'
    BY <1>1, <1>2, <2>1 DEF ToldOnce
  <2>3. Reached(f, d)'
    BY <1>1, <1>2, <2>1 DEF Reached
  <2> QED
    BY <2>2, <2>3
<1> QED
  BY <1>3, <1>4, <1>5, <1>6 DEF PostInv

(* What a dispatch sends is the completion, or what the log holds. *)
LEMMA BodyFacts ==
  ASSUME PostInv, NEW c \in Calls, NEW e \in todo[c]
  PROVE  /\ e \in Endpoints /\ Body(c) \in Message
         /\ pc[c] \in {"completed", "analyzed"}
         /\ Body(c).event = "call.analyzed" =>
              pc[c] = "analyzed" /\ c \in logged /\ Body(c).summary = summary[c]
         /\ Body(c).event # "call.analyzed" => pc[c] = "completed"
<1>1. TypeOK /\ Held(c)
  BY DEF PostInv
<1>2. e \in Endpoints /\ pc[c] \in {"completed", "analyzed"} /\ view[c] \in Attempts
  BY <1>1 DEF TypeOK, Held
<1>3. Body(c) \in Message
  BY <1>2, PostCallAssumption DEF Body, Message, Events, Attempts
<1> QED
  BY <1>1, <1>2, <1>3 DEF Body, Held

(* A message that carries no more than the log holds is received, and the
   order of what was told is kept unless a POST was given up. *)
LEMMA ReceivedIsStored ==
  ASSUME PostInv, NEW e \in Endpoints, NEW c \in Calls, NEW m \in Message, Receive(e, c, m),
         UNCHANGED <<logged, summary, late>>,
         m.event = "call.analyzed" =>
           /\ c \in logged /\ m.summary <= summary[c]
           /\ <<e, c>> \notin late => m.summary = summary[c]
  PROVE  ToldIsStored'
<1> SUFFICES ASSUME NEW f \in Endpoints, NEW d \in Calls, NEW n \in Analyses(f, d)'
             PROVE  /\ d \in logged
                    /\ received'[f][d][n].summary <= summary[d]
                    /\ <<f, d>> \notin late =>
                         \A k \in Analyses(f, d)' : k < n =>
                           received'[f][d][k].summary <= received'[f][d][n].summary
  BY DEF ToldIsStored
<1>1. TypeOK /\ ToldIsStored
  BY DEF PostInv
<1>2. CASE <<f, d>> # <<e, c>>
  <2>1. received'[f][d] = received[f][d] /\ Analyses(f, d)' = Analyses(f, d)
    BY <1>1, <1>2, Receives
  <2> QED
    BY <1>1, <2>1 DEF ToldIsStored
<1>3. CASE f = e /\ d = c
  <2> DEFINE s == received[e][c]
             t == received'[e][c]
  <2>1. /\ Len(s) \in Nat
        /\ \A k \in Analyses(e, c) : k \in Nat /\ k <= Len(s) /\ t[k] = s[k]
        /\ t[Len(s) + 1] = m
        /\ m.event # "call.analyzed" => Analyses(e, c)' = Analyses(e, c)
        /\ m.event = "call.analyzed" => Analyses(e, c)' = Analyses(e, c) \cup {Len(s) + 1}
    BY <1>1, Receives
  <2> HIDE DEF s, t
  <2>2. \A k \in Analyses(e, c) :
          /\ c \in logged /\ t[k].summary <= summary[c]
          /\ <<e, c>> \notin late =>
               \A j \in Analyses(e, c) : j < k => t[j].summary <= t[k].summary
    BY <1>1, <2>1 DEF ToldIsStored, s
  <2>3. /\ c \in logged /\ t[n].summary <= summary[c]
        /\ <<e, c>> \notin late =>
             \A k \in Analyses(e, c)' : k < n => t[k].summary <= t[n].summary
    <3>1. CASE n \in Analyses(e, c)
      <4>1. \A k \in Analyses(e, c)' : k < n => k \in Analyses(e, c)
        BY <2>1, <3>1
      <4> QED
        BY <2>2, <3>1, <4>1
    <3>2. CASE n = Len(s) + 1 /\ m.event = "call.analyzed"
      <4>1. \A k \in Analyses(e, c)' : k < n => k \in Analyses(e, c)
        BY <2>1, <3>2
      <4> QED
        BY <2>1, <2>2, <3>2, <4>1
    <3> QED
      BY <1>3, <2>1, <3>1, <3>2
  <2> QED
    BY <1>3, <2>3 DEF t
<1> QED
  BY <1>2, <1>3

(* One POST of a dispatch ends: it is answered, fails or is given up. *)
LEMMA PostEnds ==
  ASSUME PostInv, NEW c \in Calls, NEW e \in Endpoints,
         PostAnswered(c, e) \/ PostFails(c, e) \/ PostGivenUp(c, e)
  PROVE  PostInv'
<1> USE DEF row, attempt
<1> DEFINE m == Body(c)
<1>1. /\ e \in todo[c] /\ todo' = [todo EXCEPT ![c] = @ \ {e}]
      /\ UNCHANGED <<events, logged, summary, pc, tries, view, repeated>>
      /\ missed \subseteq missed' /\ late \subseteq late'
  BY DEF PostAnswered, PostFails, PostGivenUp
<1>2. /\ TypeOK /\ ToldIsStored /\ SlowHold /\ Held(c) /\ summary[c] \in Nat
      /\ m \in Message /\ pc[c] \in {"completed", "analyzed"}
      /\ m.event = "call.analyzed" => pc[c] = "analyzed" /\ c \in logged /\ m.summary = summary[c]
      /\ m.event # "call.analyzed" => pc[c] = "completed"
  BY <1>1, BodyFacts DEF PostInv, TypeOK, Attempts
<1> HIDE DEF m
<1>3. /\ todo' \in [Calls -> SUBSET Endpoints] /\ todo'[c] = todo[c] \ {e}
      /\ \A d \in Calls : d # c => todo'[d] = todo[d]
  BY <1>1, <1>2 DEF TypeOK
<1>4. \A d \in Calls : Held(d)'
  BY <1>1, <1>3 DEF PostInv, Held
<1>5. CASE PostAnswered(c, e)
  <2>1. Receive(e, c, m) /\ UNCHANGED <<slow, missed, late>>
    BY <1>5 DEF PostAnswered, m
  <2>2. /\ received' \in [Endpoints -> [Calls -> Seq(Message)]]
        /\ \A f \in Endpoints, d \in Calls : <<f, d>> # <<e, c>> =>
             received'[f][d] = received[f][d] /\ Analyses(f, d)' = Analyses(f, d)
        /\ Len(received'[e][c]) = Len(received[e][c]) + 1
        /\ received'[e][c][Len(received[e][c]) + 1] = m
        /\ m.event # "call.analyzed" => Analyses(e, c)' = Analyses(e, c)
        /\ m.event = "call.analyzed" =>
             Analyses(e, c)' = Analyses(e, c) \cup {Len(received[e][c]) + 1}
    BY <1>2, <2>1, Receives
  <2>3. TypeOK'
    BY <1>1, <1>2, <1>3, <2>1, <2>2 DEF TypeOK
  <2>4. SlowHold'
    BY <1>1, <1>2, <2>1 DEF SlowHold
  <2>5. ToldIsStored'
    <3>1. m.event = "call.analyzed" =>
            /\ c \in logged /\ m.summary <= summary[c]
            /\ <<e, c>> \notin late => m.summary = summary[c]
      BY <1>2
    <3>2. UNCHANGED <<logged, summary, late>>
      BY <1>1, <2>1
    <3> QED
      BY <1>2, <2>1, <3>1, <3>2, ReceivedIsStored
  <2>6. ASSUME NEW f \in Endpoints, NEW d \in Calls
        PROVE  ToldOnce(f, d)' /\ Reached(f, d)'
    <3>1. ToldOnce(f, d) /\ Reached(f, d) /\ ToldOnce(e, c) /\ Reached(e, c)
      BY DEF PostInv
    <3>2. CASE <<f, d>> # <<e, c>>
      <4>1. received'[f][d] = received[f][d] /\ Analyses(f, d)' = Analyses(f, d)
            /\ (f \in todo'[d] <=> f \in todo[d])
        BY <1>3, <2>2, <3>2
      <4> QED
        BY <1>1, <2>1, <3>1, <4>1 DEF ToldOnce, Reached
    <3>3. CASE f = e /\ d = c
      <4>1. ToldOnce(e, c)'
        <5> SUFFICES ASSUME <<e, c>> \notin late, c \notin repeated
                     PROVE  /\ Analyses(e, c)' \subseteq {Len(received'[e][c])}
                            /\ pc'[c] \in Unsaved \cup {"reading"} => Analyses(e, c)' = {}
                            /\ e \in todo'[c] => Analyses(e, c)' = {}
                            /\ \A n \in Analyses(e, c)' : received'[e][c][n].summary = summary'[c]
          BY <1>1, <2>1 DEF ToldOnce
        <5>1. Analyses(e, c) = {}
          BY <1>1, <3>1 DEF ToldOnce
        <5>2. CASE m.event = "call.analyzed"
          BY <1>1, <1>2, <1>3, <2>2, <5>1, <5>2 DEF Unsaved
        <5>3. CASE m.event # "call.analyzed"
          BY <2>2, <5>1, <5>3
        <5> QED
          BY <5>2, <5>3
      <4>2. Reached(e, c)'
        BY <1>1, <1>2, <1>3, <2>1, <2>2, <3>1 DEF Reached
      <4> QED
        BY <3>3, <4>1, <4>2
    <3> QED
      BY <3>2, <3>3
  <2> QED
    BY <1>4, <2>3, <2>4, <2>5, <2>6 DEF PostInv
<1>6. CASE PostFails(c, e) \/ PostGivenUp(c, e)
  <2>1. /\ received' = received /\ \A f, d : Analyses(f, d)' = Analyses(f, d)
        /\ \/ missed' = missed \cup {<<e, c>>} /\ UNCHANGED <<slow, late>>
           \/ /\ slow' = slow \cup {<<e, c, m>>} /\ late' = late \cup {<<e, c>>}
              /\ missed' = missed
    BY <1>6 DEF PostFails, PostGivenUp, Analyses, m
  <2>2. TypeOK'
    BY <1>1, <1>2, <1>3, <2>1 DEF TypeOK
  <2>3. SlowHold'
    <3> SUFFICES ASSUME NEW x \in slow'
                 PROVE  /\ <<x[1], x[2]>> \in late'
                        /\ x[3].event = "call.analyzed" => x[2] \in logged /\ x[3].summary <= summary[x[2]]
      BY <1>1 DEF SlowHold
    <3>1. CASE x \in slow
      BY <1>1, <1>2, <3>1 DEF SlowHold
    <3>2. CASE x = <<e, c, m>> /\ late' = late \cup {<<e, c>>}
      BY <1>2, <3>2
    <3> QED
      BY <2>1, <3>1, <3>2
  <2>4. ToldIsStored'
    BY <1>1, <1>2, <2>1 DEF ToldIsStored
  <2>5. ASSUME NEW f \in Endpoints, NEW d \in Calls
        PROVE  ToldOnce(f, d)' /\ Reached(f, d)'
    <3>1. ToldOnce(f, d) /\ Reached(f, d)
      BY DEF PostInv
    <3>2. ToldOnce(f, d)'
      BY <1>1, <1>3, <2>1, <3>1 DEF ToldOnce
    <3>3. Reached(f, d)'
      BY <1>1, <1>3, <2>1, <3>1 DEF Reached
    <3> QED
      BY <3>2, <3>3
  <2> QED
    BY <1>4, <2>2, <2>3, <2>4, <2>5 DEF PostInv
<1> QED
  BY <1>5, <1>6

(* A POST that was given up arrives, or never does. *)
LEMMA SlowEnds ==
  ASSUME PostInv, NEW x \in slow, SlowPostEnds(x)
  PROVE  PostInv'
<1> USE DEF row, attempt
<1> DEFINE e == x[1]
           c == x[2]
           m == x[3]
<1>1. /\ slow' = slow \ {x} /\ (Receive(e, c, m) \/ UNCHANGED received)
      /\ UNCHANGED <<events, logged, summary, pc, tries, view, repeated, todo, missed, late>>
  BY DEF SlowPostEnds
<1>2. TypeOK /\ ToldIsStored /\ SlowHold
  BY DEF PostInv
<1>3. /\ e \in Endpoints /\ c \in Calls /\ m \in Message /\ <<e, c>> \in late
      /\ m.event = "call.analyzed" => c \in logged /\ m.summary <= summary[c]
  <2>1. x \in Endpoints \X Calls \X Message
    BY <1>2 DEF TypeOK
  <2>2. /\ <<x[1], x[2]>> \in late
        /\ x[3].event = "call.analyzed" => x[2] \in logged /\ x[3].summary <= summary[x[2]]
    BY <1>2 DEF SlowHold
  <2> QED
    BY <2>1, <2>2
<1> HIDE DEF e, c, m
<1>4. SlowHold' /\ \A d \in Calls : Held(d)'
  BY <1>1, <1>2 DEF SlowHold, PostInv, Held
<1>5. /\ received' \in [Endpoints -> [Calls -> Seq(Message)]]
      /\ \A f \in Endpoints, d \in Calls : <<f, d>> # <<e, c>> =>
           received'[f][d] = received[f][d] /\ Analyses(f, d)' = Analyses(f, d)
      /\ \/ received' = received
         \/ m.event # "call.analyzed" => Analyses(e, c)' = Analyses(e, c)
      /\ \/ Analyses(e, c)' = Analyses(e, c)
         \/ Analyses(e, c)' = Analyses(e, c) \cup {Len(received[e][c]) + 1}
  <2>1. CASE Receive(e, c, m)
    BY <1>2, <1>3, <2>1, Receives
  <2>2. CASE UNCHANGED received
    BY <1>2, <2>2 DEF TypeOK, Analyses
  <2> QED
    BY <1>1, <2>1, <2>2
<1>6. TypeOK'
  BY <1>1, <1>2, <1>5 DEF TypeOK
<1>7. ToldIsStored'
  <2>1. CASE Receive(e, c, m)
    BY <1>1, <1>3, <2>1, ReceivedIsStored
  <2>2. CASE UNCHANGED received
    BY <1>1, <1>2, <2>2 DEF ToldIsStored, Analyses
  <2> QED
    BY <1>1, <2>1, <2>2
<1>8. ASSUME NEW f \in Endpoints, NEW d \in Calls
      PROVE  ToldOnce(f, d)' /\ Reached(f, d)'
  <2>1. ToldOnce(f, d) /\ Reached(f, d)
    BY DEF PostInv
  <2>2. CASE <<f, d>> # <<e, c>>
    BY <1>1, <1>5, <2>1, <2>2 DEF ToldOnce, Reached
  <2>3. CASE f = e /\ d = c
    BY <1>1, <1>3, <2>3 DEF ToldOnce, Reached
  <2> QED
    BY <2>2, <2>3
<1> QED
  BY <1>4, <1>6, <1>7, <1>8 DEF PostInv

(* The invariant holds in every state. *)
LEMMA PostInvHolds == Spec => []PostInv
<1>1. Init => PostInv
  <2> SUFFICES ASSUME Init
               PROVE  PostInv
    OBVIOUS
  <2>1. \A e \in Endpoints, c \in Calls : received[e][c] = <<>> /\ Analyses(e, c) = {}
    BY DEF Init, Analyses
  <2>2. TypeOK
    <3>1. <<>> \in Seq(Message)
      OBVIOUS
    <3>2. received \in [Endpoints -> [Calls -> Seq(Message)]]
      BY <3>1 DEF Init
    <3>3. 0 \in Attempts /\ 0 \in 0..MaxRetries /\ "persisting" \in PCs
      BY PostCallAssumption DEF Attempts, PCs
    <3> QED
      BY <3>2, <3>3 DEF Init, TypeOK
  <2>3. SlowHold /\ ToldIsStored
    BY <2>1 DEF Init, SlowHold, ToldIsStored
  <2>4. \A c \in Calls : Held(c)
    BY DEF Init, Held
  <2>5. \A e \in Endpoints, c \in Calls : ToldOnce(e, c) /\ Reached(e, c)
    BY <2>1 DEF Init, ToldOnce, Reached
  <2> QED
    BY <2>2, <2>3, <2>4, <2>5 DEF PostInv
<1>2. ASSUME PostInv, [Next]_vars
      PROVE  PostInv'
  <2>1. ASSUME NEW c \in Calls, Run(c) \/ Crash(c)
        PROVE  PostInv'
    <3>1. CASE Dispatch(c)
      <4>1. ASSUME NEW e \in Endpoints, PostAnswered(c, e) \/ PostFails(c, e) \/ PostGivenUp(c, e)
            PROVE  PostInv'
        BY <1>2, <4>1, PostEnds
      <4>2. ReadEndpoints(c) \/ EventSent(c) => PostInv'
        BY <1>2, PlacesChange
      <4> QED
        BY <3>1, <4>1, <4>2 DEF Dispatch
    <3>2. CASE Task(c)
      BY <1>2, <3>2, PlacesChange, TaskReads, AnalysisSaved, TaskRetried DEF Task
    <3>3. PersistLog(c) => PostInv'
      BY <1>2, LogPersisted
    <3>4. Enqueue(c) \/ TakeTask(c) \/ Crash(c) => PostInv'
      BY <1>2, PlacesChange
    <3> QED
      BY <2>1, <3>1, <3>2, <3>3, <3>4 DEF Run
  <2>2. ASSUME NEW e \in Endpoints,
               DeleteEndpoint(e) \/ \E es \in SUBSET Events \ {{}} : CreateEndpoint(e, es)
        PROVE  PostInv'
    BY <1>2, <2>2, EndpointChanges
  <2>3. ASSUME NEW x \in slow, SlowPostEnds(x)
        PROVE  PostInv'
    BY <1>2, <2>3, SlowEnds
  <2>4. CASE UNCHANGED vars
    <3>1. TypeOK' /\ SlowHold' /\ ToldIsStored'
      BY <1>2, <2>4 DEF vars, PostInv, TypeOK, SlowHold, ToldIsStored, Analyses
    <3>2. ASSUME NEW c \in Calls
          PROVE  Held(c)'
      BY <1>2, <2>4 DEF vars, PostInv, Held
    <3>3. ASSUME NEW e \in Endpoints, NEW c \in Calls
          PROVE  ToldOnce(e, c)' /\ Reached(e, c)'
      BY <1>2, <2>4 DEF vars, PostInv, ToldOnce, Reached, Analyses
    <3> QED
      BY <3>1, <3>2, <3>3 DEF PostInv
  <2> QED
    BY <1>2, <2>1, <2>2, <2>3, <2>4 DEF Next
<1> QED
  BY <1>1, <1>2, PTL DEF Spec

-------------------------------------------------------------------------------
(* The theorems *)

(* Every variable has its type. *)
THEOREM TypeCorrect == Spec => []TypeOK
<1>1. PostInv => TypeOK
  BY DEF PostInv
<1> QED
  BY <1>1, PostInvHolds, PTL

(* No endpoint is told an analysis that the log never held, nor, in order
   of the calls that were not given up, an older one after a newer one. *)
THEOREM ToldAreStored == Spec => []ToldIsStored
<1>1. PostInv => ToldIsStored
  BY DEF PostInv
<1> QED
  BY <1>1, PostInvHolds, PTL

(* An endpoint hears of a call's analysis once and last, and hears what the
   log goes on to say, through retries, crashes and failures of the
   database, unless a POST to it was given up or an attempt failed after it
   had sent. *)
THEOREM AnalysesComeOnceAndLast == Spec => []AnalysisToldOnceAndLast
<1>1. ASSUME PostInv
      PROVE  AnalysisToldOnceAndLast
  <2> SUFFICES ASSUME NEW e \in Endpoints, NEW c \in Calls,
                      <<e, c>> \notin late, c \notin repeated
               PROVE  /\ Cardinality(Analyses(e, c)) <= 1
                      /\ Analyses(e, c) \subseteq {Len(received[e][c])}
                      /\ \A n \in Analyses(e, c) : received[e][c][n].summary = summary[c]
    BY DEF AnalysisToldOnceAndLast
  <2> DEFINE A == Analyses(e, c)
             last == Len(received[e][c])
  <2>1. /\ A \subseteq {last}
        /\ \A n \in A : received[e][c][n].summary = summary[c]
    BY <1>1 DEF PostInv, ToldOnce
  <2> HIDE DEF A, last
  <2>2. IsFiniteSet({last}) /\ Cardinality({last}) = 1
    BY FS_Singleton
  <2>3. Cardinality(A) <= 1
    BY <2>1, <2>2, FS_Subset
  <2> QED
    BY <2>1, <2>3 DEF A, last
<1> QED
  BY <1>1, PostInvHolds, PTL

(* A finished task has told every endpoint that subscribed in time and is
   still there, whatever happened to the POSTs to the others. *)
THEOREM FailuresStayApart == Spec => []FailureStaysWithItsEndpoint
<1>1. PostInv => FailureStaysWithItsEndpoint
  BY DEF PostInv, TypeOK, Reached, FailureStaysWithItsEndpoint, Subscribed
<1> QED
  BY <1>1, PostInvHolds, PTL

-------------------------------------------------------------------------------
(* The feed of an endpoint *)

(* Until the completion is told there is nothing an endpoint has heard of
   the call or may still hear. *)
Silent(e, c) ==
  /\ received[e][c] = <<>>
  /\ \A x \in slow : ~(x[1] = e /\ x[2] = c)

FeedInv ==
  \A c \in Calls :
    /\ pc[c] \in {"persisted", "completed"} => c \in logged
    /\ \A e \in Endpoints :
         \/ pc[c] \in {"persisting", "persisted"}
         \/ pc[c] = "completed" /\ e \in todo[c]
         => Silent(e, c)

(* The steps of a call that tell nobody anything. *)
Untold(c) ==
  \/ PersistLog(c) \/ Enqueue(c) \/ TakeTask(c) \/ ReadEndpoints(c) \/ EventSent(c)
  \/ Task(c) \/ Crash(c)

(* Where such a step leads. *)
LEMMA UntoldMoves ==
  ASSUME TypeOK, NEW c \in Calls, Untold(c)
  PROVE  /\ UNCHANGED network
         /\ logged \subseteq logged'
         /\ \A d \in Calls : d # c => pc'[d] = pc[d] /\ todo'[d] = todo[d]
         /\ pc'[c] # "persisting"
         /\ pc'[c] = "persisted" => pc[c] = "persisting" /\ c \in logged'
         /\ pc'[c] = "completed" => pc[c] = "persisted"
<1> USE DEF network, row, attempt, Goto, TypeOK
<1>1. CASE PersistLog(c) \/ Enqueue(c) \/ TakeTask(c)
  BY <1>1 DEF PersistLog, Enqueue, TakeTask
<1>2. CASE ReadEndpoints(c) \/ EventSent(c)
  BY <1>2 DEF ReadEndpoints, EventSent
<1>3. CASE LoadLog(c) \/ AskOpenAI(c) \/ SaveAnalysis(c) \/ SaveFails(c) \/ CloseSession(c)
  BY <1>3 DEF LoadLog, AskOpenAI, SaveAnalysis, SaveFails, CloseSession
<1>4. CASE Retry(c) \/ Crash(c)
  BY <1>4 DEF Retry, Crash
<1> QED
  BY <1>1, <1>2, <1>3, <1>4 DEF Untold, Task

(* The completion of a call is told before anything else of it. *)
LEMMA CompletionIsFirst ==
  ASSUME PostInv, FeedInv, [Next]_vars
  PROVE  FeedInv'
<1>1. TypeOK
  BY DEF PostInv
<1>2. ASSUME NEW c \in Calls, Untold(c)
      PROVE  FeedInv'
  <2>1. /\ received' = received /\ slow' = slow /\ logged \subseteq logged'
        /\ \A d \in Calls : d # c => pc'[d] = pc[d] /\ todo'[d] = todo[d]
        /\ pc'[c] # "persisting"
        /\ pc'[c] = "persisted" => pc[c] = "persisting" /\ c \in logged'
        /\ pc'[c] = "completed" => pc[c] = "persisted"
    BY <1>1, <1>2, UntoldMoves DEF network
  <2> QED
    BY <2>1 DEF FeedInv, Silent
<1>3. ASSUME NEW c \in Calls, NEW e \in Endpoints,
             PostAnswered(c, e) \/ PostFails(c, e) \/ PostGivenUp(c, e)
      PROVE  FeedInv'
  <2>1. /\ e \in todo[c] /\ todo' = [todo EXCEPT ![c] = @ \ {e}]
        /\ logged' = logged /\ pc' = pc
        /\ received' = received \/ received' = [received EXCEPT ![e][c] = Append(@, Body(c))]
        /\ slow' = slow \/ slow' = slow \cup {<<e, c, Body(c)>>}
    BY <1>3 DEF PostAnswered, PostFails, PostGivenUp, Receive, row
  <2>2. pc[c] \in {"completed", "analyzed"}
    BY <2>1, BodyFacts
  <2>3. \A f \in Endpoints, d \in Calls : <<f, d>> # <<e, c>> /\ Silent(f, d) => Silent(f, d)'
    <3>1. \A f \in Endpoints, d \in Calls : <<f, d>> # <<e, c>> => received'[f][d] = received[f][d]
      BY <1>1, <2>1 DEF TypeOK
    <3> QED
      BY <2>1, <3>1 DEF Silent
  <2>4. \A f \in Endpoints, d \in Calls : f \in todo'[d] => f \in todo[d] /\ <<f, d>> # <<e, c>>
    BY <1>1, <2>1 DEF TypeOK
  <2> QED
    BY <2>1, <2>2, <2>3, <2>4 DEF FeedInv
<1>4. ASSUME NEW x \in slow, SlowPostEnds(x)
      PROVE  FeedInv'
  <2>1. /\ UNCHANGED <<logged, pc, todo>> /\ slow' \subseteq slow
        /\ received' = received \/ received' = [received EXCEPT ![x[1]][x[2]] = Append(@, x[3])]
    BY <1>4 DEF SlowPostEnds, Receive, row
  <2>2. x[1] \in Endpoints /\ x[2] \in Calls
    BY <1>1 DEF TypeOK
  <2>3. ASSUME NEW f \in Endpoints, NEW d \in Calls, Silent(f, d)
        PROVE  Silent(f, d)'
    <3>1. f # x[1] \/ d # x[2]
      BY <2>3 DEF Silent
    <3>2. received'[f][d] = received[f][d]
      BY <1>1, <2>1, <2>2, <3>1 DEF TypeOK
    <3> QED
      BY <2>1, <2>3, <3>2 DEF Silent
  <2> QED
    BY <2>1, <2>3 DEF FeedInv
<1>5. ASSUME UNCHANGED <<logged, pc, todo, slow, received>>
      PROVE  FeedInv'
  BY <1>5 DEF FeedInv, Silent
<1>6. ASSUME NEW e \in Endpoints,
             DeleteEndpoint(e) \/ \E es \in SUBSET Events \ {{}} : CreateEndpoint(e, es)
      PROVE  FeedInv'
  BY <1>5, <1>6 DEF DeleteEndpoint, CreateEndpoint, row, network
<1>7. CASE UNCHANGED vars
  BY <1>5, <1>7 DEF vars
<1> QED
  BY <1>2, <1>3, <1>4, <1>6, <1>7 DEF Next, Run, Dispatch, Untold

(* What a dispatch sends may be sent. *)
LEMMA BodyIsDue ==
  ASSUME PostInv, FeedInv, NEW c \in Calls, NEW e \in todo[c]
  PROVE  /\ Body(c) \in {Feed!Completion, Feed!Analysis(summary[c])}
         /\ Feed!Due(e, c, Body(c))
<1>1. /\ e \in Endpoints /\ Body(c) \in Message /\ pc[c] \in {"completed", "analyzed"}
      /\ Body(c).event = "call.analyzed" =>
           pc[c] = "analyzed" /\ c \in logged /\ Body(c).summary = summary[c]
      /\ Body(c).event # "call.analyzed" => pc[c] = "completed"
  BY BodyFacts
<1>2. CASE pc[c] = "completed"
  <2>1. Body(c) = Feed!Completion
    BY <1>2 DEF Body, Feed!Completion
  <2>2. c \in logged /\ Silent(e, c)
    BY <1>1, <1>2 DEF FeedInv
  <2> QED
    BY <2>1, <2>2 DEF Feed!Due, Silent
<1>3. CASE pc[c] = "analyzed"
  <2>1. Body(c).event = "call.analyzed"
    BY <1>1, <1>3
  <2>2. Body(c) = Feed!Analysis(summary[c])
    BY <1>1, <1>3, <2>1 DEF Body, Feed!Analysis
  <2>3. Feed!KnowsAnalysis(e, c) => c \in repeated \/ <<e, c>> \in late
    BY <1>1, <1>3 DEF PostInv, ToldOnce, Analyses, Feed!KnowsAnalysis
  <2> QED
    BY <1>1, <2>1, <2>2, <2>3 DEF Feed!Due
<1> QED
  BY <1>1, <1>2, <1>3

(* The steps of a call that tell nobody anything store its log or its
   analysis, repeat its work, or are nobody's business. *)
LEMMA UntoldIsFeed ==
  ASSUME PostInv, NEW c \in Calls, Untold(c)
  PROVE  Feed!FeedNext \/ UNCHANGED Feed!feedVars
<1> USE DEF row, attempt, network
<1>1. TypeOK /\ Held(c)
  BY DEF PostInv
<1>2. CASE PersistLog(c)
  BY <1>2 DEF PersistLog, Feed!FeedNext, Feed!StoreLog, Feed!feedVars
<1>3. CASE SaveAnalysis(c)
  <2>1. /\ pc[c] = "saving" /\ summary' = [summary EXCEPT ![c] = view[c]]
        /\ UNCHANGED <<logged, slow, received, late, repeated>>
    BY <1>3 DEF SaveAnalysis, Goto
  <2>2. /\ c \in logged /\ view[c] = tries[c] + 1 /\ summary[c] <= tries[c]
        /\ view[c] \in Attempts /\ summary[c] \in Nat /\ tries[c] \in Nat
    BY <1>1, <2>1 DEF Held, Unsaved, TypeOK, Attempts
  <2>3. Feed!StoreAnalysis(c, view[c])
    BY <2>1, <2>2 DEF Feed!StoreAnalysis
  <2> QED
    BY <2>2, <2>3 DEF Feed!FeedNext
<1>4. CASE Retry(c)
  <2>1. CASE pc[c] = "closing"
    <3>1. c \in logged /\ repeated' = repeated \cup {c}
      BY <1>1, <1>4, <2>1 DEF Held, Retry
    <3>2. Feed!Repeat(c)
      BY <1>4, <3>1 DEF Retry, Feed!Repeat
    <3> QED
      BY <3>2 DEF Feed!FeedNext
  <2>2. CASE pc[c] # "closing"
    <3>1. repeated' = repeated
      BY <1>4, <2>2 DEF Retry
    <3> QED
      BY <1>4, <3>1 DEF Retry, Feed!feedVars
  <2> QED
    BY <2>1, <2>2
<1>5. CASE Enqueue(c) \/ TakeTask(c) \/ ReadEndpoints(c) \/ EventSent(c) \/ Crash(c)
  BY <1>5 DEF Enqueue, TakeTask, ReadEndpoints, EventSent, Crash, Feed!feedVars
<1>6. CASE LoadLog(c) \/ AskOpenAI(c) \/ SaveFails(c) \/ CloseSession(c)
  BY <1>6 DEF LoadLog, AskOpenAI, SaveFails, CloseSession, Feed!feedVars
<1> QED
  BY <1>2, <1>3, <1>4, <1>5, <1>6 DEF Untold, Task

(* Through retries, crashes, changes of the endpoints and failures on both
   sides, what an endpoint receives of a call is what the feed promises: the
   completion first, then what the log says, once unless the task was
   repeated after its dispatch or a POST to the endpoint was given up. *)
THEOREM EndpointsAreFed == Spec => FeedSpecHolds
<1>1. Init => Feed!FeedInit /\ FeedInv
  BY DEF Init, Feed!FeedInit, FeedInv, Silent
<1>2. ASSUME PostInv, FeedInv, [Next]_vars
      PROVE  Feed!FeedNext \/ UNCHANGED Feed!feedVars
  <2> USE DEF row, attempt, network
  <2>1. ASSUME NEW c \in Calls, Untold(c)
        PROVE  Feed!FeedNext \/ UNCHANGED Feed!feedVars
    BY <1>2, <2>1, UntoldIsFeed
  <2>2. ASSUME NEW c \in Calls, NEW e \in Endpoints,
               PostAnswered(c, e) \/ PostFails(c, e) \/ PostGivenUp(c, e)
        PROVE  Feed!FeedNext \/ UNCHANGED Feed!feedVars
    <3>1. /\ Body(c) \in {Feed!Completion, Feed!Analysis(summary[c])}
          /\ Feed!Due(e, c, Body(c))
      BY <1>2, <2>2, BodyIsDue DEF PostAnswered, PostFails, PostGivenUp
    <3>2. CASE PostAnswered(c, e)
      <4>1. Feed!Deliver(e, c)
        BY <3>1, <3>2 DEF PostAnswered, Receive, Feed!Deliver
      <4> QED
        BY <4>1 DEF Feed!FeedNext
    <3>3. CASE PostFails(c, e)
      BY <3>3 DEF PostFails, Feed!feedVars
    <3>4. CASE PostGivenUp(c, e)
      <4>1. Feed!Delay(e, c)
        BY <3>1, <3>4 DEF PostGivenUp, Feed!Delay
      <4> QED
        BY <4>1 DEF Feed!FeedNext
    <3> QED
      BY <2>2, <3>2, <3>3, <3>4
  <2>3. ASSUME NEW x \in slow, SlowPostEnds(x)
        PROVE  Feed!FeedNext
    BY <2>3 DEF SlowPostEnds, Receive, Feed!FeedNext, Feed!Settle
  <2>4. ASSUME NEW e \in Endpoints,
               DeleteEndpoint(e) \/ \E es \in SUBSET Events \ {{}} : CreateEndpoint(e, es)
        PROVE  UNCHANGED Feed!feedVars
    BY <2>4 DEF DeleteEndpoint, CreateEndpoint, Feed!feedVars
  <2>5. CASE UNCHANGED vars
    BY <2>5 DEF vars, Feed!feedVars
  <2> QED
    BY <1>2, <2>1, <2>2, <2>3, <2>4, <2>5 DEF Next, Run, Dispatch, Untold
<1>3. PostInv /\ FeedInv /\ [Next]_vars => FeedInv'
  BY CompletionIsFirst
<1> QED
  BY <1>1, <1>2, <1>3, PostInvHolds, PTL DEF Spec, FeedSpecHolds, Feed!FeedSpec
===============================================================================
