-------------------------- MODULE AgentVersionsProofs --------------------------
(***************************************************************************)
(* Proofs about AgentVersions, for any number of concurrent requests and   *)
(* calls, any contents and any number of versions.                         *)
(***************************************************************************)
EXTENDS AgentVersions, TLAPS

(* Closing a session keeps the types of what it held.                      *)
LEMMA EndType ==
  ASSUME TypeOK, NEW m \in Managers, End(m)
  PROVE  /\ pc' \in [Managers -> {"idle", "agent", "loaded", "found", "numbered"}]
         /\ op' \in [Managers -> AgentOps \cup VersionOps \cup {"none"}]
         /\ target' \in [Managers -> 0..MaxVersion]
         /\ sawAgent' \in [Managers -> Agents]
         /\ sawStatus' \in [Managers -> [Versions -> Statuses \cup {"none"}]]
         /\ found' \in [Managers -> SUBSET Versions]
<1>1. NewAgent \in Agents /\ Unread \in [Versions -> Statuses \cup {"none"}]
  BY AgentsAssumption DEF NewAgent, Agents, Unread
<1>2. 0 \in 0..MaxVersion
  BY AgentsAssumption
<1> QED
  BY <1>1, <1>2 DEF TypeOK, End

(* A call goes on to a state a call may be in, and nothing else changes.   *)
LEMMA CallMovesType ==
  ASSUME TypeOK, UNCHANGED <<rows, sessions, history>>, NEW c \in Calls,
         NEW now \in [pc : {"idle", "ringing", "agent", "talking"},
                  version : 0..MaxVersion, text : Texts \cup {NoText}],
         call' = [call EXCEPT ![c] = now]
  PROVE  TypeOK'
<1>1. call' \in [Calls -> [pc : {"idle", "ringing", "agent", "talking"},
                            version : 0..MaxVersion, text : Texts \cup {NoText}]]
  BY DEF TypeOK
<1> QED
  BY <1>1 DEF TypeOK, rows, sessions, history

(* The initial values have their types.                                    *)
LEMMA InitType == Init => TypeOK
<1> SUFFICES ASSUME Init
             PROVE  TypeOK
  OBVIOUS
<1>1. NewAgent \in Agents /\ Unread \in [Versions -> Statuses \cup {"none"}]
  BY AgentsAssumption DEF NewAgent, Agents, Unread
<1>2. 0 \in 0..MaxVersion
  BY AgentsAssumption
<1>3. text \in [Versions -> Texts \cup {NoText}]
  BY DEF Init
<1> QED
  BY <1>1, <1>2, <1>3 DEF Init, TypeOK, Statuses

(* Every variable keeps its type.                                          *)
THEOREM TypeCorrect == Spec => []TypeOK
<1>1. TypeOK /\ [Next]_vars => TypeOK'
  <2> SUFFICES ASSUME TypeOK, [Next]_vars
               PROVE  TypeOK'
    OBVIOUS
  <2> USE AgentsAssumption DEF TypeOK, rows, sessions, history, Agents, Versions,
          Statuses, AgentOps, VersionOps
  <2>1. CASE UNCHANGED vars
    BY <2>1 DEF vars
  <2>2. ASSUME NEW m \in Managers, NEW o \in AgentOps, NEW v \in 0..MaxVersion,
               LoadAgent(m, o, v)
        PROVE  TypeOK'
    BY <2>2 DEF LoadAgent
  <2>3. ASSUME NEW m \in Managers, NEW o \in VersionOps, NEW v \in Versions,
               LoadVersion(m, o, v)
        PROVE  TypeOK'
    BY <2>3 DEF LoadVersion, Unread, Allowed
  <2>4. ASSUME NEW m \in Managers, LoadVersions(m)
        PROVE  TypeOK'
    BY <2>4 DEF LoadVersions
  <2>5. ASSUME NEW m \in Managers, FindPublished(m)
        PROVE  TypeOK'
    <3>1. sawStatus' \in [Managers -> [Versions -> Statuses \cup {"none"}]]
      BY <2>5 DEF FindPublished
    <3>2. found' \in [Managers -> SUBSET Versions]
      BY <2>5 DEF FindPublished, Published
    <3> QED
      BY <2>5, <3>1, <3>2 DEF FindPublished
  <2>6. ASSUME NEW m \in Managers, ReadLatest(m)
        PROVE  TypeOK'
    BY <2>6 DEF ReadLatest
  <2>7. ASSUME NEW m \in Managers, CommitPublish(m)
        PROVE  TypeOK'
    <3>2. status' \in [Versions -> Statuses \cup {"none"}]
      BY <2>7 DEF CommitPublish, Net
    <3>3. released' \in [Versions -> Texts \cup {NoText}]
      BY <2>7 DEF CommitPublish
    <3>4. agent' \in Agents
      BY <2>7 DEF CommitPublish, Net
    <3> QED
      BY <2>7, <3>2, <3>3, <3>4, EndType DEF CommitPublish
  <2>8. ASSUME NEW m \in Managers, CommitEdit(m)
        PROVE  TypeOK'
    <3>1. text' \in [Versions -> Texts \cup {NoText}]
      <4>1. PICK t \in Texts : text' = [text EXCEPT ![target[m]] = t]
        BY <2>8 DEF CommitEdit
      <4> QED
        BY <4>1
    <3> QED
      BY <2>8, <3>1, EndType DEF CommitEdit
  <2>9. ASSUME NEW m \in Managers, CommitTesting(m)
        PROVE  TypeOK'
    BY <2>9, EndType DEF CommitTesting
  <2>10. ASSUME NEW m \in Managers, InsertVersion(m)
        PROVE  TypeOK'
    <3>1. text' \in [Versions -> Texts \cup {NoText}]
      <4>1. PICK t \in Texts : text' = [text EXCEPT ![target[m]] = t]
        BY <2>10 DEF InsertVersion
      <4> QED
        BY <4>1
    <3> QED
      BY <2>10, <3>1, EndType DEF InsertVersion
  <2>11. ASSUME NEW m \in Managers, CommitArchive(m)
        PROVE  TypeOK'
    <3>1. agent' \in Agents
      BY <2>11 DEF CommitArchive, Net
    <3> QED
      BY <2>11, <3>1, EndType DEF CommitArchive
  <2>12. ASSUME NEW m \in Managers, Fail(m)
        PROVE  TypeOK'
    BY <2>12, EndType DEF Fail
  <2> HIDE DEF TypeOK, rows, sessions, history, Agents, Versions,
          Statuses, AgentOps, VersionOps
  <2> DEFINE Places == [pc : {"idle", "ringing", "agent", "talking"},
                  version : 0..MaxVersion, text : Texts \cup {NoText}]
  <2>a. \A c \in Calls : call[c] \in Places
    BY DEF TypeOK
  <2>b. TypeOK
    OBVIOUS
  <2>13. ASSUME NEW c \in Calls, AnswerWebhook(c)
        PROVE  TypeOK'
    <3>1. call' = [call EXCEPT ![c] = [call[c] EXCEPT !.pc = "ringing"]]
      BY <2>13 DEF AnswerWebhook
    <3>2. [call[c] EXCEPT !.pc = "ringing"] \in Places
      BY <2>a
    <3> QED
      BY <2>13, <2>b, <3>1, <3>2, CallMovesType DEF AnswerWebhook
  <2>14. ASSUME NEW c \in Calls, StreamLoadsAgent(c)
        PROVE  TypeOK'
    <3>1. call' = [call EXCEPT ![c] = [call[c] EXCEPT !.pc = "agent", !.version = agent.pub]]
      BY <2>14 DEF StreamLoadsAgent
    <3>2. agent.pub \in 0..MaxVersion
      BY DEF TypeOK, Agents
    <3>3. [call[c] EXCEPT !.pc = "agent", !.version = agent.pub] \in Places
      BY <2>a, <3>2
    <3> QED
      BY <2>14, <2>b, <3>1, <3>3, CallMovesType DEF StreamLoadsAgent
  <2>15. ASSUME NEW c \in Calls, StreamLoadsVersion(c)
        PROVE  TypeOK'
    <3>1. text[call[c].version] \in Texts \cup {NoText}
      BY <2>15 DEF StreamLoadsVersion, TypeOK
    <3>2. call' = [call EXCEPT ![c] =
                    [call[c] EXCEPT !.pc = "talking", !.text = text[call[c].version]]]
      BY <2>15 DEF StreamLoadsVersion
    <3>3. [call[c] EXCEPT !.pc = "talking", !.text = text[call[c].version]] \in Places
      BY <2>a, <3>1
    <3> QED
      BY <2>15, <2>b, <3>2, <3>3, CallMovesType DEF StreamLoadsVersion
  <2>16. ASSUME NEW c \in Calls, HangUp(c)
        PROVE  TypeOK'
    <3>1. [pc |-> "idle", version |-> 0, text |-> NoText] \in Places
      BY AgentsAssumption
    <3> QED
      BY <2>16, <2>b, <3>1, CallMovesType DEF HangUp
  <2>17. ASSUME NEW m \in Managers, Read(m)
         PROVE  TypeOK'
    BY <2>17, <2>2, <2>3, <2>4, <2>5, <2>6 DEF Read
  <2>18. ASSUME NEW m \in Managers, Write(m)
         PROVE  TypeOK'
    BY <2>18, <2>7, <2>8, <2>9, <2>10, <2>11 DEF Write
  <2>19. ASSUME NEW c \in Calls, Stream(c)
         PROVE  TypeOK'
    BY <2>19, <2>13, <2>14, <2>15, <2>16 DEF Stream
  <2> QED
    BY <2>1, <2>12, <2>17, <2>18, <2>19 DEF Next
<1> QED
  BY <1>1, InitType, PTL DEF Spec

(* What sessions hold, which versions exist, and the three guarantees: the *)
(* inductive invariant.                                                    *)
THEOREM AgentsInvariant == Spec => []AgentsInv
<1>1. Init => AgentsInv
  <2> SUFFICES ASSUME Init, TypeOK
               PROVE  AgentsInv
    BY InitType
  <2> QED
    BY AgentsAssumption
    DEF Init, AgentsInv, Versions, NewAgent, Unread, SessionFollowsPc,
        LoadedVersionsExist, CallsHaveVersions, WasReleased, Published,
        OnlyReleasedVersionsServe, OnePublishedVersion, ReleasedContentFrozen
<1>2. AgentsInv /\ TypeOK' /\ [Next]_vars => AgentsInv'
  <2> DEFINE Rest == /\ SessionFollowsPc /\ LoadedVersionsExist /\ CallsHaveVersions
                     /\ OnlyReleasedVersionsServe /\ OnePublishedVersion
                     /\ ReleasedContentFrozen
  <2> SUFFICES ASSUME AgentsInv, TypeOK', [Next]_vars
               PROVE  Rest'
    BY DEF AgentsInv
  <2> USE AgentsAssumption DEF AgentsInv, TypeOK, rows, sessions, history, Agents,
          Versions, Statuses, AgentOps, VersionOps, SessionFollowsPc,
          LoadedVersionsExist, CallsHaveVersions, WasReleased,
          OnlyReleasedVersionsServe, OnePublishedVersion, Published,
          ReleasedContentFrozen
  <2>1. CASE UNCHANGED vars
    BY <2>1 DEF vars
  <2>2. ASSUME NEW m \in Managers, NEW o \in AgentOps, NEW v \in 0..MaxVersion,
               LoadAgent(m, o, v)
        PROVE  Rest'
    <3>1. SessionFollowsPc'
      BY <2>2 DEF LoadAgent
    <3>2. LoadedVersionsExist'
      BY <2>2 DEF LoadAgent
    <3>3. CallsHaveVersions'
      BY <2>2 DEF LoadAgent
    <3>4. OnlyReleasedVersionsServe'
      BY <2>2 DEF LoadAgent
    <3>5. OnePublishedVersion'
      BY <2>2 DEF LoadAgent
    <3>6. ReleasedContentFrozen'
      BY <2>2 DEF LoadAgent
    <3> QED
      BY <3>1, <3>2, <3>3, <3>4, <3>5, <3>6
  <2>3. ASSUME NEW m \in Managers, NEW o \in VersionOps, NEW v \in Versions,
               LoadVersion(m, o, v)
        PROVE  Rest'
    <3>1. SessionFollowsPc'
      BY <2>3 DEF LoadVersion, Unread, Allowed
    <3>2. LoadedVersionsExist'
      <4>1. \A n \in Managers \ {m} : sawStatus'[n] = sawStatus[n]
        BY <2>3 DEF LoadVersion
      <4>2. \A w \in Versions : sawStatus'[m][w] # "none" => w = v
        BY <2>3 DEF LoadVersion, Unread
      <4>3. status' = status /\ text' = text /\ found' = found /\ found[m] = {}
            /\ status[v] # "none"
        BY <2>3 DEF LoadVersion, Allowed
      <4>4. ASSUME NEW w \in Versions, NEW n \in Managers
            PROVE  /\ sawStatus'[n][w] # "none" => status'[w] # "none"
                   /\ w \in found'[n] => sawStatus'[n][w] # "none"
        <5>1. CASE n = m
          BY <5>1, <4>2, <4>3
        <5>2. CASE n # m
          BY <5>2, <4>1, <4>3
        <5> QED
          BY <5>1, <5>2
      <4> QED
        BY <4>3, <4>4
    <3>3. CallsHaveVersions'
      BY <2>3 DEF LoadVersion, Unread, Allowed
    <3>4. OnlyReleasedVersionsServe'
      BY <2>3 DEF LoadVersion, Unread, Allowed
    <3>5. OnePublishedVersion'
      BY <2>3 DEF LoadVersion, Unread, Allowed
    <3>6. ReleasedContentFrozen'
      BY <2>3 DEF LoadVersion, Unread, Allowed
    <3> QED
      BY <3>1, <3>2, <3>3, <3>4, <3>5, <3>6
  <2>4. ASSUME NEW m \in Managers, LoadVersions(m)
        PROVE  Rest'
    <3>1. SessionFollowsPc'
      BY <2>4 DEF LoadVersions
    <3>2. LoadedVersionsExist'
      BY <2>4 DEF LoadVersions
    <3>3. CallsHaveVersions'
      BY <2>4 DEF LoadVersions
    <3>4. OnlyReleasedVersionsServe'
      BY <2>4 DEF LoadVersions
    <3>5. OnePublishedVersion'
      BY <2>4 DEF LoadVersions
    <3>6. ReleasedContentFrozen'
      BY <2>4 DEF LoadVersions
    <3> QED
      BY <3>1, <3>2, <3>3, <3>4, <3>5, <3>6
  <2>5. ASSUME NEW m \in Managers, FindPublished(m)
        PROVE  Rest'
    <3>1. SessionFollowsPc'
      BY <2>5 DEF FindPublished, Allowed
    <3>2. LoadedVersionsExist'
      BY <2>5 DEF FindPublished, Allowed
    <3>3. CallsHaveVersions'
      BY <2>5 DEF FindPublished, Allowed
    <3>4. OnlyReleasedVersionsServe'
      BY <2>5 DEF FindPublished, Allowed
    <3>5. OnePublishedVersion'
      BY <2>5 DEF FindPublished, Allowed
    <3>6. ReleasedContentFrozen'
      BY <2>5 DEF FindPublished, Allowed
    <3> QED
      BY <3>1, <3>2, <3>3, <3>4, <3>5, <3>6
  <2>6. ASSUME NEW m \in Managers, ReadLatest(m)
        PROVE  Rest'
    <3>1. SessionFollowsPc'
      BY <2>6 DEF ReadLatest
    <3>2. LoadedVersionsExist'
      BY <2>6 DEF ReadLatest
    <3>3. CallsHaveVersions'
      BY <2>6 DEF ReadLatest
    <3>4. OnlyReleasedVersionsServe'
      BY <2>6 DEF ReadLatest
    <3>5. OnePublishedVersion'
      BY <2>6 DEF ReadLatest
    <3>6. ReleasedContentFrozen'
      BY <2>6 DEF ReadLatest
    <3> QED
      BY <3>1, <3>2, <3>3, <3>4, <3>5, <3>6
  <2>7. ASSUME NEW m \in Managers, CommitPublish(m)
        PROVE  Rest'
    <3>1. SessionFollowsPc'
      BY <2>7 DEF CommitPublish, Net, End, NewAgent, Unread
    <3>2. LoadedVersionsExist'
      <4> DEFINE v == target[m]
      <4>1. /\ pc[m] = "found" /\ v \in Versions
            /\ sawStatus[m][v] \in {"draft", "testing", "archived"}
        BY <2>7 DEF CommitPublish
      <4>2. status' = [w \in Versions |->
              Net(sawStatus[m][w], IF w = v THEN "published"
                                   ELSE IF w \in found[m] THEN "archived"
                                   ELSE sawStatus[m][w], status[w])]
        BY <2>7 DEF CommitPublish
      <4>3. \A w \in Versions : status[w] # "none" => status'[w] # "none"
        BY <4>1, <4>2 DEF Net
      <4>4. \A w \in Versions : status'[w] # "none" => status[w] # "none"
        BY <4>1, <4>2 DEF Net
      <4>5. /\ text' = text /\ sawStatus'[m] = Unread /\ found'[m] = {}
            /\ \A n \in Managers \ {m} :
                 sawStatus'[n] = sawStatus[n] /\ found'[n] = found[n]
        BY <2>7 DEF CommitPublish, End
      <4>6. \A w \in Versions : Unread[w] = "none"
        BY DEF Unread
      <4>7. ASSUME NEW w \in Versions, NEW n \in Managers
            PROVE  /\ sawStatus'[n][w] # "none" => status'[w] # "none"
                   /\ w \in found'[n] => sawStatus'[n][w] # "none"
        <5>1. CASE n = m
          BY <5>1, <4>5, <4>6
        <5>2. CASE n # m
          BY <5>2, <4>3, <4>5
        <5> QED
          BY <5>1, <5>2
      <4> QED
        BY <4>4, <4>5, <4>7
    <3>3. CallsHaveVersions'
      BY <2>7 DEF CommitPublish, Net, End, NewAgent, Unread
    <3>4. OnlyReleasedVersionsServe'
      <4> DEFINE v == target[m]
      <4>1. /\ pc[m] = "found" /\ v \in Versions
            /\ sawStatus[m][v] \in {"draft", "testing", "archived"}
        BY <2>7 DEF CommitPublish
      <4>2. status' = [w \in Versions |->
              Net(sawStatus[m][w], IF w = v THEN "published"
                                   ELSE IF w \in found[m] THEN "archived"
                                   ELSE sawStatus[m][w], status[w])]
        BY <2>7 DEF CommitPublish
      <4>3. /\ agent'.pub \in {v, agent.pub}
            /\ released' = [released EXCEPT ![v] = text[v]] /\ call' = call
        BY <2>7 DEF CommitPublish, Net
      <4>4. text[v] # NoText
        BY <4>1
      <4>5. \A w \in Versions : WasReleased(w)' <=> w = v \/ WasReleased(w)
        BY <4>1, <4>3, <4>4
      <4>6. \A w \in Versions : WasReleased(w)' => status'[w] \notin {"none", "draft"}
        BY <4>1, <4>2, <4>5 DEF Net
      <4>7. agent'.pub # 0 => WasReleased(agent.pub)'
        BY <4>1, <4>3, <4>5
      <4>8. \A c \in Calls : call'[c].version # 0 => WasReleased(call[c].version)'
        BY <4>1, <4>3, <4>5
      <4> QED
        BY <4>6, <4>7, <4>8
    <3>5. OnePublishedVersion'
      <4> SUFFICES ASSUME ~stale'
                   PROVE  Published' = {agent'.pub} \ {0}
        OBVIOUS
      <4> DEFINE v == target[m]
      <4>1. /\ pc[m] = "found" /\ v \in Versions
            /\ sawStatus[m][v] \in {"draft", "testing", "archived"}
        BY <2>7 DEF CommitPublish
      <4>2. status' = [w \in Versions |->
              Net(sawStatus[m][w], IF w = v THEN "published"
                                   ELSE IF w \in found[m] THEN "archived"
                                   ELSE sawStatus[m][w], status[w])]
        BY <2>7 DEF CommitPublish
      <4>3. /\ agent = sawAgent[m] /\ status = sawStatus[m] /\ Published = found[m]
        BY <2>7 DEF CommitPublish
      <4>4. agent'.pub = v
        BY <2>7, <4>3 DEF CommitPublish, Net
      <4>5. \A w \in Versions : status'[w] = "published" <=> w = v
        BY <4>1, <4>2, <4>3 DEF Net
      <4> QED
        BY <4>1, <4>4, <4>5
    <3>6. ReleasedContentFrozen'
      BY <2>7 DEF CommitPublish, Net, End, NewAgent, Unread
    <3> QED
      BY <3>1, <3>2, <3>3, <3>4, <3>5, <3>6
  <2>8. ASSUME NEW m \in Managers, CommitEdit(m)
        PROVE  Rest'
    <3>1. SessionFollowsPc'
      BY <2>8 DEF CommitEdit, End, NewAgent, Unread
    <3>2. LoadedVersionsExist'
      BY <2>8 DEF CommitEdit, End, NewAgent, Unread
    <3>3. CallsHaveVersions'
      BY <2>8 DEF CommitEdit, End, NewAgent, Unread
    <3>4. OnlyReleasedVersionsServe'
      BY <2>8 DEF CommitEdit, End, NewAgent, Unread
    <3>5. OnePublishedVersion'
      BY <2>8 DEF CommitEdit, End, NewAgent, Unread
    <3>6. ReleasedContentFrozen'
      <4> SUFFICES ASSUME ~stale'
                   PROVE  /\ \A v \in Versions : WasReleased(v)' => text'[v] = released'[v]
                          /\ \A c \in Calls : call'[c].pc = "talking" =>
                               call'[c].text = released'[call'[c].version]
        OBVIOUS
      <4>1. /\ ~stale /\ status[target[m]] = "draft" /\ target[m] \in Versions
            /\ released' = released /\ call' = call
        BY <2>8 DEF CommitEdit
      <4>2. \A v \in Versions : WasReleased(v) => text'[v] = text[v]
        BY <2>8, <4>1 DEF CommitEdit
      <4> QED
        BY <4>1, <4>2
    <3> QED
      BY <3>1, <3>2, <3>3, <3>4, <3>5, <3>6
  <2>9. ASSUME NEW m \in Managers, CommitTesting(m)
        PROVE  Rest'
    <3>1. SessionFollowsPc'
      BY <2>9 DEF CommitTesting, End, NewAgent, Unread
    <3>2. LoadedVersionsExist'
      BY <2>9 DEF CommitTesting, End, NewAgent, Unread
    <3>3. CallsHaveVersions'
      BY <2>9 DEF CommitTesting, End, NewAgent, Unread
    <3>4. OnlyReleasedVersionsServe'
      BY <2>9 DEF CommitTesting, End, NewAgent, Unread
    <3>5. OnePublishedVersion'
      <4> SUFFICES ASSUME ~stale'
                   PROVE  Published' = {agent'.pub} \ {0}
        OBVIOUS
      <4>1. /\ ~stale /\ status[target[m]] = "draft" /\ target[m] \in Versions
            /\ agent' = agent /\ status' = [status EXCEPT ![target[m]] = "testing"]
        BY <2>9 DEF CommitTesting
      <4>2. Published' = Published
        BY <4>1
      <4> QED
        BY <4>1, <4>2
    <3>6. ReleasedContentFrozen'
      BY <2>9 DEF CommitTesting, End, NewAgent, Unread
    <3> QED
      BY <3>1, <3>2, <3>3, <3>4, <3>5, <3>6
  <2>10. ASSUME NEW m \in Managers, InsertVersion(m)
        PROVE  Rest'
    <3>1. SessionFollowsPc'
      BY <2>10 DEF InsertVersion, End, NewAgent, Unread
    <3>2. LoadedVersionsExist'
      BY <2>10 DEF InsertVersion, End, NewAgent, Unread
    <3>3. CallsHaveVersions'
      BY <2>10 DEF InsertVersion, End, NewAgent, Unread
    <3>4. OnlyReleasedVersionsServe'
      BY <2>10 DEF InsertVersion, End, NewAgent, Unread
    <3>5. OnePublishedVersion'
      BY <2>10 DEF InsertVersion, End, NewAgent, Unread
    <3>6. ReleasedContentFrozen'
      BY <2>10 DEF InsertVersion, End, NewAgent, Unread
    <3> QED
      BY <3>1, <3>2, <3>3, <3>4, <3>5, <3>6
  <2>11. ASSUME NEW m \in Managers, CommitArchive(m)
        PROVE  Rest'
    <3>1. SessionFollowsPc'
      BY <2>11 DEF CommitArchive, Net, End, NewAgent, Unread
    <3>2. LoadedVersionsExist'
      BY <2>11 DEF CommitArchive, Net, End, NewAgent, Unread
    <3>3. CallsHaveVersions'
      BY <2>11 DEF CommitArchive, Net, End, NewAgent, Unread
    <3>4. OnlyReleasedVersionsServe'
      BY <2>11 DEF CommitArchive, Net, End, NewAgent, Unread
    <3>5. OnePublishedVersion'
      BY <2>11 DEF CommitArchive, Net, End, NewAgent, Unread
    <3>6. ReleasedContentFrozen'
      BY <2>11 DEF CommitArchive, Net, End, NewAgent, Unread
    <3> QED
      BY <3>1, <3>2, <3>3, <3>4, <3>5, <3>6
  <2>12. ASSUME NEW m \in Managers, Fail(m)
        PROVE  Rest'
    <3>1. SessionFollowsPc'
      BY <2>12 DEF Fail, End, NewAgent, Unread
    <3>2. LoadedVersionsExist'
      BY <2>12 DEF Fail, End, NewAgent, Unread
    <3>3. CallsHaveVersions'
      BY <2>12 DEF Fail, End, NewAgent, Unread
    <3>4. OnlyReleasedVersionsServe'
      BY <2>12 DEF Fail, End, NewAgent, Unread
    <3>5. OnePublishedVersion'
      BY <2>12 DEF Fail, End, NewAgent, Unread
    <3>6. ReleasedContentFrozen'
      BY <2>12 DEF Fail, End, NewAgent, Unread
    <3> QED
      BY <3>1, <3>2, <3>3, <3>4, <3>5, <3>6
  <2>13. ASSUME NEW c \in Calls, AnswerWebhook(c)
        PROVE  Rest'
    BY <2>13 DEF AnswerWebhook
  <2>14. ASSUME NEW c \in Calls, StreamLoadsAgent(c)
        PROVE  Rest'
    <3>1. SessionFollowsPc'
      BY <2>14 DEF StreamLoadsAgent
    <3>2. LoadedVersionsExist'
      BY <2>14 DEF StreamLoadsAgent
    <3>3. CallsHaveVersions'
      BY <2>14 DEF StreamLoadsAgent
    <3>4. OnlyReleasedVersionsServe'
      BY <2>14 DEF StreamLoadsAgent
    <3>5. OnePublishedVersion'
      BY <2>14 DEF StreamLoadsAgent
    <3>6. ReleasedContentFrozen'
      BY <2>14 DEF StreamLoadsAgent
    <3> QED
      BY <3>1, <3>2, <3>3, <3>4, <3>5, <3>6
  <2>15. ASSUME NEW c \in Calls, StreamLoadsVersion(c)
        PROVE  Rest'
    <3>1. SessionFollowsPc'
      BY <2>15 DEF StreamLoadsVersion
    <3>2. LoadedVersionsExist'
      BY <2>15 DEF StreamLoadsVersion
    <3>3. CallsHaveVersions'
      BY <2>15 DEF StreamLoadsVersion
    <3>4. OnlyReleasedVersionsServe'
      BY <2>15 DEF StreamLoadsVersion
    <3>5. OnePublishedVersion'
      BY <2>15 DEF StreamLoadsVersion
    <3>6. ReleasedContentFrozen'
      BY <2>15 DEF StreamLoadsVersion
    <3> QED
      BY <3>1, <3>2, <3>3, <3>4, <3>5, <3>6
  <2>16. ASSUME NEW c \in Calls, HangUp(c)
        PROVE  Rest'
    <3>1. SessionFollowsPc'
      BY <2>16 DEF HangUp
    <3>2. LoadedVersionsExist'
      BY <2>16 DEF HangUp
    <3>3. CallsHaveVersions'
      BY <2>16 DEF HangUp
    <3>4. OnlyReleasedVersionsServe'
      BY <2>16 DEF HangUp
    <3>5. OnePublishedVersion'
      BY <2>16 DEF HangUp
    <3>6. ReleasedContentFrozen'
      BY <2>16 DEF HangUp
    <3> QED
      BY <3>1, <3>2, <3>3, <3>4, <3>5, <3>6
  <2> HIDE DEF Rest
  <2> QED
    BY <2>1, <2>2, <2>3, <2>4, <2>5, <2>6, <2>7, <2>8,
       <2>9, <2>10, <2>11, <2>12, <2>13, <2>14, <2>15, <2>16 DEF Next, Read, Write, Stream
<1> QED
  BY <1>1, <1>2, TypeCorrect, PTL DEF Spec

(* However requests overlap, only versions that were published serve.      *)
THEOREM OnlyReleasedServe == Spec => []OnlyReleasedVersionsServe
<1>1. AgentsInv => OnlyReleasedVersionsServe
  BY DEF AgentsInv
<1> QED
  BY <1>1, AgentsInvariant, PTL

(* Without a write on outdated reads the published version is unique and   *)
(* is the one the agent points to.                                         *)
THEOREM PublishedIsUnique == Spec => []OnePublishedVersion
<1>1. AgentsInv => OnePublishedVersion
  BY DEF AgentsInv
<1> QED
  BY <1>1, AgentsInvariant, PTL

(* Without a write on outdated reads a published content never changes.    *)
THEOREM ReleasesAreFrozen == Spec => []ReleasedContentFrozen
<1>1. AgentsInv => ReleasedContentFrozen
  BY DEF AgentsInv
<1> QED
  BY <1>1, AgentsInvariant, PTL

(* So a publication holds until a request writes on outdated reads.        *)
THEOREM PublicationsHold == Spec => []ReleasesHold
<1> QED
  BY PublishedIsUnique, ReleasesAreFrozen, PTL DEF ReleasesHold

-------------------------------------------------------------------------------
(* Requests as operations of a registry *)

(* A commit writes a status only where the version exists. *)
LEMMA PublishKeepsExisting ==
  ASSUME AgentsInv, NEW m \in Managers, CommitPublish(m)
  PROVE  \A w \in Versions : status'[w] = "none" <=> status[w] = "none"
<1>1. /\ target[m] \in Versions /\ sawStatus[m][target[m]] \in {"draft", "testing", "archived"}
      /\ status' = [w \in Versions |->
              Net(sawStatus[m][w], IF w = target[m] THEN "published"
                                   ELSE IF w \in found[m] THEN "archived"
                                   ELSE sawStatus[m][w], status[w])]
  BY DEF AgentsInv, SessionFollowsPc, CommitPublish
<1>2. \A w \in Versions : /\ sawStatus[m][w] # "none" => status[w] # "none"
                          /\ w \in found[m] => sawStatus[m][w] # "none"
  BY DEF AgentsInv, LoadedVersionsExist
<1> QED
  BY <1>1, <1>2 DEF Net

(* The existing versions and the numbers requests were given.              *)
LEMMA NumbersKept ==
  ASSUME AgentsInv, NumbersHaveNoGaps, [Next]_vars
  PROVE  NumbersHaveNoGaps'
<1> USE DEF rows, sessions, history
<1>1. TypeOK
  BY DEF AgentsInv
<1>a. ASSUME \A v \in Versions : status'[v] = "none" <=> status[v] = "none",
             \A m \in Managers : pc'[m] = "numbered" => pc[m] = "numbered" /\ target'[m] = target[m]
      PROVE  NumbersHaveNoGaps'
  BY <1>a DEF NumbersHaveNoGaps
<1>b. ASSUME NEW m \in Managers, End(m)
      PROVE  \A k \in Managers :
               pc'[k] = "numbered" => pc[k] = "numbered" /\ target'[k] = target[k]
  BY <1>1, <1>b DEF End, TypeOK
<1>2. CASE UNCHANGED vars
  BY <1>2, <1>a DEF vars
<1>3. ASSUME NEW m \in Managers, Read(m)
      PROVE  NumbersHaveNoGaps'
  <2>1. CASE ReadLatest(m)
    <3>1. PICK latest \in Versions :
            /\ status[latest] # "none"
            /\ target' = [target EXCEPT ![m] = latest + 1]
      BY <2>1 DEF ReadLatest
    <3>2. /\ status' = status
          /\ \A k \in Managers : k # m => pc'[k] = pc[k] /\ target'[k] = target[k]
          /\ target'[m] = latest + 1
      BY <1>1, <2>1, <3>1 DEF ReadLatest, TypeOK
    <3>3. ASSUME NEW w \in Versions, w < latest + 1
          PROVE  status[w] # "none"
      <4>1. w = latest \/ w < latest
        BY <3>3, AgentsAssumption DEF Versions
      <4> QED
        BY <3>1, <4>1 DEF NumbersHaveNoGaps
    <3> QED
      BY <3>2, <3>3 DEF NumbersHaveNoGaps
  <2>2. CASE ~ReadLatest(m)
    <3>1. \A k \in Managers :
            pc'[k] = "numbered" => pc[k] = "numbered" /\ target'[k] = target[k]
      BY <1>1, <1>3, <2>2 DEF Read, LoadAgent, LoadVersion, LoadVersions, FindPublished, TypeOK
    <3>2. status' = status
      BY <1>3, <2>2 DEF Read, LoadAgent, LoadVersion, LoadVersions, FindPublished
    <3> QED
      BY <1>a, <3>1, <3>2
  <2> QED
    BY <2>1, <2>2
<1>4. ASSUME NEW m \in Managers, Write(m)
      PROVE  NumbersHaveNoGaps'
  <2>1. CASE CommitPublish(m)
    BY <1>a, <1>b, <2>1, PublishKeepsExisting DEF CommitPublish
  <2>2. CASE CommitEdit(m) \/ CommitArchive(m)
    BY <1>a, <1>b, <2>2 DEF CommitEdit, CommitArchive
  <2>3. CASE CommitTesting(m)
    <3>1. status[target[m]] # "none"
      BY <2>3 DEF CommitTesting, AgentsInv, SessionFollowsPc, LoadedVersionsExist, VersionOps
    <3>2. \A v \in Versions : status'[v] = "none" <=> status[v] = "none"
      BY <1>1, <2>3, <3>1 DEF CommitTesting, TypeOK
    <3> QED
      BY <1>a, <1>b, <2>3, <3>2 DEF CommitTesting
  <2>4. CASE InsertVersion(m)
    <3>1. /\ pc[m] = "numbered" /\ target[m] \in Versions
          /\ status' = [status EXCEPT ![target[m]] = "draft"]
          /\ \A k \in Managers :
               pc'[k] = "numbered" => pc[k] = "numbered" /\ target'[k] = target[k]
      BY <1>b, <2>4 DEF InsertVersion, AgentsInv, SessionFollowsPc
    <3>2. \A v \in Versions : status'[v] # "none" <=> status[v] # "none" \/ v = target[m]
      BY <1>1, <3>1 DEF TypeOK
    <3> QED
      BY <3>1, <3>2 DEF NumbersHaveNoGaps
  <2> QED
    BY <1>4, <2>1, <2>2, <2>3, <2>4 DEF Write
<1>5. ASSUME NEW m \in Managers, Fail(m)
      PROVE  NumbersHaveNoGaps'
  BY <1>5, <1>a, <1>b DEF Fail
<1>6. ASSUME NEW c \in Calls, Stream(c)
      PROVE  NumbersHaveNoGaps'
  BY <1>6, <1>a DEF Stream, AnswerWebhook, StreamLoadsAgent, StreamLoadsVersion, HangUp
<1> QED
  BY <1>2, <1>3, <1>4, <1>5, <1>6 DEF Next

(* What a call was given, as the registry sees it. *)
Serving == [c \in Calls |-> [version |-> call[c].version, text |-> call[c].text]]

(* Creating the agent starts a registry with one draft.                    *)
LEMMA RegistryStarts == Init => Registry!RegistryInit /\ NumbersHaveNoGaps
<1> SUFFICES ASSUME Init
             PROVE  Registry!RegistryInit /\ NumbersHaveNoGaps
  OBVIOUS
<1>1. Serving = [c \in Calls |-> [version |-> 0, text |-> NoText]]
  BY DEF Init, Serving
<1>2. Registry!RegistryInit
  BY <1>1 DEF Init, NewAgent, Serving, Registry!RegistryInit, Registry!NotServing
<1>3. NumbersHaveNoGaps
  BY AgentsAssumption DEF Init, NumbersHaveNoGaps, Versions
<1> QED
  BY <1>2, <1>3

(* A write once requests have overlapped is one the registry leaves open.  *)
LEMMA StaleWriteOverlaps ==
  ASSUME AgentsInv', stale', call' = call,
         \A v \in Versions : /\ status'[v] = "none" <=> status[v] = "none"
                             /\ status[v] = "none" => text'[v] = text[v],
         \/ released' = released
         \/ \E v \in Versions : /\ status'[v] = "published"
                                /\ released' = [released EXCEPT ![v] = text[v]]
  PROVE  Registry!Overlap
<1>1. OnlyReleasedVersionsServe' /\ stale' = TRUE
  BY DEF AgentsInv, TypeOK
<1>2. /\ agent'.pub # 0 => released'[agent'.pub] # NoText
      /\ \A v \in Versions : released'[v] # NoText => status'[v] \notin {"none", "draft"}
  BY <1>1 DEF OnlyReleasedVersionsServe, WasReleased
<1> QED
  BY <1>1, <1>2 DEF Registry!Overlap

(* A publication or a rollback is one, or a write on outdated reads.       *)
LEMMA PublishIsPublish ==
  ASSUME AgentsInv, AgentsInv', NEW m \in Managers, CommitPublish(m)
  PROVE  Registry!RegistryNext
<1> DEFINE v == target[m]
<1>1. /\ v \in Versions /\ sawStatus[m][v] \in {"draft", "testing", "archived"}
      /\ status' = [w \in Versions |->
              Net(sawStatus[m][w], IF w = v THEN "published"
                                   ELSE IF w \in found[m] THEN "archived"
                                   ELSE sawStatus[m][w], status[w])]
      /\ agent' = [agent EXCEPT !.status = Net(sawAgent[m].status, "published", @),
                                !.pub = Net(sawAgent[m].pub, v, @)]
      /\ released' = [released EXCEPT ![v] = text[v]]
      /\ stale' = (stale \/ agent # sawAgent[m] \/ status # sawStatus[m]
                     \/ Published # found[m])
      /\ text' = text /\ call' = call
  BY DEF AgentsInv, SessionFollowsPc, CommitPublish
<1>2. CASE stale'
  <2>1. status'[v] = "published"
    BY <1>1 DEF Net
  <2>2. \A w \in Versions : status'[w] = "none" <=> status[w] = "none"
    BY PublishKeepsExisting
  <2>3. Registry!Overlap
    BY <1>1, <1>2, <2>1, <2>2, StaleWriteOverlaps
  <2> QED
    BY <2>3 DEF Registry!RegistryNext
<1>3. CASE ~stale'
  <2>1. /\ stale' = stale /\ agent = sawAgent[m] /\ status = sawStatus[m]
        /\ found[m] = Published
    BY <1>1, <1>3 DEF AgentsInv, TypeOK
  <2>2. \A w \in Versions : w \in found[m] <=> status[w] = "published"
    BY <2>1 DEF Published
  <2>3. status' = [w \in Versions |-> IF w = v THEN "published"
                                      ELSE IF status[w] = "published" THEN "archived"
                                      ELSE status[w]]
    BY <1>1, <2>1, <2>2 DEF Net
  <2>4. agent' = [agent EXCEPT !.status = "published", !.pub = v]
    BY <1>1, <2>1 DEF Net
  <2>5. Registry!Publish(v)
    BY <1>1, <2>1, <2>3, <2>4 DEF Registry!Publish
  <2> QED
    BY <1>1, <2>5 DEF Registry!RegistryNext
<1> QED
  BY <1>2, <1>3

(* So are the other writes, each the operation it is named for.            *)
LEMMA WriteIsOperation ==
  ASSUME AgentsInv, AgentsInv', NumbersHaveNoGaps, NEW m \in Managers, Write(m)
  PROVE  Registry!RegistryNext
<1> USE DEF rows, sessions, history
<1>1. /\ stale \in BOOLEAN
      /\ \A v \in Versions : sawStatus[m][v] # "none" => status[v] # "none"
      /\ pc[m] = "loaded" /\ op[m] \in VersionOps =>
           target[m] \in Versions /\ sawStatus[m][target[m]] = "draft"
      /\ pc[m] = "numbered" => target[m] \in Versions
      /\ status \in [Versions -> Statuses \cup {"none"}]
      /\ text \in [Versions -> Texts \cup {NoText}]
  BY DEF AgentsInv, TypeOK, LoadedVersionsExist, SessionFollowsPc
<1>2. CASE CommitPublish(m)
  BY <1>2, PublishIsPublish
<1>3. CASE CommitEdit(m)
  <2>1. /\ target[m] \in Versions /\ sawStatus[m][target[m]] = "draft"
        /\ status[target[m]] # "none"
        /\ stale' = (stale \/ status[target[m]] # sawStatus[m][target[m]])
        /\ agent' = agent /\ status' = status /\ call' = call /\ released' = released
    BY <1>1, <1>3 DEF CommitEdit, VersionOps
  <2>2. PICK t \in Texts : text' = [text EXCEPT ![target[m]] = t]
    BY <1>3 DEF CommitEdit
  <2>3. CASE stale'
    <3>1. \A v \in Versions : status[v] = "none" => text'[v] = text[v]
      BY <1>1, <2>1, <2>2
    <3>2. Registry!Overlap
      BY <2>1, <2>3, <3>1, StaleWriteOverlaps
    <3> QED
      BY <3>2 DEF Registry!RegistryNext
  <2>4. CASE ~stale'
    <3>1. Registry!EditDraft(target[m])
      BY <1>1, <2>1, <2>2, <2>4 DEF Registry!EditDraft
    <3> QED
      BY <2>1, <3>1 DEF Registry!RegistryNext
  <2> QED
    BY <2>3, <2>4
<1>4. CASE CommitTesting(m)
  <2>1. /\ target[m] \in Versions /\ sawStatus[m][target[m]] = "draft"
        /\ status[target[m]] # "none"
        /\ status' = [status EXCEPT ![target[m]] = "testing"]
        /\ stale' = (stale \/ status[target[m]] # sawStatus[m][target[m]])
        /\ agent' = agent /\ text' = text /\ call' = call /\ released' = released
    BY <1>1, <1>4 DEF CommitTesting, VersionOps
  <2>2. CASE stale'
    <3>1. \A v \in Versions : status'[v] = "none" <=> status[v] = "none"
      BY <1>1, <2>1
    <3>2. Registry!Overlap
      BY <2>1, <2>2, <3>1, StaleWriteOverlaps
    <3> QED
      BY <3>2 DEF Registry!RegistryNext
  <2>3. CASE ~stale'
    <3>1. Registry!TestDraft(target[m])
      BY <1>1, <2>1, <2>3 DEF Registry!TestDraft
    <3> QED
      BY <2>1, <3>1 DEF Registry!RegistryNext
  <2> QED
    BY <2>2, <2>3
<1>5. CASE InsertVersion(m)
  <2>1. \A w \in Versions : w < target[m] => status[w] # "none"
    BY <1>5 DEF InsertVersion, NumbersHaveNoGaps
  <2>2. target[m] \in Versions /\ Registry!AddVersion(target[m])
    BY <1>1, <1>5, <2>1 DEF InsertVersion, Registry!AddVersion
  <2> QED
    BY <2>2 DEF Registry!RegistryNext
<1>6. CASE CommitArchive(m)
  <2>1. /\ agent' = [agent EXCEPT !.active = Net(sawAgent[m].active, FALSE, @),
                                  !.status = Net(sawAgent[m].status, "archived", @)]
        /\ stale' = (stale \/ agent # sawAgent[m])
        /\ status' = status /\ text' = text /\ call' = call /\ released' = released
    BY <1>6 DEF CommitArchive
  <2>2. CASE stale'
    <3>1. Registry!Overlap
      BY <2>1, <2>2, StaleWriteOverlaps
    <3> QED
      BY <3>1 DEF Registry!RegistryNext
  <2>3. CASE ~stale'
    <3>1. agent = sawAgent[m] /\ stale' = stale /\ agent \in Agents
      BY <1>1, <2>1, <2>3 DEF AgentsInv, TypeOK
    <3>2. agent' = [agent EXCEPT !.active = FALSE, !.status = "archived"]
      BY <2>1, <3>1 DEF Net, Agents
    <3>3. Registry!ArchiveAgent
      BY <2>1, <3>1, <3>2 DEF Registry!ArchiveAgent
    <3> QED
      BY <3>3 DEF Registry!RegistryNext
  <2> QED
    BY <2>2, <2>3
<1> QED
  BY <1>2, <1>3, <1>4, <1>5, <1>6 DEF Write

(* A call takes the version the agent points to, then its content.         *)
LEMMA StreamIsServed ==
  ASSUME AgentsInv, NEW c \in Calls, Stream(c)
  PROVE  Registry!RegistryNext \/ UNCHANGED Registry!registryVars
<1> USE DEF rows, sessions, history
<1>1. call \in [Calls -> [pc : {"idle", "ringing", "agent", "talking"},
                          version : 0..MaxVersion, text : Texts \cup {NoText}]]
  BY DEF AgentsInv, TypeOK
<1>2. UNCHANGED <<agent, status, text, released, stale>>
  BY DEF Stream, AnswerWebhook, StreamLoadsAgent, StreamLoadsVersion, HangUp
<1>3. CASE AnswerWebhook(c)
  <2>1. Serving' = Serving
    BY <1>1, <1>3 DEF AnswerWebhook, Serving
  <2> QED
    BY <1>2, <2>1 DEF Serving, Registry!registryVars
<1>4. CASE StreamLoadsAgent(c)
  <2>1. Serving' = [Serving EXCEPT ![c].version = agent.pub]
    BY <1>1, <1>4 DEF StreamLoadsAgent, Serving
  <2>2. Registry!TakeVersion(c)
    BY <1>2, <1>4, <2>1 DEF StreamLoadsAgent, Serving, Registry!TakeVersion
  <2> QED
    BY <2>2 DEF Registry!RegistryNext
<1>5. CASE StreamLoadsVersion(c)
  <2> DEFINE v == call[c].version
  <2>1. v \in Versions /\ released[v] # NoText /\ (~stale => text[v] = released[v])
    <3>1. v \in Versions /\ v # 0
      BY <1>5, AgentsAssumption DEF StreamLoadsVersion, Versions
    <3> QED
      BY <3>1 DEF AgentsInv, OnlyReleasedVersionsServe, ReleasedContentFrozen, WasReleased
  <2>2. Serving' = [Serving EXCEPT ![c].text = text[v]] /\ Serving[c].version = v
    BY <1>1, <1>5 DEF StreamLoadsVersion, Serving
  <2>3. Registry!TakeContent(c)
    BY <1>2, <2>1, <2>2 DEF Serving, Registry!TakeContent
  <2> QED
    BY <2>3 DEF Registry!RegistryNext
<1>6. CASE HangUp(c)
  <2>1. Serving' = [Serving EXCEPT ![c] = [version |-> 0, text |-> NoText]]
    BY <1>1, <1>6 DEF HangUp, Serving
  <2>2. Registry!Leave(c)
    BY <1>2, <2>1 DEF Serving, Registry!Leave, Registry!NotServing
  <2> QED
    BY <2>2 DEF Registry!RegistryNext
<1> QED
  BY <1>3, <1>4, <1>5, <1>6 DEF Stream

(* The requests of managers, however they overlap, are operations of the   *)
(* registry taken one at a time, until one writes on outdated reads; from  *)
(* then on no version is lost, renumbered or back in draft.                *)
THEOREM RequestsAreSerial == Spec => RegistrySpecHolds
<1>1. ASSUME AgentsInv, AgentsInv', NumbersHaveNoGaps, [Next]_vars
      PROVE  Registry!RegistryNext \/ UNCHANGED Registry!registryVars
  <2>1. CASE UNCHANGED vars
    BY <2>1 DEF vars, Registry!registryVars
  <2>2. ASSUME NEW m \in Managers, Read(m) \/ Fail(m)
        PROVE  UNCHANGED Registry!registryVars
    BY <2>2 DEF Read, Fail, LoadAgent, LoadVersion, LoadVersions, FindPublished,
                ReadLatest, rows, history, Registry!registryVars
  <2> QED
    BY <1>1, <2>1, <2>2, WriteIsOperation, StreamIsServed DEF Next
<1>2. AgentsInv /\ NumbersHaveNoGaps /\ [Next]_vars => NumbersHaveNoGaps'
  BY NumbersKept
<1> QED
  BY <1>1, <1>2, RegistryStarts, AgentsInvariant, PTL
  DEF Spec, RegistrySpecHolds, Registry!RegistrySpec
===============================================================================
