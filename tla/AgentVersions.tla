----------------------------- MODULE AgentVersions -----------------------------
(***************************************************************************)
(* The versions of one agent: services/agent_service.py behind             *)
(* routers/agents.py, and the calls that pick a version up in              *)
(* routers/voice.py.                                                       *)
(*                                                                         *)
(* A manager's request reads the agent and its versions in separate        *)
(* statements of a READ COMMITTED transaction, decides on what it read,    *)
(* and commits.  The session's objects are not refreshed by later queries, *)
(* and only columns whose value differs from the one loaded are written.   *)
(* The row locks of the flush make one commit a single step.               *)
(***************************************************************************)
EXTENDS Naturals, FiniteSets

CONSTANTS
  Managers,    \* requests that may be in flight at once
  Calls,       \* phone calls to the agent
  Texts,       \* contents of a version: prompt, voice, tools
  NoText,      \* the content of a version that does not exist
  MaxVersion   \* bound on the version numbers

ASSUME AgentsAssumption == MaxVersion \in Nat \ {0} /\ NoText \notin Texts

VARIABLES
  agent,     \* committed row of agents
  status,    \* committed agent_versions.status by version number
  text,      \* committed content of the versions
  pc,        \* where a manager's request is
  op,        \* what it was asked to do
  target,    \* the version it is about, 0 for none
  sawAgent,  \* the agent as the request's session loaded it
  sawStatus, \* the versions as the session loaded them
  found,     \* the published version the session found: at most one
  call,      \* a call: where it is, and the version it got
  released,  \* content of a version when it was last published (history)
  stale      \* a request wrote after what it read had changed (history)

vars == <<agent, status, text, pc, op, target, sawAgent, sawStatus, found,
          call, released, stale>>

rows     == <<agent, status, text>>
sessions == <<pc, op, target, sawAgent, sawStatus, found>>
history  == <<released, stale>>

Versions == 1..MaxVersion
Statuses == {"draft", "testing", "published", "archived"}
Agents   == [status : {"draft", "published", "archived"}, active : BOOLEAN,
             pub : 0..MaxVersion]

AgentOps   == {"publish", "rollback", "create", "archive"}
VersionOps == {"edit", "test"}

NewAgent == [status |-> "draft", active |-> TRUE, pub |-> 0]
Unread   == [v \in Versions |-> "none"]

(* get_published_version: the rows the database holds, not the session.    *)
Published == {v \in Versions : status[v] = "published"}

(* create_agent commits the agent together with its first version.         *)
Init ==
  /\ agent = NewAgent
  /\ status = [v \in Versions |-> IF v = 1 THEN "draft" ELSE "none"]
  /\ \E t \in Texts : text = [v \in Versions |-> IF v = 1 THEN t ELSE NoText]
  /\ pc = [m \in Managers |-> "idle"]
  /\ op = [m \in Managers |-> "none"]
  /\ target = [m \in Managers |-> 0]
  /\ sawAgent = [m \in Managers |-> NewAgent]
  /\ sawStatus = [m \in Managers |-> Unread]
  /\ found = [m \in Managers |-> {}]
  /\ call = [c \in Calls |-> [pc |-> "idle", version |-> 0, text |-> NoText]]
  /\ released = [v \in Versions |-> NoText]
  /\ stale = FALSE

(* The request is over and its session closed. *)
End(m) ==
  /\ pc' = [pc EXCEPT ![m] = "idle"]
  /\ op' = [op EXCEPT ![m] = "none"]
  /\ target' = [target EXCEPT ![m] = 0]
  /\ sawAgent' = [sawAgent EXCEPT ![m] = NewAgent]
  /\ sawStatus' = [sawStatus EXCEPT ![m] = Unread]
  /\ found' = [found EXCEPT ![m] = {}]

(* A column is written only if its value is not the one the session loaded. *)
Net(loaded, new, committed) == IF new # loaded THEN new ELSE committed

(* Faulty variant of the next: versions under test may be edited. *)
AllowedEditTesting(o, s) ==
  CASE o = "publish"  -> s \in {"draft", "testing"}
    [] o = "rollback" -> s = "archived"
    [] o = "edit" -> s \in {"draft", "testing"}
    [] o = "test" -> s = "draft"
    [] OTHER -> TRUE

(* The check at the top of an operation on a version. *)
Allowed(o, s) ==
  CASE o = "publish"  -> s \in {"draft", "testing"}
    [] o = "rollback" -> s = "archived"
    [] o \in VersionOps -> s = "draft"
    [] OTHER -> TRUE

-------------------------------------------------------------------------------
(* Faulty variants of definitions below: each must break a property. *)

(* The version published before is not archived. *)
CommitPublishKeepsOld(m) ==
  LET v == target[m]
  IN  /\ pc[m] = "found"
      /\ status' = [status EXCEPT ![v] = Net(sawStatus[m][v], "published", status[v])]
      /\ agent' = [agent EXCEPT !.status = Net(sawAgent[m].status, "published", @),
                                !.pub = Net(sawAgent[m].pub, v, @)]
      /\ released' = [released EXCEPT ![v] = text[v]]
      /\ stale' = (stale \/ agent # sawAgent[m] \/ status # sawStatus[m]
                     \/ Published # found[m])
      /\ End(m)
      /\ UNCHANGED <<text, call>>

(* The agent points to a version as soon as it is created. *)
InsertVersionPoints(m) ==
  LET n == target[m]
  IN  /\ pc[m] = "numbered"
      /\ status[n] = "none"
      /\ \E t \in Texts : text' = [text EXCEPT ![n] = t]
      /\ status' = [status EXCEPT ![n] = "draft"]
      /\ agent' = [agent EXCEPT !.pub = n]
      /\ End(m)
      /\ UNCHANGED <<call, history>>

(* A status the table's check constraint does not know. *)
CommitArchiveMisspelt(m) ==
  /\ pc[m] = "loaded" /\ op[m] = "archive"
  /\ agent' = [agent EXCEPT !.active = FALSE, !.status = "deleted"]
  /\ stale' = (stale \/ agent # sawAgent[m])
  /\ End(m)
  /\ UNCHANGED <<status, text, call, released>>

-------------------------------------------------------------------------------
(* A manager's request *)

(* get_agent: the agent's row ...                                          *)
LoadAgent(m, o, v) ==
  /\ pc[m] = "idle"
  /\ IF o \in {"publish", "rollback"} THEN v \in Versions /\ status[v] # "none"
     ELSE v = 0
  /\ pc' = [pc EXCEPT ![m] = "agent"]
  /\ op' = [op EXCEPT ![m] = o]
  /\ target' = [target EXCEPT ![m] = v]
  /\ sawAgent' = [sawAgent EXCEPT ![m] = agent]
  /\ UNCHANGED <<rows, sawStatus, found, call, history>>

(* ... and, by selectinload, all its versions.                             *)
LoadVersions(m) ==
  /\ pc[m] = "agent"
  /\ pc' = [pc EXCEPT ![m] = "loaded"]
  /\ sawStatus' = [sawStatus EXCEPT ![m] = status]
  /\ UNCHANGED <<rows, op, target, sawAgent, found, call, history>>

(* get_version of an edit or of a move to testing.                         *)
LoadVersion(m, o, v) ==
  /\ pc[m] = "idle"
  /\ Allowed(o, status[v])
  /\ pc' = [pc EXCEPT ![m] = "loaded"]
  /\ op' = [op EXCEPT ![m] = o]
  /\ target' = [target EXCEPT ![m] = v]
  /\ sawStatus' = [sawStatus EXCEPT ![m] = [Unread EXCEPT ![v] = status[v]]]
  /\ UNCHANGED <<rows, sawAgent, found, call, history>>

(* The version is checked as loaded, then the published one is queried;    *)
(* scalar_one_or_none raises on two.  A version the session had not loaded *)
(* is loaded now, the others stay as they were.                            *)
FindPublished(m) ==
  /\ pc[m] = "loaded" /\ op[m] \in {"publish", "rollback"}
  /\ Allowed(op[m], sawStatus[m][target[m]])
  /\ Cardinality(Published) <= 1
  /\ pc' = [pc EXCEPT ![m] = "found"]
  /\ found' = [found EXCEPT ![m] = Published]
  /\ sawStatus' = [sawStatus EXCEPT ![m] =
                     [v \in Versions |-> IF v \in Published /\ @[v] = "none"
                                           THEN "published" ELSE @[v]]]
  /\ UNCHANGED <<rows, op, target, sawAgent, call, history>>

(* publish_version and rollback_version: the published version is          *)
(* archived, the target published, the agent pointed to it.                *)
CommitPublish(m) ==
  LET v == target[m]
      set == [w \in Versions |-> IF w = v THEN "published"
                                 ELSE IF w \in found[m] THEN "archived"
                                 ELSE sawStatus[m][w]]
  IN  /\ pc[m] = "found"
      /\ status' = [w \in Versions |-> Net(sawStatus[m][w], set[w], status[w])]
      /\ agent' = [agent EXCEPT !.status = Net(sawAgent[m].status, "published", @),
                                !.pub = Net(sawAgent[m].pub, v, @)]
      /\ released' = [released EXCEPT ![v] = text[v]]
      /\ stale' = (stale \/ agent # sawAgent[m] \/ status # sawStatus[m]
                     \/ Published # found[m])
      /\ End(m)
      /\ UNCHANGED <<text, call>>

(* update_version: whichever of the columns the request names.             *)
CommitEdit(m) ==
  LET v == target[m]
  IN  /\ pc[m] = "loaded" /\ op[m] = "edit"
      /\ \E t \in Texts : text' = [text EXCEPT ![v] = t]
      /\ stale' = (stale \/ status[v] # sawStatus[m][v])
      /\ End(m)
      /\ UNCHANGED <<agent, status, call, released>>

(* set_version_testing.                                                    *)
CommitTesting(m) ==
  LET v == target[m]
  IN  /\ pc[m] = "loaded" /\ op[m] = "test"
      /\ status' = [status EXCEPT ![v] = "testing"]
      /\ stale' = (stale \/ status[v] # sawStatus[m][v])
      /\ End(m)
      /\ UNCHANGED <<agent, text, call, released>>

(* create_version: the next number ...                                     *)
ReadLatest(m) ==
  /\ pc[m] = "loaded" /\ op[m] = "create"
  /\ \E latest \in Versions :
       /\ status[latest] # "none"
       /\ \A v \in Versions : v > latest => status[v] = "none"
       /\ latest < MaxVersion
       /\ target' = [target EXCEPT ![m] = latest + 1]
  /\ pc' = [pc EXCEPT ![m] = "numbered"]
  /\ UNCHANGED <<rows, op, sawAgent, sawStatus, found, call, history>>

(* ... and its row, unless another request took the number.                *)
InsertVersion(m) ==
  LET n == target[m]
  IN  /\ pc[m] = "numbered"
      /\ status[n] = "none"
      /\ \E t \in Texts : text' = [text EXCEPT ![n] = t]
      /\ status' = [status EXCEPT ![n] = "draft"]
      /\ End(m)
      /\ UNCHANGED <<agent, call, history>>

(* delete_agent.                                                           *)
CommitArchive(m) ==
  /\ pc[m] = "loaded" /\ op[m] = "archive"
  /\ agent' = [agent EXCEPT !.active = Net(sawAgent[m].active, FALSE, @),
                            !.status = Net(sawAgent[m].status, "archived", @)]
  /\ stale' = (stale \/ agent # sawAgent[m])
  /\ End(m)
  /\ UNCHANGED <<status, text, call, released>>

(* The request is refused by a check, hits the unique constraint or two    *)
(* published versions, or its process or its commit fails.                 *)
Fail(m) ==
  /\ pc[m] # "idle"
  /\ End(m)
  /\ UNCHANGED <<rows, call, history>>

-------------------------------------------------------------------------------
(* A call *)

(* The inbound webhook, or the outbound API: the only look at the agent's  *)
(* status.                                                                 *)
AnswerWebhook(c) ==
  /\ call[c].pc = "idle"
  /\ agent.active /\ agent.status = "published"
  /\ call' = [call EXCEPT ![c].pc = "ringing"]
  /\ UNCHANGED <<rows, sessions, history>>

(* The media stream loads the agent for its published_version_id ...       *)
StreamLoadsAgent(c) ==
  /\ call[c].pc = "ringing"
  /\ agent.pub # 0
  /\ call' = [call EXCEPT ![c].pc = "agent", ![c].version = agent.pub]
  /\ UNCHANGED <<rows, sessions, history>>

(* ... and that version, which the bridge uses until the call ends.        *)
StreamLoadsVersion(c) ==
  /\ call[c].pc = "agent"
  /\ call[c].version \in Versions /\ status[call[c].version] # "none"
  /\ call' = [call EXCEPT ![c].pc = "talking", ![c].text = text[call[c].version]]
  /\ UNCHANGED <<rows, sessions, history>>

HangUp(c) ==
  /\ call[c].pc # "idle"
  /\ call' = [call EXCEPT ![c] = [pc |-> "idle", version |-> 0, text |-> NoText]]
  /\ UNCHANGED <<rows, sessions, history>>

-------------------------------------------------------------------------------
Read(m) ==
  \/ \E o \in AgentOps, v \in 0..MaxVersion : LoadAgent(m, o, v)
  \/ \E o \in VersionOps, v \in Versions : LoadVersion(m, o, v)
  \/ LoadVersions(m) \/ FindPublished(m) \/ ReadLatest(m)

Write(m) ==
  \/ CommitPublish(m) \/ CommitEdit(m) \/ CommitTesting(m)
  \/ InsertVersion(m) \/ CommitArchive(m)

Stream(c) ==
  AnswerWebhook(c) \/ StreamLoadsAgent(c) \/ StreamLoadsVersion(c) \/ HangUp(c)

Next ==
  \/ \E m \in Managers : Read(m) \/ Write(m) \/ Fail(m)
  \/ \E c \in Calls : Stream(c)

Spec == Init /\ [][Next]_vars

-------------------------------------------------------------------------------
(* Properties *)

TypeOK ==
  /\ agent \in Agents
  /\ status \in [Versions -> Statuses \cup {"none"}]
  /\ text \in [Versions -> Texts \cup {NoText}]
  /\ pc \in [Managers -> {"idle", "agent", "loaded", "found", "numbered"}]
  /\ op \in [Managers -> AgentOps \cup VersionOps \cup {"none"}]
  /\ target \in [Managers -> 0..MaxVersion]
  /\ sawAgent \in [Managers -> Agents]
  /\ sawStatus \in [Managers -> [Versions -> Statuses \cup {"none"}]]
  /\ found \in [Managers -> SUBSET Versions]
  /\ call \in [Calls -> [pc : {"idle", "ringing", "agent", "talking"},
                         version : 0..MaxVersion, text : Texts \cup {NoText}]]
  /\ released \in [Versions -> Texts \cup {NoText}]
  /\ stale \in BOOLEAN

WasReleased(v) == released[v] # NoText

(* Whatever requests overlap, the agent points to a version that was       *)
(* published once, such a version is never a draft again, and a call gets  *)
(* no other.                                                               *)
OnlyReleasedVersionsServe ==
  /\ agent.pub # 0 => WasReleased(agent.pub)
  /\ \A v \in Versions : WasReleased(v) => status[v] \notin {"none", "draft"}
  /\ \A c \in Calls : call[c].version # 0 => WasReleased(call[c].version)

(* As long as no request writes on outdated reads, the published version   *)
(* is one, and it is the one the agent points to.                          *)
OnePublishedVersion ==
  ~stale => Published = {agent.pub} \ {0}

(* As long as no request writes on outdated reads, a version keeps the     *)
(* content it was published with, through rollbacks too, and calls run it. *)
ReleasedContentFrozen ==
  ~stale => /\ \A v \in Versions : WasReleased(v) => text[v] = released[v]
            /\ \A c \in Calls : call[c].pc = "talking" =>
                 call[c].text = released[call[c].version]

(* What a publication holds, as long as requests do not overlap like that: *)
(* the version is the only one, and what it says is what was published.    *)
ReleasesHold == OnePublishedVersion /\ ReleasedContentFrozen

(* Requests behave as operations of a registry that takes them one at a    *)
(* time, until one writes on outdated reads: the state read at the start   *)
(* of a request is the one its commit changes.  Once one has, no version   *)
(* is lost, renumbered or back in draft.                                   *)
Registry == INSTANCE VersionRegistry WITH
              serving    <- [c \in Calls |-> [version |-> call[c].version, text |-> call[c].text]],
              overlapped <- stale
RegistrySpecHolds == Registry!RegistrySpec

(***************************************************************************)
(* The inductive strengthening of the invariants above: what a session may *)
(* hold at each point of its request.                                      *)
(***************************************************************************)
SessionFollowsPc ==
  \A m \in Managers :
    /\ pc[m] = "agent" => op[m] \in AgentOps
    /\ pc[m] \in {"agent", "loaded"} /\ op[m] \in {"publish", "rollback"} =>
         target[m] \in Versions
    /\ pc[m] = "loaded" /\ op[m] \in VersionOps =>
         target[m] \in Versions /\ sawStatus[m][target[m]] = "draft"
    /\ pc[m] = "found" =>
         /\ target[m] \in Versions
         /\ sawStatus[m][target[m]] \in {"draft", "testing", "archived"}
    /\ pc[m] = "numbered" => target[m] \in Versions
    /\ pc[m] # "found" => found[m] = {}

(* Versions are never deleted, and have a content.                         *)
LoadedVersionsExist ==
  \A v \in Versions :
    /\ status[v] # "none" => text[v] \in Texts
    /\ \A m \in Managers :
         /\ sawStatus[m][v] # "none" => status[v] # "none"
         /\ v \in found[m] => sawStatus[m][v] # "none"

(* Numbers have no gaps: a new one follows those there are. *)
NumbersHaveNoGaps ==
  /\ \A v, w \in Versions : w < v /\ status[v] # "none" => status[w] # "none"
  /\ \A m \in Managers, w \in Versions :
       pc[m] = "numbered" /\ w < target[m] => status[w] # "none"

CallsHaveVersions ==
  \A c \in Calls : call[c].pc \in {"agent", "talking"} => call[c].version # 0

AgentsInv ==
  /\ TypeOK /\ SessionFollowsPc /\ LoadedVersionsExist /\ CallsHaveVersions
  /\ OnlyReleasedVersionsServe /\ OnePublishedVersion /\ ReleasedContentFrozen

===============================================================================
