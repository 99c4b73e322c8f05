---------------------------- MODULE VersionRegistry ----------------------------
(***************************************************************************)
(* What the versions of an agent promise to overlapping requests: each is  *)
(* one operation on the whole registry, as if it were alone.  A version is *)
(* published at the expense of the one before, a published one is never    *)
(* edited, and numbers have no gaps.  A request that wrote after what it   *)
(* read had changed ends the promise, and leaves this of it: no version is *)
(* lost or renumbered, and the agent points to one that was published.     *)
(***************************************************************************)
EXTENDS Naturals

CONSTANTS Versions, Calls, Texts, NoText

VARIABLES
  agent,      \* its status, whether it is active, the version it points to
  status,     \* a version's status
  text,       \* a version's content
  released,   \* the content a version was last published with
  serving,    \* the version a call got, and its content
  overlapped  \* a request wrote on outdated reads

registryVars == <<agent, status, text, released, serving, overlapped>>

NotServing == [version |-> 0, text |-> NoText]

RegistryInit ==
  /\ agent = [status |-> "draft", active |-> TRUE, pub |-> 0]
  /\ status = [v \in Versions |-> IF v = 1 THEN "draft" ELSE "none"]
  /\ \E t \in Texts : text = [v \in Versions |-> IF v = 1 THEN t ELSE NoText]
  /\ released = [v \in Versions |-> NoText]
  /\ serving = [c \in Calls |-> NotServing]
  /\ overlapped = FALSE

Publish(v) ==
  /\ status[v] \in {"draft", "testing", "archived"}
  /\ status' = [w \in Versions |-> IF w = v THEN "published"
                                   ELSE IF status[w] = "published" THEN "archived"
                                   ELSE status[w]]
  /\ agent' = [agent EXCEPT !.status = "published", !.pub = v]
  /\ released' = [released EXCEPT ![v] = text[v]]
  /\ UNCHANGED <<text, serving, overlapped>>

EditDraft(v) ==
  /\ status[v] = "draft"
  /\ \E t \in Texts : text' = [text EXCEPT ![v] = t]
  /\ UNCHANGED <<agent, status, released, serving, overlapped>>

TestDraft(v) ==
  /\ status[v] = "draft"
  /\ status' = [status EXCEPT ![v] = "testing"]
  /\ UNCHANGED <<agent, text, released, serving, overlapped>>

AddVersion(v) ==
  /\ status[v] = "none" /\ \A w \in Versions : w < v => status[w] # "none"
  /\ status' = [status EXCEPT ![v] = "draft"]
  /\ \E t \in Texts : text' = [text EXCEPT ![v] = t]
  /\ UNCHANGED <<agent, released, serving, overlapped>>

ArchiveAgent ==
  /\ agent' = [agent EXCEPT !.active = FALSE, !.status = "archived"]
  /\ UNCHANGED <<status, text, released, serving, overlapped>>

(* What a request may do that wrote on outdated reads, or after one did. *)
Overlap ==
  /\ overlapped' = TRUE
  /\ \A v \in Versions : /\ status'[v] = "none" <=> status[v] = "none"
                         /\ status[v] = "none" => text'[v] = text[v]
                         /\ released'[v] # NoText => status'[v] \notin {"none", "draft"}
  /\ \/ UNCHANGED released
     \/ \E v \in Versions : status'[v] = "published" /\ released' = [released EXCEPT ![v] = text[v]]
  /\ agent'.pub # 0 => released'[agent'.pub] # NoText
  /\ UNCHANGED serving

TakeVersion(c) ==
  /\ agent.pub # 0
  /\ serving' = [serving EXCEPT ![c].version = agent.pub]
  /\ UNCHANGED <<agent, status, text, released, overlapped>>

(* Unless requests have overlapped, it is what was published. *)
TakeContent(c) ==
  LET v == serving[c].version
  IN  /\ v \in Versions /\ released[v] # NoText
      /\ ~overlapped => text[v] = released[v]
      /\ serving' = [serving EXCEPT ![c].text = text[v]]
      /\ UNCHANGED <<agent, status, text, released, overlapped>>

Leave(c) ==
  /\ serving' = [serving EXCEPT ![c] = NotServing]
  /\ UNCHANGED <<agent, status, text, released, overlapped>>

RegistryNext ==
  \/ \E v \in Versions : Publish(v) \/ EditDraft(v) \/ TestDraft(v) \/ AddVersion(v)
  \/ ArchiveAgent \/ Overlap
  \/ \E c \in Calls : TakeVersion(c) \/ TakeContent(c) \/ Leave(c)

RegistrySpec == RegistryInit /\ [][RegistryNext]_registryVars
===============================================================================
