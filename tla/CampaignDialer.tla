---------------------------- MODULE CampaignDialer ----------------------------
(***************************************************************************)
(* Outbound campaigns: the manager's requests (routers/campaigns.py), the  *)
(* Celery queue between them and the workers, and the dialer task          *)
(* (worker/tasks.py).                                                      *)
(*                                                                         *)
(* The model follows one campaign.  A request writes the campaign's row,   *)
(* enqueues a dialer task, and only then, after the handler has returned,  *)
(* is committed by get_db.  A dialer reads its batch once and works        *)
(* through it; several dialers may run the same campaign.                  *)
(***************************************************************************)
EXTENDS Naturals, FiniteSets

CONSTANTS
  Entries,    \* rows of campaign_calls: one contact to call each
  Dialers,    \* processes of the Celery workers
  MaxTasks,   \* bound on the dialer tasks ever enqueued
  Faults      \* the faults the environment may cause

DialFaults == {"crash", "db", "provider", "answer"}

ASSUME DialerAssumption ==
  /\ MaxTasks \in Nat
  /\ IsFiniteSet(Entries)
  /\ Faults \subseteq DialFaults

VARIABLES
  status,    \* committed campaigns.status
  writing,   \* status written by a request that is not committed yet
  rows,      \* committed campaign_calls.status, "none" before, "gone" after
  tasks,     \* dialer tasks in the broker
  launched,  \* dialer tasks ever enqueued
  pc,        \* where a dialer is
  seen,      \* the campaign's status as the dialer's session holds it
  batch,     \* entries the dialer still has to call
  current,   \* entry the dialer is calling: a set of at most one
  dials,     \* how often an entry's contact was called (history)
  mishap,    \* what else happened to an entry than its calls (history)
  died       \* dialers whose last task died (history)

vars == <<status, writing, rows, tasks, launched, pc, seen, batch, current,
          dials, mishap, died>>

campaign == <<status, writing, launched>>
dialers  == <<pc, seen, batch, current, died>>
history  == <<dials, mishap>>

(* "stopped" stands for draft, scheduled, paused, completed and cancelled:  *)
(* the dialer only asks whether a campaign is running.                     *)
Statuses == {"running", "stopped"}
Calling  == {"entry", "dialed", "failing"}

(* What a request may insert; "other" stands for answered, completed,      *)
(* skipped and dnc, which the dialer neither looks for nor writes.         *)
EntryStatuses == {"pending", "dialing", "failed", "other"}

(* The entries a dialer has loaded and not finished. *)
Holds(d) == batch[d] \cup current[d]

Init ==
  /\ status = "none" /\ writing = "none"
  /\ rows = [k \in Entries |-> "none"]
  /\ tasks = 0 /\ launched = 0
  /\ pc = [d \in Dialers |-> "idle"]
  /\ seen = [d \in Dialers |-> "none"]
  /\ batch = [d \in Dialers |-> {}]
  /\ current = [d \in Dialers |-> {}]
  /\ dials = [k \in Entries |-> 0]
  /\ mishap = [k \in Entries |-> {}]
  /\ died = {}

Fails(fault) == fault \in Faults

(* The row of the entry d is calling gets a new status, if it still exists. *)
Record(d, s) ==
  rows' = [k \in Entries |-> IF k \in current[d] /\ rows[k] # "gone" THEN s ELSE rows[k]]

Note(d, what) ==
  mishap' = [k \in Entries |-> IF k \in current[d] THEN mishap[k] \cup {what} ELSE mishap[k]]

(* The task of d is over and its session closed. *)
Quit(d) ==
  /\ pc' = [pc EXCEPT ![d] = "idle"]
  /\ seen' = [seen EXCEPT ![d] = "none"]
  /\ batch' = [batch EXCEPT ![d] = {}]
  /\ current' = [current EXCEPT ![d] = {}]

-------------------------------------------------------------------------------
(* Faulty variants of actions below: each must break a property. *)

(* The batch is not filtered by status. *)
LoadBatchUnfiltered(d) ==
  LET loaded == {k \in Entries : rows[k] \notin {"none", "gone"}}
      shared == {k \in loaded : \E e \in Dialers \ {d} : k \in Holds(e)}
  IN  /\ pc[d] = "started"
      /\ pc' = [pc EXCEPT ![d] = "next"]
      /\ batch' = [batch EXCEPT ![d] = loaded]
      /\ mishap' = [k \in Entries |->
                      IF k \in shared THEN mishap[k] \cup {"overlap"} ELSE mishap[k]]
      /\ UNCHANGED <<campaign, rows, tasks, seen, current, dials, died>>

(* The row is updated before the provider is called. *)
DialRecordsFirst(d) ==
  /\ pc[d] = "entry"
  /\ \A k \in current[d] : rows[k] # "gone"
  /\ Record(d, "dialing")
  /\ \/ pc' = [pc EXCEPT ![d] = "dialed"]
        /\ dials' = [k \in Entries |-> IF k \in current[d] THEN dials[k] + 1 ELSE dials[k]]
     \/ Fails("provider") /\ pc' = [pc EXCEPT ![d] = "failing"] /\ UNCHANGED dials
  /\ UNCHANGED <<campaign, tasks, seen, batch, current, mishap, died>>

(* A status the table's check constraint does not know. *)
RecordFailureMisspelt(d) ==
  /\ pc[d] = "failing"
  /\ Record(d, "error")
  /\ pc' = [pc EXCEPT ![d] = "next"]
  /\ current' = [current EXCEPT ![d] = {}]
  /\ UNCHANGED <<campaign, tasks, seen, batch, died, history>>

(* A failed call ends the loop. *)
RecordFailureReturns(d) ==
  /\ pc[d] = "failing"
  /\ Record(d, "failed")
  /\ Quit(d)
  /\ UNCHANGED <<campaign, tasks, history, died>>

-------------------------------------------------------------------------------
(* The manager's requests *)

(* POST and PUT /campaigns: the row is written and read back, and a task   *)
(* is enqueued if it says "running", also when the request changed another *)
(* field of a running campaign.  A second request waits for the row.       *)
WriteCampaign(s) ==
  /\ writing = "none"
  /\ writing' = s
  /\ IF s = "running"
       THEN launched < MaxTasks /\ tasks' = tasks + 1 /\ launched' = launched + 1
       ELSE UNCHANGED <<tasks, launched>>
  /\ UNCHANGED <<status, rows, dialers, history>>

(* get_db commits, or rolls back, after the handler has returned.          *)
CommitCampaign ==
  /\ writing # "none"
  /\ status' = writing /\ writing' = "none"
  /\ UNCHANGED <<rows, tasks, launched, dialers, history>>

RollbackCampaign ==
  /\ writing # "none" /\ Fails("db")
  /\ writing' = "none"
  /\ UNCHANGED <<status, rows, tasks, launched, dialers, history>>

(* POST /campaigns/calls: the entry is stored with the status the body     *)
(* names, "pending" if it names none, as long as the check constraint      *)
(* knows it.  Nothing keeps a contact from having several entries.         *)
CreateCampaignCall(k, s) ==
  /\ status # "none" /\ rows[k] = "none"
  /\ rows' = [rows EXCEPT ![k] = s]
  /\ mishap' = IF s = "pending" THEN mishap
                                ELSE [mishap EXCEPT ![k] = @ \cup {"preset"}]
  /\ UNCHANGED <<campaign, tasks, dialers, dials>>

(* DELETE /contacts/{id}: the foreign key deletes the contact's entry too. *)
DeleteContact(k) ==
  /\ rows[k] \notin {"none", "gone"}
  /\ rows' = [rows EXCEPT ![k] = "gone"]
  /\ UNCHANGED <<campaign, tasks, dialers, history>>

-------------------------------------------------------------------------------
(* The dialer *)

(* The task is taken off the queue and acknowledged; a campaign that is    *)
(* not there or not running ends it.                                       *)
TakeTask(d) ==
  /\ pc[d] = "idle" /\ tasks > 0
  /\ tasks' = tasks - 1
  /\ IF status = "running"
       THEN pc' = [pc EXCEPT ![d] = "started"] /\ seen' = [seen EXCEPT ![d] = status]
       ELSE UNCHANGED <<pc, seen>>
  /\ died' = died \ {d}
  /\ UNCHANGED <<campaign, rows, batch, current, history>>

(* get_calls_for_campaign, filtered by status "pending".                   *)
LoadBatch(d) ==
  LET loaded == {k \in Entries : rows[k] = "pending"}
      shared == {k \in loaded : \E e \in Dialers \ {d} : k \in Holds(e)}
  IN  /\ pc[d] = "started"
      /\ pc' = [pc EXCEPT ![d] = "next"]
      /\ batch' = [batch EXCEPT ![d] = loaded]
      /\ mishap' = [k \in Entries |->
                      IF k \in shared THEN mishap[k] \cup {"overlap"} ELSE mishap[k]]
      /\ UNCHANGED <<campaign, rows, tasks, seen, current, dials, died>>

(* "Refresh campaign status check": the row is selected again, but the     *)
(* session's identity map answers with the object loaded first, which no   *)
(* commit expires (expire_on_commit=False).                                *)
RefreshedStatus(d) == seen[d]

NextEntry(d) ==
  /\ pc[d] = "next" /\ RefreshedStatus(d) = "running"
  /\ \E k \in batch[d] :
       /\ batch' = [batch EXCEPT ![d] = @ \ {k}]
       /\ current' = [current EXCEPT ![d] = {k}]
  /\ pc' = [pc EXCEPT ![d] = "entry"]
  /\ UNCHANGED <<campaign, rows, tasks, seen, died, history>>

(* The contact is gone: the loop continues.                                *)
SkipEntry(d) ==
  /\ pc[d] = "entry"
  /\ \E k \in current[d] : rows[k] = "gone"
  /\ pc' = [pc EXCEPT ![d] = "next"]
  /\ current' = [current EXCEPT ![d] = {}]
  /\ UNCHANGED <<campaign, rows, tasks, seen, batch, died, history>>

(* provider.initiate_outbound_call: accepted, refused, or carried out with *)
(* the provider's answer lost.                                             *)
Dial(d) ==
  /\ pc[d] = "entry"
  /\ \A k \in current[d] : rows[k] # "gone"
  /\ \/ /\ pc' = [pc EXCEPT ![d] = "dialed"]
        /\ dials' = [k \in Entries |-> IF k \in current[d] THEN dials[k] + 1 ELSE dials[k]]
        /\ UNCHANGED mishap
     \/ /\ Fails("provider")
        /\ pc' = [pc EXCEPT ![d] = "failing"]
        /\ UNCHANGED history
     \/ /\ Fails("answer")
        /\ pc' = [pc EXCEPT ![d] = "failing"]
        /\ dials' = [k \in Entries |-> IF k \in current[d] THEN dials[k] + 1 ELSE dials[k]]
        /\ Note(d, "answer")
  /\ UNCHANGED <<campaign, rows, tasks, seen, batch, current, died>>

(* The row is updated and committed.                                       *)
RecordDial(d) ==
  /\ pc[d] = "dialed"
  /\ Record(d, "dialing")
  /\ pc' = [pc EXCEPT ![d] = "next"]
  /\ current' = [current EXCEPT ![d] = {}]
  /\ UNCHANGED <<campaign, tasks, seen, batch, died, history>>

RecordFailure(d) ==
  /\ pc[d] = "failing"
  /\ Record(d, "failed")
  /\ pc' = [pc EXCEPT ![d] = "next"]
  /\ current' = [current EXCEPT ![d] = {}]
  /\ UNCHANGED <<campaign, tasks, seen, batch, died, history>>

TaskEnds(d) ==
  /\ pc[d] = "next"
  /\ batch[d] = {} \/ RefreshedStatus(d) # "running"
  /\ Quit(d)
  /\ UNCHANGED <<campaign, rows, tasks, died, history>>

(* The process is killed (deployment, task_time_limit), or the database     *)
(* fails: after a failed statement or commit the exception handler's own   *)
(* update fails too, and the error that escapes the loop is only logged.   *)
(* The task is not retried.                                                *)
TaskDies(d) ==
  /\ pc[d] # "idle"
  /\ Fails("crash") \/ Fails("db")
  /\ IF pc[d] \in {"dialed", "failing"} THEN Note(d, "lost") ELSE UNCHANGED mishap
  /\ Quit(d)
  /\ died' = died \cup {d}
  /\ UNCHANGED <<campaign, rows, tasks, dials>>

-------------------------------------------------------------------------------
Work(d) ==
  TakeTask(d) \/ LoadBatch(d) \/ NextEntry(d) \/ SkipEntry(d) \/ Dial(d)
    \/ RecordDial(d) \/ RecordFailure(d) \/ TaskEnds(d)

Requests ==
  \/ \E s \in Statuses : WriteCampaign(s)
  \/ CommitCampaign \/ RollbackCampaign
  \/ \E k \in Entries, s \in EntryStatuses : CreateCampaignCall(k, s)
  \/ \E k \in Entries : DeleteContact(k)

Next ==
  \/ Requests
  \/ \E d \in Dialers : Work(d) \/ TaskDies(d)

Spec == Init /\ [][Next]_vars

(* Workers take tasks and go on with them; a request that wrote is         *)
(* committed.                                                              *)
Fairness == WF_vars(CommitCampaign) /\ \A d \in Dialers : WF_vars(Work(d))

FairSpec == Spec /\ Fairness

-------------------------------------------------------------------------------
(* Properties *)

TypeOK ==
  /\ status \in Statuses \cup {"none"}
  /\ writing \in Statuses \cup {"none"}
  /\ rows \in [Entries -> EntryStatuses \cup {"none", "gone"}]
  /\ tasks \in Nat /\ launched \in Nat
  /\ pc \in [Dialers -> {"idle", "started", "next"} \cup Calling]
  /\ seen \in [Dialers -> Statuses \cup {"none"}]
  /\ batch \in [Dialers -> SUBSET Entries]
  /\ current \in [Dialers -> SUBSET Entries]
  /\ dials \in [Entries -> Nat]
  /\ mishap \in [Entries -> SUBSET {"overlap", "lost", "answer", "preset"}]
  /\ died \subseteq Dialers

(* An entry is called twice only if two dialers held it at the same time,  *)
(* or the outcome of an earlier call was lost.  (A contact with two        *)
(* entries is called once for each of them.)                               *)
RedialHasCause ==
  \A k \in Entries : dials[k] > 1 => mishap[k] \cap {"overlap", "lost"} # {}

(* The row tells what happened: an entry that says "dialing" was called,   *)
(* unless the request that made it said so; one that says "failed" was not *)
(* called unless something went wrong for it; and one made with another    *)
(* status than "pending" is never called.                                  *)
RecordedOutcomeTrue ==
  \A k \in Entries :
    /\ rows[k] = "dialing" => dials[k] > 0 \/ "preset" \in mishap[k]
    /\ rows[k] = "failed" /\ dials[k] > 0 => mishap[k] # {}
    /\ "preset" \in mishap[k] => dials[k] = 0

(* An entry a dialer has loaded gets an outcome, whatever happens to the   *)
(* calls before it in the batch, unless the dialer dies.                   *)
LoadedEntryResolved ==
  \A d \in Dialers : \A k \in Entries :
    k \in Holds(d) ~> rows[k] # "pending" \/ d \in died

(* What LoadedEntryResolved owes to the steps rather than to the workers'  *)
(* going on: a dialer lets go of an entry only with an outcome, or dies,   *)
HeldUntilResolved ==
  [][\A d \in Dialers, k \in Entries :
       k \in Holds(d) /\ k \notin Holds(d)' => rows'[k] # "pending" \/ d \in died']_vars

(* and while it holds any, each of its steps leaves it less to do, and no  *)
(* step of another dialer or a request gives it more.                      *)
StepsLeft(d) ==
  3 * Cardinality(batch[d]) + CASE pc[d] = "entry" -> 2
                                [] pc[d] \in {"dialed", "failing"} -> 1
                                [] OTHER -> 0
WorkShrinks ==
  [][\A d \in Dialers : Holds(d) # {} =>
       UNCHANGED <<pc[d], batch[d], current[d]>> \/ StepsLeft(d)' < StepsLeft(d)]_vars

(***************************************************************************)
(* The inductive strengthening of the two invariants above.                *)
(***************************************************************************)
Clean(k)   == mishap[k] \cap {"overlap", "lost"} = {}
Called(d)  == pc[d] \in {"dialed", "failing"}

(* A dialer holds its batch and the one entry it is calling.               *)
HoldsFollowPc ==
  \A d \in Dialers :
    /\ pc[d] \in {"idle", "started"} => batch[d] = {}
    /\ IF pc[d] \in Calling
         THEN \E k \in Entries : current[d] = {k}
         ELSE current[d] = {}
    /\ batch[d] \cap current[d] = {}

(* An entry without mishap has one holder, is called once, and the row of  *)
(* a called one is no longer pending once its dialer let go of it.         *)
CleanEntryCalledOnce ==
  \A k \in Entries : Clean(k) =>
    /\ dials[k] <= 1
    /\ \A d \in Dialers : k \in Holds(d) =>
         /\ rows[k] \in {"pending", "gone"}
         /\ \A e \in Dialers \ {d} : k \notin Holds(e)
         /\ dials[k] > 0 => k \in current[d] /\ Called(d)
    /\ dials[k] > 0 /\ rows[k] = "pending" =>
         \E d \in Dialers : k \in current[d] /\ Called(d)

(* What a dialer is about to record is what happened.                      *)
OutcomeFollowsPc ==
  \A d \in Dialers : \A k \in current[d] :
    /\ rows[k] # "none"
    /\ pc[d] = "dialed" => dials[k] > 0
    /\ pc[d] = "failing" /\ dials[k] > 0 => mishap[k] # {}

(* A dialer at work saw the campaign running, and sees it so to the end.   *)
SeenFollowsPc ==
  \A d \in Dialers : pc[d] # "idle" => seen[d] = "running"

UnloadedUncalled ==
  \A k \in Entries : rows[k] = "none" =>
    dials[k] = 0 /\ \A d \in Dialers : k \notin Holds(d)

(* An entry made with another status than "pending" is never loaded.       *)
PresetUnloaded ==
  \A k \in Entries : "preset" \in mishap[k] =>
    rows[k] \notin {"none", "pending"} /\ \A d \in Dialers : k \notin Holds(d)

DialerInv ==
  /\ TypeOK /\ HoldsFollowPc /\ CleanEntryCalledOnce
  /\ OutcomeFollowsPc /\ UnloadedUncalled /\ PresetUnloaded
  /\ RecordedOutcomeTrue

(* "Refresh campaign status check ... stopping_dialer": a dialer goes on   *)
(* to its next entry only while the campaign is running.                   *)
PauseStopsDialer ==
  [][\A d \in Dialers : current'[d] \ current[d] # {} => status = "running"]_vars

===============================================================================
