---------------------------- MODULE ContactRecords ----------------------------
(***************************************************************************)
(* What a tenant keeps about the people it calls: contacts and their       *)
(* lists (services/contact_service.py), the appointments and callbacks     *)
(* that the tools of a call store in a contact (tools/definitions/), and   *)
(* the do-not-call list (services/compliance_service.py).                  *)
(*                                                                         *)
(* One element of Requests is one HTTP request or one tool call, each with *)
(* a database session of its own.  It reads, remembers in its draft what   *)
(* it is going to write, and writes from the draft: a contact's JSON field *)
(* and a list's counter as a whole.  PostgreSQL runs READ COMMITTED.  A    *)
(* single INSERT or UPDATE is one step with its commit, because a second   *)
(* one on the same key waits for the commit; the rows of an import stay    *)
(* uncommitted, and in others' way, until its end.                         *)
(***************************************************************************)
EXTENDS Integers, FiniteSets, Sequences

CONSTANTS
  Requests,     \* HTTP requests and tool calls; each is made once
  Phones,
  Placeholder,  \* the number of a lead without number, "+10000000000"
  Lists,
  MaxRows,      \* bound on the rows of an imported file
  Faults        \* {"abort", "row"} or a part of it

ASSUME ContactsAssumption ==
  /\ Placeholder \in Phones /\ "none" \notin Phones
  /\ MaxRows \in Nat \ {0}
  /\ Faults \subseteq {"abort", "row"}

VARIABLES
  phone,    \* contacts' rows: their number, "none" for no row
  fields,   \* their custom_fields: the requests whose entry they hold
  members,  \* contact_list_members' rows
  count,    \* contact_lists.contact_count, -1 before the list exists
  dnc,      \* dnc_entries' rows
  pc,       \* where a request is, in the end its answer
  op,       \* what it was
  keys,     \* the rows a request in flight reads and will write
  draft,    \* what it will write
  excused,  \* requests with a reason to lose their effect (history)
  skewed,   \* lists with a reason to miscount (history)
  promised  \* numbers whose listing was answered and not revoked (history)

vars == <<phone, fields, members, count, dnc, pc, op, keys, draft, excused, skewed, promised>>

contacts == <<phone, fields>>
lists    == <<members, count>>
listing  == <<dnc, promised>>
requests == <<pc, op, keys, draft>>

(* A contact's id: the request that inserted it, and for which number. *)
Ids   == Requests \X Phones
Files == UNION {[1..n -> Phones] : n \in 1..MaxRows}

Creating  == [phone : Phones]
Writing   == [id : Ids, fields : SUBSET Requests]
Counting  == [list : Lists, id : Ids, count : Int]
Importing == [rows : Seq(Phones), new : SUBSET Phones, asked : BOOLEAN]
NoDraft   == [none |-> 0]
RowKeys   == ({"phone", "dnc"} \X Phones) \cup ({"row"} \X Ids) \cup ({"list"} \X Lists)

Answers == {"ok", "refused", "failed"}
Steps   == {"creating", "writing", "adding", "removing", "importing", "listing", "unlisting"}
Tools   == {"book", "cancel", "callback", "lead"}
Ops     == Tools \cup {"create", "add", "remove", "import", "dnc", "undnc", "dncimport"}

Init ==
  /\ phone = [i \in Ids |-> "none"] /\ fields = [i \in Ids |-> {}]
  /\ members = {} /\ count = [l \in Lists |-> -1]
  /\ dnc = [p \in Phones |-> "none"]
  /\ pc = [r \in Requests |-> "idle"] /\ op = [r \in Requests |-> "none"]
  /\ keys = [r \in Requests |-> {}] /\ draft = [r \in Requests |-> NoDraft]
  /\ excused = {} /\ skewed = {} /\ promised = {}

Rows      == {i \in Ids : phone[i] # "none"}
OfPhone(p) == {i \in Rows : phone[i] = p}
InFlight  == {r \in Requests : pc[r] \in Steps}

(* What a number is looked up in and unique in, by the operation. *)
Known(o, p) ==
  IF o \in {"dnc", "dncimport"} THEN dnc[p] = "active" ELSE OfPhone(p) # {}
Indexed(o, p) ==
  IF o \in {"dnc", "dncimport"} THEN dnc[p] # "none" ELSE OfPhone(p) # {}
Key(o, p) == <<IF o \in {"dnc", "undnc", "dncimport"} THEN "dnc" ELSE "phone", p>>

(* Another session has inserted the number and not committed. *)
Held(r, o, p) ==
  \E q \in InFlight \ {r} :
    pc[q] = "importing" /\ p \in draft[q].new /\ Key(op[q], p) = Key(o, p)

(* r's operation begins.  It overlaps those in flight on the same rows.    *)
Begin(r, step, o, ks, d) ==
  LET met == {q \in InFlight : keys[q] \cap ks # {}}
  IN  /\ pc[r] = "idle"
      /\ pc' = [pc EXCEPT ![r] = step]
      /\ op' = [op EXCEPT ![r] = o]
      /\ keys' = [keys EXCEPT ![r] = ks]
      /\ draft' = [draft EXCEPT ![r] = d]
      /\ excused' = excused \cup met \cup {q \in {r} : met # {}}
      /\ skewed' = skewed \cup {l \in Lists :
                     <<"list", l>> \in ks \cap UNION {keys[q] : q \in InFlight}}

(* An operation that its first look-up already ends. *)
AnswerAtOnce(r, o, answer) ==
  /\ pc[r] = "idle"
  /\ pc' = [pc EXCEPT ![r] = answer]
  /\ op' = [op EXCEPT ![r] = o]
  /\ UNCHANGED <<keys, draft>>

Finish(r, answer) ==
  /\ pc' = [pc EXCEPT ![r] = answer]
  /\ keys' = [keys EXCEPT ![r] = {}]
  /\ draft' = [draft EXCEPT ![r] = NoDraft]
  /\ UNCHANGED op

(* The answer to an exception: book_appointment swallows it. *)
Failure(r) == IF op[r] = "book" THEN "ok" ELSE "failed"

(* A listing of p was answered; a removal in flight may still undo it. *)
Promise(ps) ==
  promised' = promised \cup
    {p \in ps : \A q \in InFlight : ~(pc[q] = "unlisting" /\ draft[q].phone = p)}

-------------------------------------------------------------------------------
(* Faulty variants of actions below: each must break a property. *)

(* The foreign key of the members does not cascade. *)
DeleteKeepsMembers(i) ==
  /\ i \in Rows
  /\ phone' = [phone EXCEPT ![i] = "none"]
  /\ fields' = [fields EXCEPT ![i] = {}]
  /\ excused' = excused \cup fields[i]
  /\ UNCHANGED <<lists, skewed, listing, requests>>

(* A booking replaces the appointments instead of extending them. *)
BookOverwrites(r, p) ==
  \/ \E i \in OfPhone(p) :
       Begin(r, "writing", "book", {<<"phone", p>>, <<"row", i>>},
             [id |-> i, fields |-> {r}])
  \/ /\ OfPhone(p) = {}
     /\ Begin(r, "creating", "book", {<<"phone", p>>}, [phone |-> p])

(* The counter goes down whether a row was deleted or not. *)
CommitRemoveUnasked(r) ==
  /\ pc[r] = "removing"
  /\ LET d == draft[r]
     IN  /\ members' = members \ {<<d.list, d.id>>}
         /\ count' = IF d.count > 0 THEN [count EXCEPT ![d.list] = d.count - 1] ELSE count
  /\ Finish(r, "ok")
  /\ UNCHANGED <<contacts, listing, excused, skewed>>

(* The look-up of a row does not see the rows inserted before it. *)
ImportAskWithoutFlush(r) ==
  /\ pc[r] = "importing" /\ draft[r].rows # <<>> /\ ~draft[r].asked
  /\ IF Known(op[r], Head(draft[r].rows))
       THEN draft' = [draft EXCEPT ![r].rows = Tail(@)]
       ELSE draft' = [draft EXCEPT ![r].asked = TRUE]
  /\ UNCHANGED <<contacts, lists, listing, pc, op, keys, excused, skewed>>

(* get_by_phone does not ask for is_active: the inactive row is returned. *)
AskListingAnyRow(r, p) ==
  \/ /\ dnc[p] # "none" /\ AnswerAtOnce(r, "dnc", "ok") /\ Promise({p})
     /\ UNCHANGED <<dnc, excused, skewed>>
  \/ /\ dnc[p] = "none"
     /\ Begin(r, "listing", "dnc", {<<"dnc", p>>}, [phone |-> p])
     /\ UNCHANGED listing

-------------------------------------------------------------------------------
(* Contacts *)

(* POST /contacts, and the tool create_lead: 400, or the existing contact. *)
AskContact(r, o, p) ==
  /\ o \in {"create", "lead"}
  /\ \/ /\ OfPhone(p) # {}
        /\ AnswerAtOnce(r, o, IF o = "lead" THEN "ok" ELSE "refused")
        /\ UNCHANGED <<excused, skewed>>
     \/ /\ OfPhone(p) = {}
        /\ Begin(r, "creating", o, {<<"phone", p>>}, [phone |-> p])
  /\ UNCHANGED <<contacts, lists, listing>>

(* create_lead without a number looks for NULL, which no contact has. *)
LeadWithoutPhone(r) ==
  /\ Begin(r, "creating", "lead", {<<"phone", Placeholder>>}, [phone |-> Placeholder])
  /\ UNCHANGED <<contacts, lists, listing>>

(* INSERT and commit, or the unique index on tenant and number. *)
CommitContact(r) ==
  LET p == draft[r].phone
  IN  /\ pc[r] = "creating" /\ ~Held(r, op[r], p)
      /\ \/ /\ OfPhone(p) = {}
            /\ phone' = [phone EXCEPT ![<<r, p>>] = p]
            /\ fields' = [fields EXCEPT ![<<r, p>>] = {q \in {r} : op[q] = "book"}]
            /\ Finish(r, "ok")
         \/ OfPhone(p) # {} /\ Finish(r, Failure(r)) /\ UNCHANGED contacts
      /\ UNCHANGED <<lists, listing, excused, skewed>>

(* DELETE /contacts/{id}: the rows of its lists go with it, the counters   *)
(* stay.                                                                   *)
DeleteContact(i) ==
  /\ i \in Rows
  /\ phone' = [phone EXCEPT ![i] = "none"]
  /\ fields' = [fields EXCEPT ![i] = {}]
  /\ members' = {m \in members : m[2] # i}
  /\ excused' = excused \cup fields[i] \cup {q \in InFlight : <<"row", i>> \in keys[q]}
  /\ skewed' = skewed \cup {l \in Lists : <<l, i>> \in members}
  /\ UNCHANGED <<count, listing, requests>>

(* PUT /contacts/{id} and the tool update_customer, which reads the row    *)
(* first for its number only: one UPDATE of the given columns.  One that   *)
(* meets the unique index changes nothing.                                 *)
ChangePhone(i, p) ==
  /\ i \in Rows /\ OfPhone(p) = {}
  /\ \A r \in InFlight : ~(pc[r] = "importing" /\ op[r] = "import" /\ p \in draft[r].new)
  /\ phone' = [phone EXCEPT ![i] = p]
  /\ excused' = excused \cup {q \in InFlight : <<"phone", p>> \in keys[q]}
  /\ UNCHANGED <<fields, lists, skewed, listing, requests>>

ReplaceFields(i) ==
  /\ i \in Rows
  /\ fields' = [fields EXCEPT ![i] = {}]
  /\ excused' = excused \cup fields[i]
  /\ UNCHANGED <<phone, lists, skewed, listing, requests>>

-------------------------------------------------------------------------------
(* What a call's tools write into a contact *)

WriteField(r, o, i, entry) ==
  Begin(r, "writing", o, {<<"phone", phone[i]>>, <<"row", i>>},
        [id |-> i, fields |-> fields[i] \cup {entry}])

(* book_appointment: extends the appointments of the caller's contact, or  *)
(* makes one.                                                              *)
ReadBooking(r, p) ==
  \/ \E i \in OfPhone(p) : WriteField(r, "book", i, r)
  \/ /\ OfPhone(p) = {}
     /\ Begin(r, "creating", "book", {<<"phone", p>>}, [phone |-> p])

BookAppointment(r, p) ==
  /\ ReadBooking(r, p)
  /\ UNCHANGED <<contacts, lists, listing>>

(* Without customer_phone nothing is stored, and the booking confirmed. *)
BookWithoutPhone(r) ==
  /\ AnswerAtOnce(r, "book", "ok")
  /\ excused' = excused \cup {r}
  /\ UNCHANGED <<contacts, lists, listing, skewed>>

(* cancel_appointment: of an appointment the caller's contact holds. *)
CancelAppointment(r, p) ==
  /\ \/ /\ \E i \in OfPhone(p) :
             \E a \in fields[i] : op[a] = "book" /\ WriteField(r, "cancel", i, r)
     \/ AnswerAtOnce(r, "cancel", "refused") /\ UNCHANGED <<excused, skewed>>
  /\ UNCHANGED <<contacts, lists, listing>>

(* create_callback: confirmed also when there is no contact to store it. *)
CreateCallback(r, p) ==
  /\ \/ \E i \in OfPhone(p) : WriteField(r, "callback", i, r)
     \/ /\ OfPhone(p) = {} /\ AnswerAtOnce(r, "callback", "ok")
        /\ excused' = excused \cup {r} /\ UNCHANGED skewed
  /\ UNCHANGED <<contacts, lists, listing>>

(* UPDATE ... WHERE id: no row when the contact was deleted meanwhile. *)
CommitField(r) ==
  LET d == draft[r]
  IN  /\ pc[r] = "writing"
      /\ fields' = IF d.id \in Rows THEN [fields EXCEPT ![d.id] = d.fields] ELSE fields
      /\ Finish(r, "ok")
      /\ UNCHANGED <<phone, lists, listing, excused, skewed>>

-------------------------------------------------------------------------------
(* Lists *)

CreateList(l) ==
  /\ count[l] = -1
  /\ count' = [count EXCEPT ![l] = 0]
  /\ UNCHANGED <<contacts, members, listing, requests, excused, skewed>>

(* The row is inserted or deleted, then the counter read. *)
ReadCount(r, step, o, l, i) ==
  /\ count[l] # -1 /\ i \in Rows
  /\ Begin(r, step, o, {<<"list", l>>, <<"row", i>>},
           [list |-> l, id |-> i, count |-> count[l]])
  /\ UNCHANGED <<contacts, lists, listing>>

(* add_contact_to_list: nothing asks whether the contact is a member yet.  *)
CommitAdd(r) ==
  LET d == draft[r]
  IN  /\ pc[r] = "adding"
      /\ \/ /\ d.id \in Rows /\ <<d.list, d.id>> \notin members
            /\ members' = members \cup {<<d.list, d.id>>}
            /\ count' = [count EXCEPT ![d.list] = d.count + 1]
            /\ Finish(r, "ok")
         \/ /\ d.id \notin Rows \/ <<d.list, d.id>> \in members
            /\ Finish(r, "failed") /\ UNCHANGED lists
      /\ UNCHANGED <<contacts, listing, excused, skewed>>

CommitRemove(r) ==
  LET d == draft[r]
  IN  /\ pc[r] = "removing"
      /\ \/ /\ <<d.list, d.id>> \in members
            /\ members' = members \ {<<d.list, d.id>>}
            /\ count' = IF d.count > 0 THEN [count EXCEPT ![d.list] = d.count - 1] ELSE count
            /\ Finish(r, "ok")
         \/ <<d.list, d.id>> \notin members /\ Finish(r, "refused") /\ UNCHANGED lists
      /\ UNCHANGED <<contacts, listing, excused, skewed>>

-------------------------------------------------------------------------------
(* The do-not-call list *)

AskListing(r, p) ==
  \/ /\ Known("dnc", p) /\ AnswerAtOnce(r, "dnc", "ok") /\ Promise({p})
     /\ UNCHANGED <<dnc, excused, skewed>>
  \/ /\ ~Known("dnc", p)
     /\ Begin(r, "listing", "dnc", {<<"dnc", p>>}, [phone |-> p])
     /\ UNCHANGED listing

AddToDnc(r, p) == AskListing(r, p) /\ UNCHANGED <<contacts, lists>>

(* The index knows the inactive row of a number that was removed. *)
CommitListing(r) ==
  LET p == draft[r].phone
  IN  /\ pc[r] = "listing" /\ ~Held(r, "dnc", p)
      /\ \/ /\ ~Indexed("dnc", p)
            /\ dnc' = [dnc EXCEPT ![p] = "active"] /\ Promise({p})
            /\ Finish(r, "ok")
         \/ Indexed("dnc", p) /\ Finish(r, "failed") /\ UNCHANGED listing
      /\ UNCHANGED <<contacts, lists, excused, skewed>>

RemoveFromDnc(r, p) ==
  /\ \/ /\ dnc[p] = "active"
        /\ Begin(r, "unlisting", "undnc", {<<"dnc", p>>}, [phone |-> p])
        /\ promised' = promised \ {p}
     \/ /\ dnc[p] # "active" /\ AnswerAtOnce(r, "undnc", "refused")
        /\ UNCHANGED <<promised, excused, skewed>>
  /\ UNCHANGED <<contacts, lists, dnc>>

CommitUnlisting(r) ==
  /\ pc[r] = "unlisting"
  /\ dnc' = [dnc EXCEPT ![draft[r].phone] = "inactive"]
  /\ Finish(r, "ok")
  /\ UNCHANGED <<contacts, lists, promised, excused, skewed>>

-------------------------------------------------------------------------------
(* Imports: one transaction over all rows, of contacts or of numbers *)

StartImport(r, o, file) ==
  /\ o \in {"import", "dncimport"}
  /\ Begin(r, "importing", o, {Key(o, file[n]) : n \in DOMAIN file},
           [rows |-> file, new |-> {}, asked |-> FALSE])
  /\ UNCHANGED <<contacts, lists, listing>>

(* get_by_phone, which sees the session's own rows: a known number is      *)
(* skipped.                                                                *)
ImportAsk(r) ==
  /\ pc[r] = "importing" /\ draft[r].rows # <<>> /\ ~draft[r].asked
  /\ IF Known(op[r], Head(draft[r].rows)) \/ Head(draft[r].rows) \in draft[r].new
       THEN draft' = [draft EXCEPT ![r].rows = Tail(@)]
       ELSE draft' = [draft EXCEPT ![r].asked = TRUE]
  /\ UNCHANGED <<contacts, lists, listing, pc, op, keys, excused, skewed>>

(* INSERT and flush.  A row that meets the unique index ends the           *)
(* transaction: import_contacts catches the exception and goes on, but     *)
(* every later row and the commit fail as well.                            *)
ImportInsert(r) ==
  LET p == Head(draft[r].rows)
  IN  /\ pc[r] = "importing" /\ draft[r].asked /\ ~Held(r, op[r], p)
      /\ \/ /\ ~Indexed(op[r], p) /\ p \notin draft[r].new
            /\ draft' = [draft EXCEPT ![r] = [rows |-> Tail(draft[r].rows),
                                              new |-> draft[r].new \cup {p},
                                              asked |-> FALSE]]
            /\ UNCHANGED <<pc, op, keys>>
         \/ /\ Indexed(op[r], p) \/ p \in draft[r].new
            /\ Finish(r, "failed")
      /\ UNCHANGED <<contacts, lists, listing, excused, skewed>>

(* Two imports wait for each other's rows: PostgreSQL ends one of them. *)
ImportDeadlock(r) ==
  /\ \E s \in Requests \ {r} :
       /\ pc[r] = "importing" /\ pc[s] = "importing" /\ op[r] = op[s]
       /\ draft[r].asked /\ draft[s].asked
       /\ Head(draft[r].rows) \in draft[s].new /\ Head(draft[s].rows) \in draft[r].new
  /\ Finish(r, "failed")
  /\ UNCHANGED <<contacts, lists, listing, excused, skewed>>

CommitImport(r) ==
  LET new == draft[r].new
  IN  /\ pc[r] = "importing" /\ draft[r].rows = <<>>
      /\ \/ /\ op[r] = "import"
            /\ phone' = [i \in Ids |-> IF i[1] = r /\ i[2] \in new THEN i[2] ELSE phone[i]]
            /\ UNCHANGED listing
         \/ /\ op[r] = "dncimport"
            /\ dnc' = [p \in Phones |-> IF p \in new THEN "active" ELSE dnc[p]]
            /\ Promise(new) /\ UNCHANGED phone
      /\ Finish(r, "ok")
      /\ UNCHANGED <<fields, lists, excused, skewed>>

(* The table refuses the row of an INSERT before it asks an index: the     *)
(* status of a contact and the source of a listing are free text of the    *)
(* request, which a check constraint looks at, and the columns have        *)
(* lengths.  An import is lost with the one row.                           *)
RowRefused(r) ==
  /\ "row" \in Faults
  /\ \/ pc[r] \in {"creating", "listing"}
     \/ pc[r] = "importing" /\ draft[r].asked
  /\ Finish(r, Failure(r))
  /\ excused' = excused \cup {r}
  /\ UNCHANGED <<contacts, lists, listing, skewed>>

(* The process dies or the database fails: the session is rolled back. *)
Abort(r) ==
  /\ "abort" \in Faults /\ r \in InFlight
  /\ Finish(r, Failure(r))
  /\ excused' = excused \cup {r}
  /\ UNCHANGED <<contacts, lists, listing, skewed>>

-------------------------------------------------------------------------------

ContactRequest(r) ==
  \/ \E o \in {"create", "lead"}, p \in Phones : AskContact(r, o, p)
  \/ LeadWithoutPhone(r) \/ CommitContact(r)

ToolCall(r) ==
  \/ \E p \in Phones : BookAppointment(r, p) \/ CancelAppointment(r, p) \/ CreateCallback(r, p)
  \/ BookWithoutPhone(r) \/ CommitField(r)

ListRequest(r) ==
  \/ \E l \in Lists, i \in Ids :
       \/ ReadCount(r, "adding", "add", l, i)
       \/ ReadCount(r, "removing", "remove", l, i)
  \/ CommitAdd(r) \/ CommitRemove(r)

DncRequest(r) ==
  \/ \E p \in Phones : AddToDnc(r, p) \/ RemoveFromDnc(r, p)
  \/ CommitListing(r) \/ CommitUnlisting(r)

Import(r) ==
  \/ \E o \in {"import", "dncimport"}, file \in Files : StartImport(r, o, file)
  \/ ImportAsk(r) \/ ImportInsert(r) \/ ImportDeadlock(r) \/ CommitImport(r)

Next ==
  \/ \E r \in Requests :
       \/ ContactRequest(r) \/ ToolCall(r) \/ ListRequest(r) \/ DncRequest(r) \/ Import(r)
       \/ RowRefused(r) \/ Abort(r)
  \/ \E i \in Ids : DeleteContact(i) \/ ReplaceFields(i) \/ \E p \in Phones : ChangePhone(i, p)
  \/ \E l \in Lists : CreateList(l)

Spec == Init /\ [][Next]_vars

-------------------------------------------------------------------------------

(* Every variable has its type, and a list's members exist. *)
TypeOK ==
  /\ phone \in [Ids -> Phones \cup {"none"}] /\ fields \in [Ids -> SUBSET Requests]
  /\ members \subseteq Lists \X Rows /\ count \in [Lists -> Int]
  /\ dnc \in [Phones -> {"none", "active", "inactive"}]
  /\ pc \in [Requests -> {"idle"} \cup Steps \cup Answers]
  /\ op \in [Requests -> Ops \cup {"none"}]
  /\ keys \in [Requests -> SUBSET RowKeys]
  /\ draft \in [Requests -> Creating \cup Writing \cup Counting \cup Importing \cup {NoDraft}]
  /\ excused \subseteq Requests /\ skewed \subseteq Lists /\ promised \subseteq Phones

(* What a tool has confirmed to the caller (an appointment, its            *)
(* cancellation, a callback) is in the contact, and stays there whatever   *)
(* later calls write, unless another request overlapped this very one, the *)
(* contact was deleted or overwritten, the session was lost, the row was   *)
(* refused, or there was nothing to store it in.                           *)
ConfirmedIsStored ==
  \A r \in Requests :
    pc[r] = "ok" /\ op[r] \in {"book", "cancel", "callback"} /\ r \notin excused =>
      \E i \in Rows : r \in fields[i]

(* A list's counter is the number of its members, unless two requests on   *)
(* it overlapped or one of its contacts was deleted.                       *)
MiscountHasCause ==
  \A l \in Lists \ skewed : count[l] # -1 =>
    count[l] = Cardinality({m \in members : m[1] = l})

(* What fails although it meets no other request: a number listed that was *)
(* taken off the do-not-call list before, a lead without number of which   *)
(* the tenant has one, a contact added to a list it is in.                 *)
FailsAlone(r) ==
  \/ /\ op[r] \in {"dnc", "dncimport"}
     /\ \E p \in Phones : Key("dnc", p) \in keys[r] /\ dnc[p] = "inactive"
  \/ op[r] = "lead" /\ draft[r].phone = Placeholder /\ OfPhone(Placeholder) # {}
  \/ op[r] = "add" /\ <<draft[r].list, draft[r].id>> \in members

(* A request fails only in these three ways, or because its session is     *)
(* lost, or the table refuses one of its rows, or it is excused: another   *)
(* request on the same row overlapped it, or its contact was deleted or    *)
(* its number given to another contact while it was under way.             *)
FailureHasCause ==
  [][\A r \in InFlight : pc'[r] = "failed" =>
       Abort(r) \/ RowRefused(r) \/ r \in excused \/ FailsAlone(r)]_vars

(* A number whose listing was answered is on the do-not-call list until    *)
(* its removal is asked for.                                               *)
ListedUntilRemoved == \A p \in promised : dnc[p] = "active"
===============================================================================
