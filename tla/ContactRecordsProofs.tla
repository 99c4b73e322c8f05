------------------------- MODULE ContactRecordsProofs -------------------------
(***************************************************************************)
(* Proofs about ContactRecords, for any number of requests, numbers and    *)
(* lists, files of any length and any faults.                              *)
(***************************************************************************)
EXTENDS ContactRecords, FiniteSetTheorems, TLAPS

-------------------------------------------------------------------------------
(* The inductive invariant *)

AnyDraft == Creating \cup Writing \cup Counting \cup Importing \cup {NoDraft}

(* What a request has read and is going to write, by its place, and the    *)
(* rows it is known to work on.                                            *)
ContactDraft(r) ==
  /\ pc[r] = "creating" =>
       /\ draft[r] \in Creating /\ op[r] \in {"create", "lead", "book"}
       /\ <<"phone", draft[r].phone>> \in keys[r]
  /\ pc[r] = "writing" =>
       /\ draft[r] \in Writing /\ op[r] \in {"book", "cancel", "callback"}
       /\ <<"row", draft[r].id>> \in keys[r]
       /\ r \in draft[r].fields /\ pc[draft[r].id[1]] = "ok"

ListDraft(r) ==
  /\ pc[r] = "adding" => op[r] = "add"
  /\ pc[r] = "removing" => op[r] = "remove"
  /\ pc[r] \in {"adding", "removing"} =>
       /\ draft[r] \in Counting /\ draft[r].count \in Nat /\ count[draft[r].list] # -1
       /\ <<"list", draft[r].list>> \in keys[r] /\ <<"row", draft[r].id>> \in keys[r]

DncDraft(r) ==
  /\ pc[r] \in {"listing", "unlisting"} =>
       /\ draft[r] \in Creating /\ <<"dnc", draft[r].phone>> \in keys[r]
  /\ pc[r] = "listing" => op[r] = "dnc"
  /\ pc[r] = "unlisting" => op[r] = "undnc"

ImportDraft(r) ==
  pc[r] = "importing" =>
    /\ draft[r] \in Importing /\ op[r] \in {"import", "dncimport"}
    /\ \A p \in draft[r].new : Key(op[r], p) \in keys[r]
    /\ \A n \in DOMAIN draft[r].rows : Key(op[r], draft[r].rows[n]) \in keys[r]
    /\ draft[r].asked => draft[r].rows # <<>> /\ Head(draft[r].rows) \notin draft[r].new

(* A contact's id is never used again. *)
RowsBorn == \A i \in Rows : pc[i[1]] = "ok"

Drafts ==
  /\ TypeOK /\ RowsBorn
  /\ \A l \in Lists : count[l] # -1 => count[l] \in Nat
  /\ \A r \in Requests : ContactDraft(r) /\ ListDraft(r) /\ DncDraft(r) /\ ImportDraft(r)

(* Requests that work on the same row are excused for it. *)
Overlaps ==
  \A q, r \in InFlight :
    q # r =>
      /\ keys[q] \cap keys[r] # {} => q \in excused
      /\ \A l \in Lists : <<"list", l>> \in keys[q] \cap keys[r] => l \in skewed

(* Without an excuse, what was looked up is still so. *)
LookupsHold ==
  \A r \in Requests \ excused :
    /\ pc[r] = "creating" /\ OfPhone(draft[r].phone) # {} =>
         op[r] = "lead" /\ draft[r].phone = Placeholder
    /\ pc[r] \in {"writing", "adding", "removing"} => draft[r].id \in Rows
    /\ pc[r] = "listing" => dnc[draft[r].phone] # "active"
    /\ pc[r] = "importing" /\ draft[r].asked => ~Known(op[r], Head(draft[r].rows))

(* Entries that a writer of the field has not read, or will not write      *)
(* back, are excused.                                                      *)
WritersCarry ==
  \A q \in Requests :
    pc[q] = "writing" /\ draft[q].id \in Rows =>
      /\ fields[draft[q].id] \subseteq draft[q].fields \cup excused
      /\ draft[q].fields \subseteq fields[draft[q].id] \cup excused \cup {q}

StoredInv == Drafts /\ Overlaps /\ LookupsHold /\ WritersCarry /\ ConfirmedIsStored

(* A counter that no one else has touched is the one that was read. *)
CountInv ==
  /\ IsFiniteSet(members)
  /\ \A m \in members : count[m[1]] # -1
  /\ \A r \in Requests :
       pc[r] \in {"adding", "removing"} /\ draft[r].list \notin skewed =>
         draft[r].count = count[draft[r].list]
  /\ MiscountHasCause

ListedInv ==
  /\ \A r \in Requests : pc[r] = "unlisting" => draft[r].phone \notin promised
  /\ ListedUntilRemoved

-------------------------------------------------------------------------------
(* What the kinds of steps do to drafts, keys and excuses *)

(* The keys of numbers. *)
LEMMA KeyFacts ==
  /\ \A o : \A p \in Phones : Key(o, p) \in RowKeys
  /\ \A p : Key("import", p) = <<"phone", p>> /\ Key("dncimport", p) = <<"dnc", p>>
            /\ Key("dnc", p) = <<"dnc", p>>
  BY DEF Key, RowKeys

(* The drafts of the others do not depend on what r does. *)
LEMMA OthersDrafted ==
  ASSUME Drafts, NEW r \in Requests, NEW q \in Requests \ {r},
         pc'[q] = pc[q], op'[q] = op[q], keys'[q] = keys[q], draft'[q] = draft[q],
         pc[r] # "ok", \A l \in Lists : count[l] # -1 => count'[l] # -1,
         \A s \in Requests \ {r} : pc'[s] = pc[s]
  PROVE  ContactDraft(q)' /\ ListDraft(q)' /\ DncDraft(q)' /\ ImportDraft(q)'
<1>1. ContactDraft(q)'
  <2>1. pc[q] = "writing" => draft[q].id[1] \in Requests
    BY DEF Drafts, ContactDraft, Writing, Ids
  <2> QED
    BY <2>1 DEF Drafts, ContactDraft
<1>2. ListDraft(q)'
  <2>1. pc[q] \in {"adding", "removing"} => draft[q].list \in Lists
    BY DEF Drafts, ListDraft, Counting
  <2> QED
    BY <2>1 DEF Drafts, ListDraft
<1>3. DncDraft(q)' /\ ImportDraft(q)'
  BY DEF Drafts, DncDraft, ImportDraft, Key
<1> QED
  BY <1>1, <1>2, <1>3

(* A request that is answered leaves no draft, and excuses stay. *)
LEMMA AnsweredKeeps ==
  ASSUME Drafts, Overlaps, NEW r \in Requests, NEW answer \in Answers, pc[r] \notin Answers,
         pc' = [pc EXCEPT ![r] = answer],
         \A q \in Requests \ {r} : op'[q] = op[q] /\ keys'[q] = keys[q] /\ draft'[q] = draft[q],
         \A l \in Lists : count[l] # -1 => count'[l] # -1,
         excused \subseteq excused', skewed \subseteq skewed'
  PROVE  /\ \A q \in Requests : ContactDraft(q)' /\ ListDraft(q)' /\ DncDraft(q)' /\ ImportDraft(q)'
         /\ Overlaps'
         /\ InFlight' = InFlight \ {r}
         /\ \A q \in Requests \ {r} : pc'[q] = pc[q]
<1>1. pc'[r] = answer /\ \A q \in Requests \ {r} : pc'[q] = pc[q]
  BY DEF Drafts, TypeOK
<1>2. answer \notin Steps /\ pc[r] # "ok"
  BY DEF Answers, Steps
<1>3. InFlight' = InFlight \ {r}
  BY <1>1, <1>2 DEF InFlight
<1>4. ASSUME NEW q \in Requests
      PROVE  ContactDraft(q)' /\ ListDraft(q)' /\ DncDraft(q)' /\ ImportDraft(q)'
  <2>1. CASE q = r
    BY <1>1, <2>1 DEF Answers, ContactDraft, ListDraft, DncDraft, ImportDraft
  <2>2. CASE q # r
    BY <1>1, <1>2, <2>2, OthersDrafted
  <2> QED
    BY <2>1, <2>2
<1>5. Overlaps'
  BY <1>3 DEF Overlaps, InFlight
<1> QED
  BY <1>1, <1>3, <1>4, <1>5

(* A request that begins shares its excuse with those it meets. *)
LEMMA BeginKeeps ==
  ASSUME Drafts, Overlaps, NEW r \in Requests, NEW step \in Steps, NEW o \in Ops,
         NEW ks \in SUBSET RowKeys, NEW d \in AnyDraft, Begin(r, step, o, ks, d),
         UNCHANGED <<phone, fields, members, count, dnc>>,
         promised' \subseteq promised,
         ContactDraft(r)' /\ ListDraft(r)' /\ DncDraft(r)' /\ ImportDraft(r)'
  PROVE  Drafts' /\ Overlaps'
<1>1. /\ pc[r] = "idle" /\ pc' = [pc EXCEPT ![r] = step] /\ op' = [op EXCEPT ![r] = o]
      /\ keys' = [keys EXCEPT ![r] = ks] /\ draft' = [draft EXCEPT ![r] = d]
      /\ excused' = excused \cup {q \in InFlight : keys[q] \cap ks # {}}
                     \cup {q \in {r} : {z \in InFlight : keys[z] \cap ks # {}} # {}}
      /\ skewed' = skewed \cup {l \in Lists :
                     <<"list", l>> \in ks \cap UNION {keys[q] : q \in InFlight}}
  BY DEF Begin
<1>2. TypeOK'
  <2>1. /\ pc' \in [Requests -> {"idle"} \cup Steps \cup Answers]
        /\ op' \in [Requests -> Ops \cup {"none"}]
    BY <1>1 DEF Drafts, TypeOK
  <2>2. /\ keys' \in [Requests -> SUBSET RowKeys] /\ draft' \in [Requests -> AnyDraft]
    BY <1>1 DEF Drafts, TypeOK, AnyDraft
  <2>3. excused' \subseteq Requests /\ skewed' \subseteq Lists
    BY <1>1 DEF Drafts, TypeOK, InFlight
  <2>4. Rows' = Rows
    BY DEF Rows
  <2> QED
    BY <2>1, <2>2, <2>3, <2>4 DEF Drafts, TypeOK, AnyDraft
<1>3. RowsBorn'
  BY <1>1 DEF Drafts, RowsBorn, Rows, Ids, TypeOK
<1>4. ASSUME NEW q \in Requests
      PROVE  ContactDraft(q)' /\ ListDraft(q)' /\ DncDraft(q)' /\ ImportDraft(q)'
  <2>1. CASE q # r
    <3>1. /\ pc'[q] = pc[q] /\ op'[q] = op[q] /\ keys'[q] = keys[q] /\ draft'[q] = draft[q]
          /\ \A s \in Requests \ {r} : pc'[s] = pc[s]
      BY <1>1, <2>1 DEF Drafts, TypeOK
    <3> QED
      BY <1>1, <2>1, <3>1, OthersDrafted
  <2> QED
    BY <2>1
<1>5. Overlaps'
  <2>1. InFlight' = InFlight \cup {r} /\ r \notin InFlight
    BY <1>1 DEF InFlight, Steps, Drafts, TypeOK
  <2>2. keys'[r] = ks /\ \A q \in InFlight : keys'[q] = keys[q]
    BY <1>1, <2>1 DEF InFlight, Drafts, TypeOK
  <2> SUFFICES ASSUME NEW q \in InFlight', NEW s \in InFlight', q # s
               PROVE  /\ keys'[q] \cap keys'[s] # {} => q \in excused'
                      /\ \A l \in Lists : <<"list", l>> \in keys'[q] \cap keys'[s] => l \in skewed'
    BY DEF Overlaps
  <2>3. CASE q # r /\ s # r
    BY <1>1, <2>1, <2>2, <2>3 DEF Overlaps
  <2>4. CASE q = r
    BY <1>1, <2>1, <2>2, <2>4
  <2>5. CASE s = r
    BY <1>1, <2>1, <2>2, <2>5
  <2> QED
    BY <2>3, <2>4, <2>5
<1> QED
  BY <1>2, <1>3, <1>4, <1>5 DEF Drafts

(* A request that begins has just looked at the rows, and confirms nothing. *)
LEMMA BeginStored ==
  ASSUME StoredInv, NEW r \in Requests, NEW step \in Steps, NEW o \in Ops,
         NEW ks \in SUBSET RowKeys, NEW d \in AnyDraft, Begin(r, step, o, ks, d),
         UNCHANGED <<phone, fields, members, count, dnc>>,
         promised' \subseteq promised,
         ContactDraft(r)' /\ ListDraft(r)' /\ DncDraft(r)' /\ ImportDraft(r)',
         step = "creating" /\ OfPhone(d.phone) # {} => o = "lead" /\ d.phone = Placeholder,
         step \in {"writing", "adding", "removing"} => d.id \in Rows,
         step = "writing" => d.fields = fields[d.id] \cup {r},
         step = "listing" => dnc[d.phone] # "active",
         step = "importing" => ~d.asked
  PROVE  StoredInv'
<1>1. Drafts' /\ Overlaps'
  BY BeginKeeps DEF StoredInv
<1>2. /\ pc[r] = "idle" /\ pc' = [pc EXCEPT ![r] = step] /\ op' = [op EXCEPT ![r] = o]
      /\ draft' = [draft EXCEPT ![r] = d] /\ excused \subseteq excused'
  BY DEF Begin
<1>3. /\ pc'[r] = step /\ op'[r] = o /\ draft'[r] = d
      /\ \A q \in Requests \ {r} : pc'[q] = pc[q] /\ op'[q] = op[q] /\ draft'[q] = draft[q]
      /\ Rows' = Rows /\ \A p : OfPhone(p)' = OfPhone(p)
      /\ \A p, x : Known(x, p)' = Known(x, p)
  BY <1>2 DEF StoredInv, Drafts, TypeOK, Rows, OfPhone, Known
<1>4. LookupsHold'
  BY <1>2, <1>3 DEF LookupsHold, StoredInv
<1>5. WritersCarry'
  BY <1>2, <1>3 DEF WritersCarry, StoredInv
<1>6. ConfirmedIsStored'
  <2>1. step # "ok"
    BY DEF Steps
  <2> QED
    BY <1>2, <1>3, <2>1 DEF ConfirmedIsStored, StoredInv
<1> QED
  BY <1>1, <1>4, <1>5, <1>6 DEF StoredInv

(* A request that is answered and has changed nothing, and confirmed
   nothing without an excuse. *)
LEMMA AnsweredStored ==
  ASSUME StoredInv, NEW r \in Requests, NEW answer \in Answers, pc[r] \notin Answers,
         pc' = [pc EXCEPT ![r] = answer],
         op' \in [Requests -> Ops \cup {"none"}],
         keys' \in [Requests -> SUBSET RowKeys], draft' \in [Requests -> AnyDraft],
         \A q \in Requests \ {r} : op'[q] = op[q] /\ keys'[q] = keys[q] /\ draft'[q] = draft[q],
         UNCHANGED <<phone, fields, members, count, dnc, skewed>>,
         promised' \subseteq Phones,
         excused \subseteq excused', excused' \subseteq Requests,
         answer = "ok" /\ op'[r] \in {"book", "cancel", "callback"} => r \in excused'
  PROVE  StoredInv'
<1>1. /\ \A q \in Requests : ContactDraft(q)' /\ ListDraft(q)' /\ DncDraft(q)' /\ ImportDraft(q)'
      /\ Overlaps'
      /\ \A q \in Requests \ {r} : pc'[q] = pc[q]
  BY AnsweredKeeps DEF StoredInv
<1>2. pc'[r] = answer
  BY DEF StoredInv, Drafts, TypeOK
<1>3. Rows' = Rows /\ (\A p : OfPhone(p)' = OfPhone(p)) /\ (\A p, x : Known(x, p)' = Known(x, p))
  BY DEF Rows, OfPhone, Known
<1>4. Drafts'
  <2>1. TypeOK'
    BY <1>3 DEF StoredInv, Drafts, TypeOK, AnyDraft
  <2>2. RowsBorn'
    BY <1>1, <1>2, <1>3 DEF StoredInv, Drafts, RowsBorn, Rows, Ids, Answers
  <2> QED
    BY <1>1, <2>1, <2>2 DEF StoredInv, Drafts
<1>5. LookupsHold'
  BY <1>1, <1>2, <1>3 DEF LookupsHold, StoredInv, Answers
<1>6. WritersCarry'
  BY <1>1, <1>2, <1>3 DEF WritersCarry, StoredInv, Answers
<1>7. ConfirmedIsStored'
  BY <1>1, <1>2, <1>3 DEF ConfirmedIsStored, StoredInv
<1> QED
  BY <1>1, <1>4, <1>5, <1>6, <1>7 DEF StoredInv

(* The two ways to get there: an answer at once, and the end of a request
   that was under way. *)
LEMMA AtOnceStored ==
  ASSUME StoredInv, NEW r \in Requests, NEW o \in Ops, NEW answer \in Answers,
         AnswerAtOnce(r, o, answer),
         UNCHANGED <<phone, fields, members, count, dnc, skewed>>,
         promised' \subseteq Phones,
         excused \subseteq excused', excused' \subseteq Requests,
         answer = "ok" /\ o \in {"book", "cancel", "callback"} => r \in excused'
  PROVE  StoredInv'
<1>1. /\ pc[r] = "idle" /\ pc' = [pc EXCEPT ![r] = answer] /\ op' = [op EXCEPT ![r] = o]
      /\ keys' = keys /\ draft' = draft
  BY DEF AnswerAtOnce
<1>2. /\ op'[r] = o /\ op' \in [Requests -> Ops \cup {"none"}]
      /\ \A q \in Requests \ {r} : op'[q] = op[q]
      /\ keys \in [Requests -> SUBSET RowKeys] /\ draft \in [Requests -> AnyDraft]
  BY <1>1 DEF StoredInv, Drafts, TypeOK, AnyDraft
<1>3. pc[r] \notin Answers
  BY <1>1 DEF Answers
<1> QED
  BY <1>1, <1>2, <1>3, AnsweredStored

(* What the end of a request changes, and that it keeps the types. *)
LEMMA FinishFacts ==
  ASSUME TypeOK, NEW r \in Requests, NEW answer \in Answers, Finish(r, answer), pc[r] \in Steps
  PROVE  /\ pc[r] \notin Answers /\ pc' = [pc EXCEPT ![r] = answer] /\ pc'[r] = answer
         /\ pc' \in [Requests -> {"idle"} \cup Steps \cup Answers]
         /\ op' = op /\ op' \in [Requests -> Ops \cup {"none"}]
         /\ keys' \in [Requests -> SUBSET RowKeys] /\ draft' \in [Requests -> AnyDraft]
         /\ \A q \in Requests \ {r} : /\ pc'[q] = pc[q] /\ op'[q] = op[q]
                                      /\ keys'[q] = keys[q] /\ draft'[q] = draft[q]
<1>1. /\ pc' = [pc EXCEPT ![r] = answer] /\ op' = op
      /\ keys' = [keys EXCEPT ![r] = {}] /\ draft' = [draft EXCEPT ![r] = NoDraft]
  BY DEF Finish
<1>2. pc[r] \notin Answers
  BY DEF Steps, Answers
<1>3. keys' \in [Requests -> SUBSET RowKeys] /\ draft' \in [Requests -> AnyDraft]
  BY <1>1 DEF TypeOK, AnyDraft
<1> QED
  BY <1>1, <1>2, <1>3 DEF TypeOK

(* A request under way ends without having changed anything. *)
LEMMA FinishStored ==
  ASSUME StoredInv, NEW r \in Requests, NEW answer \in Answers, Finish(r, answer), pc[r] \in Steps,
         UNCHANGED <<phone, fields, members, count, dnc, skewed>>,
         promised' \subseteq Phones,
         excused \subseteq excused', excused' \subseteq Requests,
         answer = "ok" /\ op[r] \in {"book", "cancel", "callback"} => r \in excused'
  PROVE  StoredInv'
<1>1. TypeOK
  BY DEF StoredInv, Drafts
<1> QED
  BY <1>1, FinishFacts, AnsweredStored

-------------------------------------------------------------------------------
(* Requests that begin, and those answered without an effect *)

(* A contact is to be created: its number is not known, or it is a lead's. *)
LEMMA CreatingBegins ==
  ASSUME StoredInv, NEW r \in Requests, NEW p \in Phones, NEW o \in {"create", "lead", "book"},
         OfPhone(p) = {} \/ (o = "lead" /\ p = Placeholder),
         Begin(r, "creating", o, {<<"phone", p>>}, [phone |-> p]),
         UNCHANGED <<phone, fields, members, count, dnc, promised>>
  PROVE  StoredInv'
<1> DEFINE d == [phone |-> p]
           ks == {<<"phone", p>>}
<1>1. /\ d \in Creating /\ d \in AnyDraft /\ ks \in SUBSET RowKeys
      /\ "creating" \in Steps /\ o \in Ops /\ d.phone = p
  BY DEF Creating, AnyDraft, RowKeys, Steps, Ops, Tools
<1>2. pc'[r] = "creating" /\ op'[r] = o /\ keys'[r] = ks /\ draft'[r] = d
  BY DEF Begin, StoredInv, Drafts, TypeOK
<1>3. ContactDraft(r)' /\ ListDraft(r)' /\ DncDraft(r)' /\ ImportDraft(r)'
  BY <1>1, <1>2 DEF ContactDraft, ListDraft, DncDraft, ImportDraft
<1> HIDE DEF d, ks
<1> QED
  BY <1>1, <1>2, <1>3, BeginStored DEF d, ks

(* A field is to be written: what was read, and the request's own entry. *)
LEMMA WritingBegins ==
  ASSUME StoredInv, NEW r \in Requests, NEW i \in Rows, NEW o \in {"book", "cancel", "callback"},
         WriteField(r, o, i, r),
         UNCHANGED <<phone, fields, members, count, dnc, promised>>
  PROVE  StoredInv'
<1> DEFINE d == [id |-> i, fields |-> fields[i] \cup {r}]
           ks == {<<"phone", phone[i]>>, <<"row", i>>}
<1>1. i \in Ids /\ phone[i] \in Phones /\ fields[i] \in SUBSET Requests /\ pc[i[1]] = "ok"
      /\ i[1] \in Requests
  BY DEF Rows, StoredInv, Drafts, RowsBorn, TypeOK, Ids
<1>2. /\ d \in Writing /\ d.id = i /\ d.fields = fields[i] \cup {r}
      /\ ks \in SUBSET RowKeys /\ "writing" \in Steps /\ o \in Ops
  BY <1>1 DEF Writing, RowKeys, Steps, Ops, Tools
<1>3. d \in AnyDraft
  BY <1>2 DEF AnyDraft
<1>4. /\ pc[r] = "idle" /\ pc' = [pc EXCEPT ![r] = "writing"]
      /\ op' = [op EXCEPT ![r] = o] /\ keys' = [keys EXCEPT ![r] = ks]
      /\ draft' = [draft EXCEPT ![r] = d]
  BY DEF WriteField, Begin
<1>5. /\ pc'[r] = "writing" /\ op'[r] = o /\ keys'[r] = ks /\ draft'[r] = d
      /\ pc'[i[1]] = "ok"
  BY <1>1, <1>4 DEF StoredInv, Drafts, TypeOK
<1>6. ContactDraft(r)' /\ ListDraft(r)' /\ DncDraft(r)' /\ ImportDraft(r)'
  BY <1>2, <1>5 DEF ContactDraft, ListDraft, DncDraft, ImportDraft
<1>7. Begin(r, "writing", o, ks, d)
  BY DEF WriteField
<1> HIDE DEF d, ks
<1> QED
  BY <1>2, <1>3, <1>6, <1>7, BeginStored

(* A list's counter has been read. *)
LEMMA CountingBegins ==
  ASSUME StoredInv, NEW r \in Requests, NEW l \in Lists, NEW i \in Ids,
         ReadCount(r, "adding", "add", l, i) \/ ReadCount(r, "removing", "remove", l, i)
  PROVE  StoredInv'
<1> SUFFICES ASSUME NEW step \in {"adding", "removing"}, NEW o \in {"add", "remove"},
                    (step = "adding" /\ o = "add") \/ (step = "removing" /\ o = "remove"), ReadCount(r, step, o, l, i)
             PROVE  StoredInv'
  OBVIOUS
<1> DEFINE d == [list |-> l, id |-> i, count |-> count[l]]
           ks == {<<"list", l>>, <<"row", i>>}
<1>1. count[l] \in Int /\ count[l] # -1 /\ i \in Rows
  BY DEF ReadCount, StoredInv, Drafts, TypeOK
<1>2. /\ d \in Counting /\ d.id = i /\ d.list = l /\ d.count = count[l]
      /\ ks \in SUBSET RowKeys /\ step \in Steps /\ o \in Ops
  BY <1>1 DEF Counting, RowKeys, Steps, Ops, Tools
<1>3. d \in AnyDraft
  BY <1>2 DEF AnyDraft
<1>4. Begin(r, step, o, ks, d) /\ UNCHANGED <<phone, fields, members, count, dnc, promised>>
  BY DEF ReadCount, contacts, lists, listing
<1>5. pc'[r] = step /\ op'[r] = o /\ keys'[r] = ks /\ draft'[r] = d
  BY <1>4 DEF Begin, StoredInv, Drafts, TypeOK
<1>6. ContactDraft(r)' /\ ListDraft(r)' /\ DncDraft(r)' /\ ImportDraft(r)'
  <2>1. count[l] \in Nat
    BY <1>1 DEF StoredInv, Drafts
  <2> QED
    BY <1>1, <1>2, <1>4, <1>5, <2>1 DEF ContactDraft, ListDraft, DncDraft, ImportDraft
<1> HIDE DEF d, ks
<1> QED
  BY <1>1, <1>2, <1>3, <1>4, <1>6, BeginStored

(* A number is to be put on the do-not-call list, or to be taken off it. *)
LEMMA DncBegins ==
  ASSUME StoredInv, NEW r \in Requests, NEW p \in Phones,
         \/ Begin(r, "listing", "dnc", {<<"dnc", p>>}, [phone |-> p]) /\ dnc[p] # "active"
         \/ Begin(r, "unlisting", "undnc", {<<"dnc", p>>}, [phone |-> p]),
         UNCHANGED <<phone, fields, members, count, dnc>>, promised' \subseteq promised
  PROVE  StoredInv'
<1> DEFINE d == [phone |-> p]
           ks == {<<"dnc", p>>}
<1>1. /\ d \in Creating /\ d \in AnyDraft /\ ks \in SUBSET RowKeys
      /\ {"listing", "unlisting"} \subseteq Steps /\ {"dnc", "undnc"} \subseteq Ops /\ d.phone = p
  BY DEF Creating, AnyDraft, RowKeys, Steps, Ops, Tools
<1>2. PICK step \in {"listing", "unlisting"}, o \in {"dnc", "undnc"} :
        /\ Begin(r, step, o, ks, d)
        /\ step = "listing" => dnc[p] # "active" /\ o = "dnc"
        /\ step = "unlisting" => o = "undnc"
  OBVIOUS
<1>3. pc'[r] = step /\ op'[r] = o /\ keys'[r] = ks /\ draft'[r] = d
  BY <1>2 DEF Begin, StoredInv, Drafts, TypeOK
<1>4. ContactDraft(r)' /\ ListDraft(r)' /\ DncDraft(r)' /\ ImportDraft(r)'
  BY <1>1, <1>2, <1>3 DEF ContactDraft, ListDraft, DncDraft, ImportDraft
<1> HIDE DEF d, ks
<1> QED
  BY <1>1, <1>2, <1>4, BeginStored

(* An import has received its file. *)
LEMMA ImportBegins ==
  ASSUME StoredInv, NEW r \in Requests, NEW o \in {"import", "dncimport"}, NEW file \in Files,
         StartImport(r, o, file)
  PROVE  StoredInv'
<1> DEFINE d == [rows |-> file, new |-> {}, asked |-> FALSE]
           ks == {Key(o, file[n]) : n \in DOMAIN file}
<1>1. file \in Seq(Phones) /\ \A n \in DOMAIN file : file[n] \in Phones
  BY ContactsAssumption DEF Files
<1>2. /\ d \in Importing /\ d.rows = file /\ d.new = {} /\ d.asked = FALSE
      /\ "importing" \in Steps /\ o \in Ops
  BY <1>1 DEF Importing, Steps, Ops
<1>3. d \in AnyDraft /\ ks \in SUBSET RowKeys
  BY <1>1, <1>2, KeyFacts DEF AnyDraft
<1>4. Begin(r, "importing", o, ks, d) /\ UNCHANGED <<phone, fields, members, count, dnc, promised>>
  BY DEF StartImport, contacts, lists, listing
<1>5. pc'[r] = "importing" /\ op'[r] = o /\ keys'[r] = ks /\ draft'[r] = d
  BY <1>4 DEF Begin, StoredInv, Drafts, TypeOK
<1>6. \A n \in DOMAIN file : Key(o, file[n]) \in ks
  OBVIOUS
<1> HIDE DEF d, ks
<1>7. ContactDraft(r)' /\ ListDraft(r)' /\ DncDraft(r)' /\ ImportDraft(r)'
  BY <1>2, <1>5, <1>6 DEF ContactDraft, ListDraft, DncDraft, ImportDraft, Key
<1> QED
  BY <1>2, <1>3, <1>4, <1>7, BeginStored

(* Requests about contacts and the tools of a call, up to their first answer
   or draft. *)
LEMMA ContactRequestsBegin ==
  ASSUME StoredInv, NEW r \in Requests,
         \/ \E o \in {"create", "lead"}, p \in Phones : AskContact(r, o, p)
         \/ LeadWithoutPhone(r)
         \/ \E p \in Phones : BookAppointment(r, p) \/ CancelAppointment(r, p) \/ CreateCallback(r, p)
         \/ BookWithoutPhone(r)
  PROVE  StoredInv'
<1> USE DEF contacts, lists, listing
<1>1. promised \subseteq Phones /\ excused \subseteq Requests
  BY DEF StoredInv, Drafts, TypeOK
<1>2. {"ok", "refused"} \subseteq Answers /\ {"create", "lead", "book", "cancel", "callback"} \subseteq Ops
  BY DEF Answers, Ops, Tools
<1>3. ASSUME NEW o \in {"create", "lead"}, NEW p \in Phones, AskContact(r, o, p)
      PROVE  StoredInv'
  <2>1. CASE OfPhone(p) # {}
    BY <1>1, <1>2, <1>3, <2>1, AtOnceStored DEF AskContact
  <2>2. CASE OfPhone(p) = {}
    BY <1>3, <2>2, CreatingBegins DEF AskContact
  <2> QED
    BY <2>1, <2>2
<1>4. CASE LeadWithoutPhone(r)
  BY <1>4, ContactsAssumption, CreatingBegins DEF LeadWithoutPhone
<1>5. ASSUME NEW p \in Phones, BookAppointment(r, p)
      PROVE  StoredInv'
  <2>1. OfPhone(p) \subseteq Rows
    BY DEF OfPhone
  <2> QED
    BY <1>5, <2>1, CreatingBegins, WritingBegins DEF BookAppointment, ReadBooking
<1>6. ASSUME NEW p \in Phones, CancelAppointment(r, p)
      PROVE  StoredInv'
  <2>1. OfPhone(p) \subseteq Rows
    BY DEF OfPhone
  <2>2. UNCHANGED <<phone, fields, members, count, dnc, promised>>
    BY <1>6 DEF CancelAppointment
  <2>3. CASE AnswerAtOnce(r, "cancel", "refused") /\ UNCHANGED <<excused, skewed>>
    BY <1>1, <1>2, <2>2, <2>3, AtOnceStored
  <2>4. CASE \E i \in OfPhone(p) : WriteField(r, "cancel", i, r)
    BY <2>1, <2>2, <2>4, WritingBegins
  <2> QED
    BY <1>6, <2>3, <2>4 DEF CancelAppointment
<1>7. ASSUME NEW p \in Phones, CreateCallback(r, p)
      PROVE  StoredInv'
  <2>1. OfPhone(p) \subseteq Rows
    BY DEF OfPhone
  <2>2. CASE OfPhone(p) = {}
    <3>1. AnswerAtOnce(r, "callback", "ok") /\ excused' = excused \cup {r}
          /\ UNCHANGED <<phone, fields, members, count, dnc, promised, skewed>>
      BY <1>7, <2>2 DEF CreateCallback
    <3> QED
      BY <1>1, <1>2, <3>1, AtOnceStored
  <2>3. CASE OfPhone(p) # {}
    BY <1>7, <2>1, <2>3, WritingBegins DEF CreateCallback
  <2> QED
    BY <2>2, <2>3
<1>8. CASE BookWithoutPhone(r)
  <2>1. AnswerAtOnce(r, "book", "ok") /\ excused' = excused \cup {r}
        /\ UNCHANGED <<phone, fields, members, count, dnc, promised, skewed>>
    BY <1>8 DEF BookWithoutPhone
  <2> QED
    BY <1>1, <1>2, <2>1, AtOnceStored
<1> QED
  BY <1>3, <1>4, <1>5, <1>6, <1>7, <1>8

(* Requests to the do-not-call list, up to their first answer or draft. *)
LEMMA DncRequestsBegin ==
  ASSUME StoredInv, NEW r \in Requests, NEW p \in Phones,
         AddToDnc(r, p) \/ RemoveFromDnc(r, p)
  PROVE  StoredInv'
<1> USE DEF contacts, lists, listing
<1>1. promised \subseteq Phones /\ excused \subseteq Requests
  BY DEF StoredInv, Drafts, TypeOK
<1>2. {"ok", "refused"} \subseteq Answers /\ {"dnc", "undnc"} \subseteq Ops
  BY DEF Answers, Ops
<1>3. CASE AddToDnc(r, p)
  <2>1. CASE Known("dnc", p)
    <3>1. AnswerAtOnce(r, "dnc", "ok") /\ Promise({p})
          /\ UNCHANGED <<phone, fields, members, count, dnc, excused, skewed>>
      BY <1>3, <2>1 DEF AddToDnc, AskListing
    <3>2. promised' \subseteq Phones
      BY <1>1, <3>1 DEF Promise
    <3> QED
      BY <1>1, <1>2, <3>1, <3>2, AtOnceStored
  <2>2. CASE ~Known("dnc", p)
    <3>1. dnc[p] # "active"
      BY <2>2 DEF Known
    <3> QED
      BY <1>3, <2>2, <3>1, DncBegins DEF AddToDnc, AskListing
  <2> QED
    BY <2>1, <2>2
<1>4. CASE RemoveFromDnc(r, p)
  <2>1. CASE dnc[p] = "active"
    BY <1>4, <2>1, DncBegins DEF RemoveFromDnc
  <2>2. CASE dnc[p] # "active"
    BY <1>1, <1>2, <1>4, <2>2, AtOnceStored DEF RemoveFromDnc
  <2> QED
    BY <2>1, <2>2
<1> QED
  BY <1>3, <1>4

(* A request that ends without an effect: its session is lost, the row is
   not as it must be, or PostgreSQL refuses it. *)
LEMMA FailuresStored ==
  ASSUME StoredInv, NEW r \in Requests,
         \/ Abort(r) \/ RowRefused(r) \/ ImportDeadlock(r)
         \/ CommitContact(r) /\ OfPhone(draft[r].phone) # {}
         \/ (CommitAdd(r) \/ CommitRemove(r)) /\ UNCHANGED lists
         \/ CommitListing(r) /\ Indexed("dnc", draft[r].phone)
         \/ ImportInsert(r) /\ Finish(r, "failed")
  PROVE  StoredInv'
<1> USE DEF contacts, lists, listing
<1>1. promised \subseteq Phones /\ excused \subseteq Requests
  BY DEF StoredInv, Drafts, TypeOK
<1>2. Answers = {"ok", "refused", "failed"} /\ Failure(r) \in Answers
  BY DEF Answers, Failure
<1>3. CASE Abort(r)
  BY <1>1, <1>2, <1>3, FinishStored DEF Abort, InFlight
<1>9. CASE RowRefused(r)
  BY <1>1, <1>2, <1>9, FinishStored DEF RowRefused, Steps
<1>4. CASE ImportDeadlock(r)
  BY <1>1, <1>2, <1>4, FinishStored DEF ImportDeadlock, Steps
<1>5. CASE CommitContact(r) /\ OfPhone(draft[r].phone) # {}
  <2>1. Finish(r, Failure(r)) /\ pc[r] = "creating"
        /\ UNCHANGED <<phone, fields, members, count, dnc, promised, excused, skewed>>
    BY <1>5 DEF CommitContact
  <2>2. r \notin excused => op[r] = "lead"
    BY <1>5, <2>1 DEF StoredInv, LookupsHold
  <2>3. pc[r] \in Steps
    BY <2>1 DEF Steps
  <2>4. Failure(r) = "ok" /\ op[r] \in {"book", "cancel", "callback"} => r \in excused
    BY <2>2
  <2> QED
    BY <1>1, <1>2, <2>1, <2>3, <2>4, FinishStored
<1>6. CASE (CommitAdd(r) \/ CommitRemove(r)) /\ UNCHANGED lists
  <2>1. PICK answer \in Answers : Finish(r, answer)
    BY <1>2, <1>6 DEF CommitAdd, CommitRemove
  <2>2. pc[r] \in {"adding", "removing"}
        /\ UNCHANGED <<phone, fields, members, count, dnc, promised, excused, skewed>>
    BY <1>6 DEF CommitAdd, CommitRemove
  <2>3. pc[r] \in Steps /\ op[r] \in {"add", "remove"}
    BY <2>2 DEF Steps, StoredInv, Drafts, ListDraft
  <2> QED
    BY <1>1, <2>1, <2>2, <2>3, FinishStored
<1>7. CASE CommitListing(r) /\ Indexed("dnc", draft[r].phone)
  BY <1>1, <1>2, <1>7, FinishStored DEF CommitListing, Steps
<1>8. CASE ImportInsert(r) /\ Finish(r, "failed")
  <2>1. /\ pc[r] = "importing"
        /\ UNCHANGED <<phone, fields, members, count, dnc, promised, excused, skewed>>
    BY <1>8 DEF ImportInsert
  <2>2. pc[r] \in Steps
    BY <2>1 DEF Steps
  <2> QED
    BY <1>1, <1>2, <1>8, <2>1, <2>2, FinishStored
<1> QED
  BY <1>3, <1>4, <1>5, <1>6, <1>7, <1>8, <1>9

-------------------------------------------------------------------------------
(* Requests that commit *)

(* Others that work on the same row are excused. *)
LEMMA OthersExcused ==
  ASSUME StoredInv, NEW r \in InFlight, NEW q \in InFlight, q # r, NEW k,
         k \in keys[r], k \in keys[q]
  PROVE  q \in excused /\ r \in excused
  BY DEF StoredInv, Overlaps

(* What a request has looked up, it would find again after the step. *)
FindsTheSame(q) ==
  /\ \A x : <<"phone", x>> \in keys[q] /\ OfPhone(x) = {} => OfPhone(x)' = {}
  /\ \A x : <<"dnc", x>> \in keys[q] /\ dnc[x] # "active" => dnc'[x] # "active"
  /\ \A i \in Rows : <<"row", i>> \in keys[q] => i \in Rows'

(* Look-ups hold when whoever has looked up what changes is excused. *)
LEMMA LookupsKept ==
  ASSUME StoredInv, excused \subseteq excused',
         \A q \in Requests : \/ pc'[q] \in Answers
                             \/ pc'[q] = pc[q] /\ op'[q] = op[q] /\ draft'[q] = draft[q],
         \A q \in InFlight \ excused' : pc'[q] \notin Answers => FindsTheSame(q)
  PROVE  LookupsHold'
<1> SUFFICES ASSUME NEW q \in Requests, q \notin excused', pc'[q] \notin Answers,
                    pc'[q] = pc[q], op'[q] = op[q], draft'[q] = draft[q]
             PROVE  /\ pc'[q] = "creating" /\ OfPhone(draft[q].phone)' # {} =>
                         op'[q] = "lead" /\ draft'[q].phone = Placeholder
                    /\ pc'[q] \in {"writing", "adding", "removing"} => draft'[q].id \in Rows'
                    /\ pc'[q] = "listing" => dnc'[draft'[q].phone] # "active"
                    /\ pc'[q] = "importing" /\ draft'[q].asked => ~Known(op[q], Head(draft[q].rows))'
  BY DEF LookupsHold, Answers
<1>1. LookupsHold /\ q \notin excused /\ ContactDraft(q) /\ ListDraft(q) /\ DncDraft(q) /\ ImportDraft(q)
  BY DEF StoredInv, Drafts
<1>2. CASE pc[q] = "creating"
  <2>1. q \in InFlight /\ <<"phone", draft[q].phone>> \in keys[q]
    BY <1>1, <1>2 DEF InFlight, Steps, ContactDraft
  <2>2. OfPhone(draft[q].phone) = {} => OfPhone(draft[q].phone)' = {}
    BY <2>1 DEF FindsTheSame
  <2> QED
    BY <1>1, <1>2, <2>2 DEF LookupsHold
<1>3. CASE pc[q] \in {"writing", "adding", "removing"}
  <2>1. q \in InFlight /\ <<"row", draft[q].id>> \in keys[q]
    BY <1>1, <1>3 DEF InFlight, Steps, ContactDraft, ListDraft
  <2> QED
    BY <1>1, <1>3, <2>1 DEF LookupsHold, FindsTheSame
<1>4. CASE pc[q] = "listing"
  <2>1. q \in InFlight /\ <<"dnc", draft[q].phone>> \in keys[q]
    BY <1>1, <1>4 DEF InFlight, Steps, DncDraft
  <2> QED
    BY <1>1, <1>4, <2>1 DEF LookupsHold, FindsTheSame
<1>5. CASE pc[q] = "importing" /\ draft[q].asked
  <2> DEFINE h == Head(draft[q].rows)
  <2>1. /\ draft[q].rows # <<>> /\ draft[q].rows \in Seq(Phones)
        /\ op[q] \in {"import", "dncimport"}
        /\ \A n \in DOMAIN draft[q].rows : Key(op[q], draft[q].rows[n]) \in keys[q]
    BY <1>1, <1>5 DEF ImportDraft, Importing
  <2>2. h = draft[q].rows[1] /\ 1 \in DOMAIN draft[q].rows
    BY <2>1
  <2>3. q \in InFlight /\ Key(op[q], h) \in keys[q]
    BY <1>5, <2>1, <2>2 DEF InFlight, Steps
  <2>4. ~Known(op[q], h)
    BY <1>1, <1>5 DEF LookupsHold
  <2> HIDE DEF h
  <2>5. CASE op[q] = "import"
    <3>1. OfPhone(h) = {} /\ <<"phone", h>> \in keys[q]
      BY <2>3, <2>4, <2>5, KeyFacts DEF Known
    <3>2. OfPhone(h)' = {}
      BY <2>3, <3>1 DEF h, FindsTheSame
    <3> QED
      BY <1>5, <2>5, <3>2 DEF Known, h
  <2>6. CASE op[q] = "dncimport"
    <3>1. dnc[h] # "active" /\ <<"dnc", h>> \in keys[q]
      BY <2>3, <2>4, <2>6, KeyFacts DEF Known
    <3>2. dnc'[h] # "active"
      BY <2>3, <3>1 DEF FindsTheSame
    <3> QED
      BY <1>5, <2>6, <3>2 DEF Known, h
  <2> QED
    BY <2>1, <2>5, <2>6
<1> QED
  BY <1>2, <1>3, <1>4, <1>5

(* A contact is inserted. *)
LEMMA ContactCommitted ==
  ASSUME NEW r \in Requests, StoredInv, CommitContact(r), OfPhone(draft[r].phone) = {}
  PROVE  StoredInv'
<1> DEFINE p == draft[r].phone
           new == <<r, p>>
<1>1. /\ pc[r] = "creating" /\ Finish(r, "ok")
      /\ phone' = [phone EXCEPT ![new] = p]
      /\ fields' = [fields EXCEPT ![new] = {q \in {r} : op[q] = "book"}]
      /\ UNCHANGED <<members, count, dnc, promised, excused, skewed>>
  BY DEF CommitContact, lists, listing
<1>2. /\ TypeOK /\ p \in Phones /\ new \in Ids /\ p # "none"
      /\ pc[r] \in Steps /\ "ok" \in Answers /\ r \in InFlight /\ <<"phone", p>> \in keys[r]
  BY <1>1, ContactsAssumption
     DEF StoredInv, Drafts, ContactDraft, Creating, Ids, Steps, Answers, InFlight
<1>3. /\ pc' = [pc EXCEPT ![r] = "ok"] /\ pc'[r] = "ok" /\ pc[r] \notin Answers
      /\ pc' \in [Requests -> {"idle"} \cup Steps \cup Answers]
      /\ op' = op /\ keys' \in [Requests -> SUBSET RowKeys] /\ draft' \in [Requests -> AnyDraft]
      /\ \A q \in Requests \ {r} : /\ pc'[q] = pc[q] /\ op'[q] = op[q]
                                   /\ keys'[q] = keys[q] /\ draft'[q] = draft[q]
  BY <1>1, <1>2, FinishFacts
<1>4. phone[new] = "none"
  <2>1. new[1] = r
    OBVIOUS
  <2> QED
    BY <1>1, <1>2, <2>1 DEF StoredInv, Drafts, RowsBorn, Rows, TypeOK
<1> HIDE DEF new, p
<1>5. /\ Rows' = Rows \cup {new}
      /\ phone'[new] = p
      /\ \A i \in Rows : phone'[i] = phone[i] /\ fields'[i] = fields[i] /\ i # new
      /\ fields'[new] = {q \in {r} : op[q] = "book"}
  BY <1>1, <1>2, <1>4 DEF Rows, TypeOK
<1>6. /\ \A x : x # p => OfPhone(x)' = OfPhone(x)
  BY <1>5 DEF OfPhone
<1>7. /\ \A q \in Requests : ContactDraft(q)' /\ ListDraft(q)' /\ DncDraft(q)' /\ ImportDraft(q)'
      /\ Overlaps'
  BY <1>1, <1>2, <1>3, AnsweredKeeps DEF StoredInv
<1>8. Drafts'
  <2>1. TypeOK'
    <3>1. phone' \in [Ids -> Phones \cup {"none"}] /\ fields' \in [Ids -> SUBSET Requests]
      BY <1>1, <1>2 DEF TypeOK
    <3>2. members' \subseteq Lists \X Rows'
      BY <1>1, <1>2, <1>5 DEF TypeOK
    <3> QED
      BY <1>1, <1>2, <1>3, <3>1, <3>2 DEF TypeOK, AnyDraft
  <2>2. RowsBorn'
    <3>1. \A i \in Rows : i[1] \in Requests /\ pc[i[1]] = "ok"
      BY DEF StoredInv, Drafts, RowsBorn, Rows, Ids
    <3>2. new[1] = r
      BY DEF new
    <3> QED
      BY <1>3, <1>5, <3>1, <3>2 DEF RowsBorn
  <2> QED
    BY <1>1, <1>7, <2>1, <2>2 DEF StoredInv, Drafts
<1>9. LookupsHold'
  <2>1. \A q \in InFlight \ excused : q # r => <<"phone", p>> \notin keys[q]
    BY <1>2, OthersExcused
  <2>2. \A q \in InFlight \ excused' : pc'[q] \notin Answers => FindsTheSame(q)
    BY <1>1, <1>2, <1>3, <1>5, <1>6, <2>1 DEF FindsTheSame
  <2>3. \A q \in Requests : \/ pc'[q] \in Answers
                            \/ pc'[q] = pc[q] /\ op'[q] = op[q] /\ draft'[q] = draft[q]
    BY <1>2, <1>3
  <2>4. excused \subseteq excused'
    BY <1>1
  <2> QED
    BY <2>2, <2>3, <2>4, LookupsKept
<1>10. WritersCarry'
  <2> SUFFICES ASSUME NEW q \in Requests, q # r, pc[q] = "writing", draft[q].id \in Rows'
               PROVE  /\ fields'[draft[q].id] \subseteq draft[q].fields \cup excused
                      /\ draft[q].fields \subseteq fields'[draft[q].id] \cup excused \cup {q}
    BY <1>1, <1>3 DEF WritersCarry, Answers
  <2>1. draft[q].id # new
    <3>1. new[1] = r
      BY DEF new
    <3> QED
      BY <1>1, <3>1 DEF StoredInv, Drafts, ContactDraft
  <2> QED
    BY <1>5, <2>1 DEF StoredInv, WritersCarry
<1>11. ConfirmedIsStored'
  <2>1. ASSUME op[r] = "book"
        PROVE  new \in Rows' /\ r \in fields'[new]
    BY <1>5, <2>1
  <2>2. op[r] \in {"create", "lead", "book"}
    BY <1>1 DEF StoredInv, Drafts, ContactDraft
  <2>3. \A q \in Requests \ {r} : pc'[q] = pc[q] /\ op'[q] = op[q]
    BY <1>3
  <2> QED
    BY <1>1, <1>3, <1>5, <2>1, <2>2, <2>3 DEF StoredInv, ConfirmedIsStored
<1> QED
  BY <1>7, <1>8, <1>9, <1>10, <1>11 DEF StoredInv

(* The fields of a contact are written, if it is still there. *)
LEMMA FieldCommitted ==
  ASSUME NEW r \in Requests, StoredInv, CommitField(r)
  PROVE  StoredInv'
<1> DEFINE i == draft[r].id
           f == draft[r].fields
<1>1. /\ pc[r] = "writing" /\ Finish(r, "ok")
      /\ fields' = IF i \in Rows THEN [fields EXCEPT ![i] = f] ELSE fields
      /\ UNCHANGED <<phone, members, count, dnc, promised, excused, skewed>>
  BY DEF CommitField, lists, listing
<1>2. /\ TypeOK /\ i \in Ids /\ f \in SUBSET Requests /\ r \in f
      /\ pc[r] \in Steps /\ "ok" \in Answers /\ r \in InFlight /\ <<"row", i>> \in keys[r]
      /\ op[r] \in {"book", "cancel", "callback"}
  BY <1>1 DEF StoredInv, Drafts, ContactDraft, Writing, Steps, Answers, InFlight
<1>3. /\ pc' = [pc EXCEPT ![r] = "ok"] /\ pc'[r] = "ok" /\ pc[r] \notin Answers
      /\ pc' \in [Requests -> {"idle"} \cup Steps \cup Answers]
      /\ op' = op /\ keys' \in [Requests -> SUBSET RowKeys] /\ draft' \in [Requests -> AnyDraft]
      /\ \A q \in Requests \ {r} : /\ pc'[q] = pc[q] /\ op'[q] = op[q]
                                   /\ keys'[q] = keys[q] /\ draft'[q] = draft[q]
  BY <1>1, <1>2, FinishFacts
<1> HIDE DEF i, f
<1>4. Rows' = Rows /\ (\A x : OfPhone(x)' = OfPhone(x)) /\ (\A x, y : Known(x, y)' = Known(x, y))
  BY <1>1 DEF Rows, OfPhone, Known
<1>5. /\ fields' \in [Ids -> SUBSET Requests]
      /\ i \in Rows => fields'[i] = f
      /\ \A j \in Rows \ {i} : fields'[j] = fields[j]
  BY <1>1, <1>2, <1>4 DEF TypeOK, Rows
<1>6. /\ \A q \in Requests : ContactDraft(q)' /\ ListDraft(q)' /\ DncDraft(q)' /\ ImportDraft(q)'
      /\ Overlaps'
  BY <1>1, <1>2, <1>3, AnsweredKeeps DEF StoredInv
<1>7. Drafts'
  <2>1. TypeOK'
    BY <1>1, <1>2, <1>3, <1>4, <1>5 DEF TypeOK, AnyDraft
  <2>2. RowsBorn'
    BY <1>3, <1>4 DEF StoredInv, Drafts, RowsBorn, Rows, Ids
  <2> QED
    BY <1>1, <1>6, <2>1, <2>2 DEF StoredInv, Drafts
<1>8. LookupsHold'
  <2>1. \A q \in InFlight \ excused' : pc'[q] \notin Answers => FindsTheSame(q)
    BY <1>1, <1>4 DEF FindsTheSame
  <2>2. \A q \in Requests : \/ pc'[q] \in Answers
                            \/ pc'[q] = pc[q] /\ op'[q] = op[q] /\ draft'[q] = draft[q]
    BY <1>2, <1>3
  <2>3. excused \subseteq excused'
    BY <1>1
  <2> QED
    BY <2>1, <2>2, <2>3, LookupsKept
<1>9. ASSUME NEW q \in Requests \ {r}, pc[q] = "writing", draft[q].id = i
      PROVE  q \in excused /\ r \in excused
  <2>1. q \in InFlight /\ <<"row", i>> \in keys[q]
    BY <1>9 DEF StoredInv, Drafts, ContactDraft, InFlight, Steps
  <2> QED
    BY <1>2, <2>1, OthersExcused
<1>10. i \in Rows => fields[i] \subseteq f \cup excused /\ f \subseteq fields[i] \cup excused \cup {r}
  BY <1>1 DEF StoredInv, WritersCarry, i, f
<1>11. WritersCarry'
  <2> SUFFICES ASSUME NEW q \in Requests, q # r, pc[q] = "writing", draft[q].id \in Rows
               PROVE  /\ fields'[draft[q].id] \subseteq draft[q].fields \cup excused
                      /\ draft[q].fields \subseteq fields'[draft[q].id] \cup excused \cup {q}
    BY <1>1, <1>3, <1>4 DEF WritersCarry
  <2>1. /\ fields[draft[q].id] \subseteq draft[q].fields \cup excused
        /\ draft[q].fields \subseteq fields[draft[q].id] \cup excused \cup {q}
    BY DEF StoredInv, WritersCarry
  <2>2. CASE draft[q].id # i
    BY <1>5, <2>1, <2>2
  <2>3. CASE draft[q].id = i
    BY <1>5, <1>9, <1>10, <2>1, <2>3
  <2> QED
    BY <2>2, <2>3
<1>12. ConfirmedIsStored'
  <2> SUFFICES ASSUME NEW q \in Requests \ excused, pc'[q] = "ok",
                      op[q] \in {"book", "cancel", "callback"}
               PROVE  \E j \in Rows : q \in fields'[j]
    BY <1>1, <1>3, <1>4 DEF ConfirmedIsStored
  <2>1. CASE q = r
    <3>1. i \in Rows
      BY <1>1, <2>1 DEF StoredInv, LookupsHold, i
    <3> QED
      BY <1>2, <1>5, <2>1, <3>1
  <2>2. CASE q # r
    <3>1. PICK j \in Rows : q \in fields[j]
      BY <1>3, <2>2 DEF StoredInv, ConfirmedIsStored
    <3> QED
      BY <1>5, <1>10, <3>1
  <2> QED
    BY <2>1, <2>2
<1> QED
  BY <1>6, <1>7, <1>8, <1>11, <1>12 DEF StoredInv

(* A request ends and changes lists or the do-not-call list only. *)
LEMMA CommitStored ==
  ASSUME StoredInv, NEW r \in Requests, NEW answer \in Answers, Finish(r, answer), pc[r] \in Steps,
         UNCHANGED <<phone, fields, excused, skewed>>,
         members' \subseteq Lists \X Rows, count' \in [Lists -> Int],
         \A l \in Lists : /\ count[l] # -1 => count'[l] # -1
                          /\ count'[l] # -1 => count'[l] \in Nat,
         dnc' \in [Phones -> {"none", "active", "inactive"}], promised' \subseteq Phones,
         \A q \in InFlight \ excused : q # r =>
           \A x : <<"dnc", x>> \in keys[q] /\ dnc[x] # "active" => dnc'[x] # "active",
         answer = "ok" /\ op[r] \in {"book", "cancel", "callback"} => r \in excused
  PROVE  StoredInv'
<1>1. TypeOK
  BY DEF StoredInv, Drafts
<1>2. /\ pc' = [pc EXCEPT ![r] = answer] /\ pc'[r] = answer /\ pc[r] \notin Answers
      /\ pc' \in [Requests -> {"idle"} \cup Steps \cup Answers]
      /\ op' = op /\ keys' \in [Requests -> SUBSET RowKeys] /\ draft' \in [Requests -> AnyDraft]
      /\ \A q \in Requests \ {r} : /\ pc'[q] = pc[q] /\ op'[q] = op[q]
                                   /\ keys'[q] = keys[q] /\ draft'[q] = draft[q]
  BY <1>1, FinishFacts
<1>3. Rows' = Rows /\ (\A x : OfPhone(x)' = OfPhone(x))
  BY DEF Rows, OfPhone
<1>4. /\ \A q \in Requests : ContactDraft(q)' /\ ListDraft(q)' /\ DncDraft(q)' /\ ImportDraft(q)'
      /\ Overlaps'
  BY <1>2, AnsweredKeeps DEF StoredInv
<1>5. Drafts'
  <2>1. TypeOK'
    BY <1>1, <1>2, <1>3 DEF TypeOK, AnyDraft
  <2>2. RowsBorn'
    BY <1>2, <1>3 DEF StoredInv, Drafts, RowsBorn, Rows, Ids, Answers
  <2> QED
    BY <1>4, <2>1, <2>2 DEF StoredInv, Drafts
<1>6. LookupsHold'
  <2>1. \A q \in InFlight \ excused' : pc'[q] \notin Answers => FindsTheSame(q)
    BY <1>2, <1>3 DEF FindsTheSame
  <2>2. \A q \in Requests : \/ pc'[q] \in Answers
                            \/ pc'[q] = pc[q] /\ op'[q] = op[q] /\ draft'[q] = draft[q]
    BY <1>2
  <2>3. excused \subseteq excused'
    OBVIOUS
  <2> QED
    BY <2>1, <2>2, <2>3, LookupsKept
<1>7. WritersCarry'
  BY <1>2, <1>3 DEF WritersCarry, StoredInv, Answers
<1>8. ConfirmedIsStored'
  BY <1>2, <1>3 DEF ConfirmedIsStored, StoredInv
<1> QED
  BY <1>4, <1>5, <1>6, <1>7, <1>8 DEF StoredInv

(* A contact enters or leaves a list. *)
LEMMA ListCommitted ==
  ASSUME StoredInv, NEW r \in Requests, CommitAdd(r) \/ CommitRemove(r)
  PROVE  StoredInv'
<1> DEFINE d == draft[r]
<1>1. /\ pc[r] \in {"adding", "removing"}
      /\ UNCHANGED <<phone, fields, dnc, promised, excused, skewed>>
  BY DEF CommitAdd, CommitRemove, contacts, listing
<1>2. /\ d \in Counting /\ d.count \in Nat /\ d.list \in Lists /\ count[d.list] # -1
      /\ pc[r] \in Steps /\ op[r] \in {"add", "remove"} /\ TypeOK
      /\ \A l \in Lists : count[l] # -1 => count[l] \in Nat
  BY <1>1 DEF StoredInv, Drafts, ListDraft, Counting, Steps
<1>3. PICK answer \in Answers : Finish(r, answer)
  BY DEF CommitAdd, CommitRemove, Answers
<1>4. CASE UNCHANGED lists
  BY <1>4, FailuresStored
<1>5. CASE /\ d.id \in Rows /\ members' = members \cup {<<d.list, d.id>>}
           /\ count' = [count EXCEPT ![d.list] = d.count + 1]
  <2>1. members' \subseteq Lists \X Rows
    BY <1>2, <1>5 DEF TypeOK
  <2>2. /\ count' \in [Lists -> Int]
        /\ \A l \in Lists : /\ count[l] # -1 => count'[l] # -1
                            /\ count'[l] # -1 => count'[l] \in Nat
    BY <1>2, <1>5 DEF TypeOK
  <2>3. dnc' \in [Phones -> {"none", "active", "inactive"}] /\ promised' \subseteq Phones
    BY <1>1, <1>2 DEF TypeOK
  <2> QED
    BY <1>1, <1>2, <1>3, <2>1, <2>2, <2>3, CommitStored
<1>6. CASE /\ members' = members \ {<<d.list, d.id>>}
           /\ count' = IF d.count > 0 THEN [count EXCEPT ![d.list] = d.count - 1] ELSE count
  <2>1. members' \subseteq Lists \X Rows
    BY <1>2, <1>6 DEF TypeOK
  <2>2. /\ count' \in [Lists -> Int]
        /\ \A l \in Lists : /\ count[l] # -1 => count'[l] # -1
                            /\ count'[l] # -1 => count'[l] \in Nat
    BY <1>2, <1>6 DEF TypeOK
  <2>3. dnc' \in [Phones -> {"none", "active", "inactive"}] /\ promised' \subseteq Phones
    BY <1>1, <1>2 DEF TypeOK
  <2> QED
    BY <1>1, <1>2, <1>3, <2>1, <2>2, <2>3, CommitStored
<1> QED
  BY <1>4, <1>5, <1>6 DEF CommitAdd, CommitRemove

(* A number enters or leaves the do-not-call list. *)
LEMMA ListingCommitted ==
  ASSUME StoredInv, NEW r \in Requests, CommitListing(r) \/ CommitUnlisting(r)
  PROVE  StoredInv'
<1> DEFINE p == draft[r].phone
<1>1. /\ pc[r] \in {"listing", "unlisting"}
      /\ UNCHANGED <<phone, fields, members, count, excused, skewed>>
  BY DEF CommitListing, CommitUnlisting, contacts, lists
<1>2. /\ TypeOK /\ p \in Phones /\ <<"dnc", p>> \in keys[r] /\ r \in InFlight /\ pc[r] \in Steps
      /\ pc[r] = "listing" => op[r] = "dnc"
      /\ \A l \in Lists : count[l] # -1 => count[l] \in Nat
  BY <1>1 DEF StoredInv, Drafts, DncDraft, Creating, InFlight, Steps
<1>3. \A q \in InFlight \ excused : q # r => <<"dnc", p>> \notin keys[q]
  BY <1>2, OthersExcused
<1>4. members' \subseteq Lists \X Rows /\ count' \in [Lists -> Int]
  BY <1>1, <1>2 DEF TypeOK
<1>5. "ok" \in Answers
  BY DEF Answers
<1>6. CASE CommitListing(r) /\ Indexed("dnc", p)
  BY <1>6, FailuresStored
<1>7. CASE CommitListing(r) /\ ~Indexed("dnc", p)
  <2>1. /\ dnc' = [dnc EXCEPT ![p] = "active"] /\ Promise({p}) /\ Finish(r, "ok")
        /\ op[r] = "dnc"
    BY <1>2, <1>7 DEF CommitListing
  <2>2. /\ dnc' \in [Phones -> {"none", "active", "inactive"}] /\ promised' \subseteq Phones
        /\ \A x : x # p => dnc'[x] = dnc[x]
    BY <1>2, <2>1 DEF TypeOK, Promise
  <2>3. \A q \in InFlight \ excused : q # r =>
           \A x : <<"dnc", x>> \in keys[q] /\ dnc[x] # "active" => dnc'[x] # "active"
    BY <1>3, <2>2
  <2> QED
    BY <1>1, <1>2, <1>4, <1>5, <2>1, <2>2, <2>3, CommitStored
<1>8. CASE CommitUnlisting(r)
  <2>1. /\ dnc' = [dnc EXCEPT ![p] = "inactive"] /\ promised' = promised /\ Finish(r, "ok")
        /\ pc[r] = "unlisting"
    BY <1>8 DEF CommitUnlisting
  <2>2. /\ dnc' \in [Phones -> {"none", "active", "inactive"}] /\ promised' \subseteq Phones
        /\ \A x : x # p => dnc'[x] = dnc[x]
    BY <1>2, <2>1 DEF TypeOK
  <2>3. \A q \in InFlight \ excused : q # r =>
           \A x : <<"dnc", x>> \in keys[q] /\ dnc[x] # "active" => dnc'[x] # "active"
    BY <1>3, <2>2
  <2>4. op[r] \in {"book", "cancel", "callback"} => FALSE
    BY <2>1 DEF StoredInv, Drafts, DncDraft
  <2> QED
    BY <1>1, <1>2, <1>4, <1>5, <2>1, <2>2, <2>3, <2>4, CommitStored
<1> QED
  BY <1>6, <1>7, <1>8

(* An import has looked up a row, or inserted it. *)
LEMMA ImportMoves ==
  ASSUME StoredInv, NEW r \in Requests, pc[r] = "importing", NEW d \in Importing,
         draft' = [draft EXCEPT ![r] = d],
         UNCHANGED <<phone, fields, members, count, dnc, promised, excused, skewed, pc, op, keys>>,
         ImportDraft(r)',
         r \notin excused /\ d.asked => ~Known(op[r], Head(d.rows))
  PROVE  StoredInv'
<1>1. TypeOK /\ draft \in [Requests -> AnyDraft] /\ d \in AnyDraft
  BY DEF StoredInv, Drafts, TypeOK, AnyDraft
<1>2. draft'[r] = d /\ \A q \in Requests \ {r} : draft'[q] = draft[q]
  BY <1>1
<1>3. /\ Rows' = Rows /\ InFlight' = InFlight /\ (\A x : OfPhone(x)' = OfPhone(x))
      /\ \A x, y : Known(x, y)' = Known(x, y)
  BY DEF Rows, InFlight, OfPhone, Known
<1>4. Drafts'
  <2>1. TypeOK'
    BY <1>1, <1>3 DEF TypeOK, AnyDraft
  <2>2. ASSUME NEW q \in Requests
        PROVE  ContactDraft(q)' /\ ListDraft(q)' /\ DncDraft(q)' /\ ImportDraft(q)'
    <3>1. CASE q # r
      BY <1>2, <3>1 DEF StoredInv, Drafts, ContactDraft, ListDraft, DncDraft, ImportDraft, Key
    <3>2. CASE q = r
      BY <3>2 DEF ContactDraft, ListDraft, DncDraft
    <3> QED
      BY <3>1, <3>2
  <2> QED
    BY <1>3, <2>1, <2>2 DEF StoredInv, Drafts, RowsBorn
<1>5. Overlaps'
  BY <1>3 DEF StoredInv, Overlaps
<1>6. LookupsHold'
  BY <1>2, <1>3 DEF StoredInv, LookupsHold
<1>7. WritersCarry' /\ ConfirmedIsStored'
  BY <1>2, <1>3 DEF StoredInv, WritersCarry, ConfirmedIsStored
<1> QED
  BY <1>4, <1>5, <1>6, <1>7 DEF StoredInv

(* The rows of a file that are left, one less. *)
LEMMA TailFacts ==
  ASSUME NEW rows \in Seq(Phones), rows # <<>>
  PROVE  /\ Tail(rows) \in Seq(Phones) /\ Head(rows) \in Phones /\ Head(rows) = rows[1]
         /\ 1 \in DOMAIN rows
         /\ \A n \in DOMAIN Tail(rows) : n + 1 \in DOMAIN rows /\ Tail(rows)[n] = rows[n + 1]
  OBVIOUS

(* An import looks up the next row. *)
LEMMA ImportAsked ==
  ASSUME StoredInv, NEW r \in Requests, ImportAsk(r)
  PROVE  StoredInv'
<1> DEFINE rows == draft[r].rows
           new == draft[r].new
<1>1. /\ pc[r] = "importing" /\ rows # <<>> /\ ~draft[r].asked
      /\ UNCHANGED <<phone, fields, members, count, dnc, promised, excused, skewed, pc, op, keys>>
  BY DEF ImportAsk, contacts, lists, listing
<1>2. /\ draft \in [Requests -> AnyDraft] /\ draft[r] \in Importing
      /\ op[r] \in {"import", "dncimport"}
      /\ \A p \in new : Key(op[r], p) \in keys[r]
      /\ \A n \in DOMAIN rows : Key(op[r], rows[n]) \in keys[r]
  BY <1>1 DEF StoredInv, Drafts, TypeOK, AnyDraft, ImportDraft
<1>3. rows \in Seq(Phones) /\ new \in SUBSET Phones
  BY <1>2 DEF Importing
<1>4. CASE draft' = [draft EXCEPT ![r].rows = Tail(@)]
  <2> DEFINE d == [draft[r] EXCEPT !.rows = Tail(@)]
  <2>1. /\ d.rows = Tail(rows) /\ d.new = new /\ d.asked = FALSE /\ d \in Importing
        /\ draft' = [draft EXCEPT ![r] = d]
    BY <1>1, <1>2, <1>3, <1>4, TailFacts DEF Importing
  <2>2. \A n \in DOMAIN Tail(rows) : Key(op[r], Tail(rows)[n]) \in keys[r]
    BY <1>1, <1>2, <1>3, TailFacts
  <2> HIDE DEF d, rows, new
  <2>3. draft'[r] = d
    BY <1>2, <2>1
  <2>4. ImportDraft(r)'
    BY <1>1, <1>2, <2>1, <2>2, <2>3 DEF ImportDraft, Key
  <2> QED
    BY <1>1, <2>1, <2>4, ImportMoves
<1>5. CASE /\ draft' = [draft EXCEPT ![r].asked = TRUE]
           /\ ~Known(op[r], Head(rows)) /\ Head(rows) \notin new
  <2> DEFINE d == [draft[r] EXCEPT !.asked = TRUE]
  <2>1. /\ d.rows = rows /\ d.new = new /\ d.asked = TRUE /\ d \in Importing
        /\ draft' = [draft EXCEPT ![r] = d]
    BY <1>2, <1>3, <1>5 DEF Importing
  <2> HIDE DEF d, rows, new
  <2>2. draft'[r] = d
    BY <1>2, <2>1
  <2>3. ImportDraft(r)'
    BY <1>1, <1>2, <1>5, <2>1, <2>2 DEF ImportDraft, Key
  <2> QED
    BY <1>1, <1>5, <2>1, <2>3, ImportMoves
<1> QED
  BY <1>4, <1>5 DEF ImportAsk

(* An import inserts a row, or fails with it. *)
LEMMA ImportInserted ==
  ASSUME StoredInv, NEW r \in Requests, ImportInsert(r)
  PROVE  StoredInv'
<1> DEFINE rows == draft[r].rows
           new == draft[r].new
           d == [rows |-> Tail(rows), new |-> new \cup {Head(rows)}, asked |-> FALSE]
<1>1. CASE Finish(r, "failed")
  BY <1>1, FailuresStored
<1>2. CASE /\ draft' = [draft EXCEPT ![r] = d]
           /\ UNCHANGED <<pc, op, keys>>
  <2>1. /\ pc[r] = "importing" /\ draft[r].asked
        /\ UNCHANGED <<phone, fields, members, count, dnc, promised, excused, skewed>>
    BY DEF ImportInsert, contacts, lists, listing
  <2>2. /\ draft \in [Requests -> AnyDraft] /\ draft[r] \in Importing /\ rows # <<>>
        /\ op[r] \in {"import", "dncimport"}
        /\ \A p \in new : Key(op[r], p) \in keys[r]
        /\ \A n \in DOMAIN rows : Key(op[r], rows[n]) \in keys[r]
    BY <2>1 DEF StoredInv, Drafts, TypeOK, AnyDraft, ImportDraft
  <2>3. rows \in Seq(Phones) /\ new \in SUBSET Phones
    BY <2>2 DEF Importing
  <2>4. /\ Tail(rows) \in Seq(Phones) /\ Head(rows) \in Phones /\ Key(op[r], Head(rows)) \in keys[r]
        /\ \A n \in DOMAIN Tail(rows) : Key(op[r], Tail(rows)[n]) \in keys[r]
    BY <2>2, <2>3, TailFacts
  <2>5. d \in Importing /\ d.rows = Tail(rows) /\ d.new = new \cup {Head(rows)} /\ d.asked = FALSE
    BY <2>3, <2>4 DEF Importing
  <2> HIDE DEF d, rows, new
  <2>6. draft'[r] = d
    BY <1>2, <2>2
  <2>7. ImportDraft(r)'
    BY <1>2, <2>1, <2>2, <2>4, <2>5, <2>6 DEF ImportDraft, Key
  <2> QED
    BY <1>2, <2>1, <2>5, <2>7, ImportMoves
<1> QED
  BY <1>1, <1>2 DEF ImportInsert

(* The rows of an import are committed. *)
LEMMA ImportCommitted ==
  ASSUME NEW r \in Requests, StoredInv, CommitImport(r)
  PROVE  StoredInv'
<1> DEFINE new == draft[r].new
<1>1. /\ pc[r] = "importing" /\ Finish(r, "ok")
      /\ UNCHANGED <<fields, members, count, excused, skewed>>
  BY DEF CommitImport, lists
<1>2. /\ TypeOK /\ new \in SUBSET Phones /\ op[r] \in {"import", "dncimport"}
      /\ \A p \in new : Key(op[r], p) \in keys[r]
      /\ r \in InFlight /\ pc[r] \in Steps /\ "ok" \in Answers
      /\ \A l \in Lists : count[l] # -1 => count[l] \in Nat
  BY <1>1 DEF StoredInv, Drafts, ImportDraft, Importing, InFlight, Steps, Answers
<1>3. CASE op[r] = "dncimport"
  <2>1. /\ dnc' = [p \in Phones |-> IF p \in new THEN "active" ELSE dnc[p]]
        /\ Promise(new) /\ phone' = phone
    BY <1>3 DEF CommitImport
  <2>2. dnc' \in [Phones -> {"none", "active", "inactive"}] /\ promised' \subseteq Phones
    BY <1>2, <2>1 DEF TypeOK, Promise
  <2>3. \A p \in new : <<"dnc", p>> \in keys[r]
    BY <1>2, <1>3, KeyFacts
  <2>4. ASSUME NEW q \in InFlight \ excused, q # r, NEW x, <<"dnc", x>> \in keys[q], dnc[x] # "active"
        PROVE  dnc'[x] # "active"
    <3>1. x \notin new
      BY <1>2, <2>3, <2>4, OthersExcused
    <3>2. x \in Phones
      BY <1>2, <2>4 DEF TypeOK, RowKeys, InFlight
    <3> QED
      BY <2>1, <2>4, <3>1, <3>2
  <2>5. members' \subseteq Lists \X Rows /\ count' \in [Lists -> Int]
    BY <1>1, <1>2 DEF TypeOK
  <2> QED
    BY <1>1, <1>2, <1>3, <2>1, <2>2, <2>4, <2>5, CommitStored
<1>4. CASE op[r] = "import"
  <2>1. /\ phone' = [i \in Ids |-> IF i[1] = r /\ i[2] \in new THEN i[2] ELSE phone[i]]
        /\ UNCHANGED <<dnc, promised>>
    BY <1>4 DEF CommitImport, listing
  <2>2. /\ pc' = [pc EXCEPT ![r] = "ok"] /\ pc'[r] = "ok" /\ pc[r] \notin Answers
        /\ pc' \in [Requests -> {"idle"} \cup Steps \cup Answers]
        /\ op' = op /\ keys' \in [Requests -> SUBSET RowKeys] /\ draft' \in [Requests -> AnyDraft]
        /\ \A q \in Requests \ {r} : /\ pc'[q] = pc[q] /\ op'[q] = op[q]
                                     /\ keys'[q] = keys[q] /\ draft'[q] = draft[q]
    BY <1>1, <1>2, FinishFacts
  <2>3. \A i \in Rows : i \in Ids /\ i[1] # r /\ phone'[i] = phone[i]
    <3>1. \A i \in Rows : i \in Ids /\ i[1] # r
      BY <1>1 DEF StoredInv, Drafts, RowsBorn, Rows
    <3> QED
      BY <2>1, <3>1
  <2>4. \A i \in Ids : phone'[i] # "none" => i \in Rows \/ (i[1] = r /\ i[2] \in new /\ phone'[i] = i[2])
    BY <2>1 DEF Rows
  <2>5. Rows \subseteq Rows' /\ Rows' \subseteq Ids
    BY <2>3 DEF Rows
  <2>6. \A x : x \notin new => OfPhone(x)' \subseteq OfPhone(x)
    BY <2>3, <2>4 DEF OfPhone, Rows
  <2>7. /\ \A q \in Requests : ContactDraft(q)' /\ ListDraft(q)' /\ DncDraft(q)' /\ ImportDraft(q)'
        /\ Overlaps'
    BY <1>1, <1>2, <2>2, AnsweredKeeps DEF StoredInv
  <2>8. Drafts'
    <3>1. phone' \in [Ids -> Phones \cup {"none"}]
      BY <1>2, <2>1 DEF TypeOK
    <3>2. TypeOK'
      <4>1. members' \subseteq Lists \X Rows'
        BY <1>1, <1>2, <2>5 DEF TypeOK
      <4> QED
        BY <1>1, <1>2, <2>1, <2>2, <3>1, <4>1 DEF TypeOK, AnyDraft
    <3>3. RowsBorn'
      <4>1. \A i \in Rows : i[1] \in Requests /\ pc[i[1]] = "ok"
        BY <2>5 DEF StoredInv, Drafts, RowsBorn, Rows, Ids
      <4>2. \A i \in Rows' : i \in Rows \/ i[1] = r
        BY <2>4, <2>5 DEF Rows
      <4> QED
        BY <2>2, <4>1, <4>2 DEF RowsBorn
    <3> QED
      BY <1>1, <2>7, <3>2, <3>3 DEF StoredInv, Drafts
  <2>9. LookupsHold'
    <3>1. \A p \in new : <<"phone", p>> \in keys[r]
      BY <1>2, <1>4, KeyFacts
    <3>2. \A q \in InFlight \ excused : q # r => \A p \in new : <<"phone", p>> \notin keys[q]
      BY <1>2, <3>1, OthersExcused
    <3>3. \A q \in InFlight \ excused' : pc'[q] \notin Answers => FindsTheSame(q)
      BY <1>1, <1>2, <2>1, <2>2, <2>5, <2>6, <3>2 DEF FindsTheSame
    <3>4. \A q \in Requests : \/ pc'[q] \in Answers
                              \/ pc'[q] = pc[q] /\ op'[q] = op[q] /\ draft'[q] = draft[q]
      BY <1>2, <2>2
    <3>5. excused \subseteq excused'
      BY <1>1
    <3> QED
      BY <3>3, <3>4, <3>5, LookupsKept
  <2>10. WritersCarry'
    <3> SUFFICES ASSUME NEW q \in Requests, q # r, pc[q] = "writing", draft[q].id \in Rows'
                 PROVE  /\ fields[draft[q].id] \subseteq draft[q].fields \cup excused
                        /\ draft[q].fields \subseteq fields[draft[q].id] \cup excused \cup {q}
      BY <1>1, <2>2 DEF WritersCarry, Answers
    <3>1. draft[q].id[1] # r
      BY <1>1 DEF StoredInv, Drafts, ContactDraft
    <3>2. draft[q].id \in Rows
      BY <2>4, <2>5, <3>1 DEF Rows
    <3> QED
      BY <3>2 DEF StoredInv, WritersCarry
  <2>11. ConfirmedIsStored'
    BY <1>1, <1>4, <2>2, <2>5 DEF StoredInv, ConfirmedIsStored
  <2> QED
    BY <2>7, <2>8, <2>9, <2>10, <2>11 DEF StoredInv
<1> QED
  BY <1>2, <1>3, <1>4

-------------------------------------------------------------------------------
(* What others do to the rows *)

(* Contacts change while requests are in flight: those that looked up what
   changes, and the entries that go, are excused. *)
LEMMA RowsStored ==
  ASSUME StoredInv, UNCHANGED <<pc, op, keys, draft, count, dnc, promised>>,
         phone' \in [Ids -> Phones \cup {"none"}], fields' \in [Ids -> SUBSET Requests],
         members' \subseteq Lists \X Rows', Rows' \subseteq Rows,
         excused \subseteq excused', excused' \subseteq Requests,
         skewed \subseteq skewed', skewed' \subseteq Lists,
         \A q \in InFlight \ excused' : FindsTheSame(q),
         \A i \in Rows : fields[i] \subseteq fields'[i] \cup excused',
         \A i \in Rows' : fields'[i] \subseteq fields[i],
         \A i \in Rows \ Rows' : fields[i] \subseteq excused'
  PROVE  StoredInv'
<1>1. InFlight' = InFlight
  BY DEF InFlight
<1>2. Drafts'
  <2>1. TypeOK'
    BY DEF StoredInv, Drafts, TypeOK
  <2>2. RowsBorn'
    BY DEF StoredInv, Drafts, RowsBorn
  <2>3. ASSUME NEW q \in Requests
        PROVE  ContactDraft(q)' /\ ListDraft(q)' /\ DncDraft(q)' /\ ImportDraft(q)'
    BY DEF StoredInv, Drafts, ContactDraft, ListDraft, DncDraft, ImportDraft, Key
  <2> QED
    BY <2>1, <2>2, <2>3 DEF StoredInv, Drafts
<1>3. Overlaps'
  BY <1>1 DEF StoredInv, Overlaps
<1>4. LookupsHold'
  <2>1. \A q \in Requests : \/ pc'[q] \in Answers
                            \/ pc'[q] = pc[q] /\ op'[q] = op[q] /\ draft'[q] = draft[q]
    OBVIOUS
  <2>2. \A q \in InFlight \ excused' : pc'[q] \notin Answers => FindsTheSame(q)
    OBVIOUS
  <2> QED
    BY <2>1, <2>2, LookupsKept
<1>5. WritersCarry'
  <2> SUFFICES ASSUME NEW q \in Requests, pc[q] = "writing", draft[q].id \in Rows'
               PROVE  /\ fields'[draft[q].id] \subseteq draft[q].fields \cup excused'
                      /\ draft[q].fields \subseteq fields'[draft[q].id] \cup excused' \cup {q}
    BY DEF WritersCarry
  <2>1. /\ fields[draft[q].id] \subseteq draft[q].fields \cup excused
        /\ draft[q].fields \subseteq fields[draft[q].id] \cup excused \cup {q}
    BY DEF StoredInv, WritersCarry
  <2> QED
    BY <2>1
<1>6. ConfirmedIsStored'
  <2> SUFFICES ASSUME NEW q \in Requests \ excused', pc[q] = "ok",
                      op[q] \in {"book", "cancel", "callback"}
               PROVE  \E j \in Rows' : q \in fields'[j]
    BY DEF ConfirmedIsStored
  <2>1. PICK j \in Rows : q \in fields[j]
    BY DEF StoredInv, ConfirmedIsStored
  <2> QED
    BY <2>1
<1> QED
  BY <1>2, <1>3, <1>4, <1>5, <1>6 DEF StoredInv

(* A contact is deleted. *)
LEMMA ContactDeleted ==
  ASSUME StoredInv, NEW i \in Ids, DeleteContact(i)
  PROVE  StoredInv'
<1> DEFINE others == {q \in InFlight : <<"row", i>> \in keys[q]}
<1>1. /\ i \in Rows /\ phone' = [phone EXCEPT ![i] = "none"]
      /\ fields' = [fields EXCEPT ![i] = {}] /\ members' = {m \in members : m[2] # i}
      /\ excused' = excused \cup fields[i] \cup others
      /\ skewed' = skewed \cup {l \in Lists : <<l, i>> \in members}
      /\ UNCHANGED <<pc, op, keys, draft, count, dnc, promised>>
  BY DEF DeleteContact, listing, requests
<1>2. TypeOK /\ others \subseteq Requests
  BY DEF StoredInv, Drafts, InFlight
<1>3. Rows' = Rows \ {i} /\ \A x : OfPhone(x)' \subseteq OfPhone(x)
  BY <1>1, <1>2 DEF Rows, OfPhone, TypeOK
<1>4. /\ phone' \in [Ids -> Phones \cup {"none"}] /\ fields' \in [Ids -> SUBSET Requests]
      /\ members' \subseteq Lists \X Rows'
      /\ excused' \subseteq Requests /\ skewed' \subseteq Lists
  BY <1>1, <1>2, <1>3 DEF TypeOK
<1>5. \A q \in InFlight \ excused' : FindsTheSame(q)
  BY <1>1, <1>3 DEF FindsTheSame
<1>6. /\ \A j \in Rows : fields[j] \subseteq fields'[j] \cup excused'
      /\ \A j \in Rows' : fields'[j] \subseteq fields[j]
      /\ \A j \in Rows \ Rows' : fields[j] \subseteq excused'
  BY <1>1, <1>2, <1>3 DEF TypeOK, Rows
<1> QED
  BY <1>1, <1>3, <1>4, <1>5, <1>6, RowsStored

(* A contact gets another number, or its fields are overwritten. *)
LEMMA ContactChanged ==
  ASSUME StoredInv, NEW i \in Ids,
         ReplaceFields(i) \/ \E p \in Phones : ChangePhone(i, p)
  PROVE  StoredInv'
<1>1. TypeOK
  BY DEF StoredInv, Drafts
<1>2. CASE ReplaceFields(i)
  <2>1. /\ i \in Rows /\ fields' = [fields EXCEPT ![i] = {}] /\ excused' = excused \cup fields[i]
        /\ UNCHANGED <<phone, members, skewed, pc, op, keys, draft, count, dnc, promised>>
    BY <1>2 DEF ReplaceFields, lists, listing, requests
  <2>2. Rows' = Rows /\ \A x : OfPhone(x)' = OfPhone(x)
    BY <2>1 DEF Rows, OfPhone
  <2>3. /\ phone' \in [Ids -> Phones \cup {"none"}] /\ fields' \in [Ids -> SUBSET Requests]
        /\ members' \subseteq Lists \X Rows'
        /\ excused' \subseteq Requests /\ skewed' \subseteq Lists
    BY <1>1, <2>1, <2>2 DEF TypeOK
  <2>4. \A q \in InFlight \ excused' : FindsTheSame(q)
    BY <2>1, <2>2 DEF FindsTheSame
  <2>5. /\ \A j \in Rows : fields[j] \subseteq fields'[j] \cup excused'
        /\ \A j \in Rows' : fields'[j] \subseteq fields[j]
        /\ \A j \in Rows \ Rows' : fields[j] \subseteq excused'
    BY <1>1, <2>1, <2>2 DEF TypeOK, Rows
  <2> QED
    BY <2>1, <2>2, <2>3, <2>4, <2>5, RowsStored
<1>3. ASSUME NEW p \in Phones, ChangePhone(i, p)
      PROVE  StoredInv'
  <2>1. /\ i \in Rows /\ phone' = [phone EXCEPT ![i] = p]
        /\ excused' = excused \cup {q \in InFlight : <<"phone", p>> \in keys[q]}
        /\ UNCHANGED <<fields, members, skewed, pc, op, keys, draft, count, dnc, promised>>
    BY <1>3 DEF ChangePhone, lists, listing, requests
  <2>2. Rows' = Rows /\ \A x : x # p => OfPhone(x)' \subseteq OfPhone(x)
    BY <1>1, <2>1, ContactsAssumption DEF Rows, OfPhone, TypeOK
  <2>3. /\ phone' \in [Ids -> Phones \cup {"none"}] /\ fields' \in [Ids -> SUBSET Requests]
        /\ members' \subseteq Lists \X Rows'
        /\ excused' \subseteq Requests /\ skewed' \subseteq Lists
    BY <1>1, <2>1, <2>2 DEF TypeOK, InFlight
  <2>4. \A q \in InFlight \ excused' : FindsTheSame(q)
    BY <2>1, <2>2 DEF FindsTheSame
  <2>5. /\ \A j \in Rows : fields[j] \subseteq fields'[j] \cup excused'
        /\ \A j \in Rows' : fields'[j] \subseteq fields[j]
        /\ \A j \in Rows \ Rows' : fields[j] \subseteq excused'
    BY <2>1, <2>2
  <2> QED
    BY <2>1, <2>2, <2>3, <2>4, <2>5, RowsStored
<1> QED
  BY <1>2, <1>3

(* A list is created. *)
LEMMA ListCreated ==
  ASSUME StoredInv, NEW l \in Lists, CreateList(l)
  PROVE  StoredInv'
<1>1. /\ count' = [count EXCEPT ![l] = 0] /\ count[l] = -1
      /\ UNCHANGED <<phone, fields, members, dnc, promised, pc, op, keys, draft, excused, skewed>>
  BY DEF CreateList, contacts, listing, requests
<1>2. /\ Rows' = Rows /\ InFlight' = InFlight /\ (\A x : OfPhone(x)' = OfPhone(x))
      /\ \A x, y : Known(x, y)' = Known(x, y)
  BY <1>1 DEF Rows, InFlight, OfPhone, Known
<1>3. Drafts'
  <2>1. TypeOK'
    BY <1>1, <1>2 DEF StoredInv, Drafts, TypeOK
  <2>2. /\ \A m \in Lists : count[m] # -1 => count'[m] # -1
        /\ \A m \in Lists : count'[m] # -1 => count'[m] \in Nat
    BY <1>1 DEF StoredInv, Drafts, TypeOK
  <2>3. ASSUME NEW q \in Requests
        PROVE  ContactDraft(q)' /\ ListDraft(q)' /\ DncDraft(q)' /\ ImportDraft(q)'
    <3>1. pc[q] \in {"adding", "removing"} => draft[q].list \in Lists
      BY DEF StoredInv, Drafts, ListDraft, Counting
    <3> QED
      BY <1>1, <2>2, <3>1 DEF StoredInv, Drafts, ContactDraft, ListDraft, DncDraft, ImportDraft, Key
  <2> QED
    BY <1>1, <1>2, <2>1, <2>2, <2>3 DEF StoredInv, Drafts, RowsBorn
<1>4. Overlaps'
  BY <1>1, <1>2 DEF StoredInv, Overlaps
<1>5. LookupsHold'
  BY <1>1, <1>2 DEF StoredInv, LookupsHold
<1>6. WritersCarry' /\ ConfirmedIsStored'
  BY <1>1, <1>2 DEF StoredInv, WritersCarry, ConfirmedIsStored
<1> QED
  BY <1>3, <1>4, <1>5, <1>6 DEF StoredInv

(* No step breaks the invariant. *)
LEMMA StepStored ==
  ASSUME StoredInv, [Next]_vars
  PROVE  StoredInv'
<1>1. ASSUME NEW r \in Requests, ContactRequest(r)
      PROVE  StoredInv'
  <2>1. CASE CommitContact(r)
    BY <2>1, ContactCommitted, FailuresStored
  <2> QED
    BY <1>1, <2>1, ContactRequestsBegin DEF ContactRequest
<1>2. ASSUME NEW r \in Requests, ToolCall(r)
      PROVE  StoredInv'
  BY <1>2, ContactRequestsBegin, FieldCommitted DEF ToolCall
<1>3. ASSUME NEW r \in Requests, ListRequest(r)
      PROVE  StoredInv'
  BY <1>3, CountingBegins, ListCommitted DEF ListRequest
<1>4. ASSUME NEW r \in Requests, DncRequest(r)
      PROVE  StoredInv'
  BY <1>4, DncRequestsBegin, ListingCommitted DEF DncRequest
<1>5. ASSUME NEW r \in Requests, Import(r)
      PROVE  StoredInv'
  BY <1>5, ImportBegins, ImportAsked, ImportInserted, FailuresStored, ImportCommitted DEF Import
<1>6. ASSUME NEW r \in Requests, Abort(r) \/ RowRefused(r)
      PROVE  StoredInv'
  BY <1>6, FailuresStored
<1>7. ASSUME NEW i \in Ids,
             DeleteContact(i) \/ ReplaceFields(i) \/ \E p \in Phones : ChangePhone(i, p)
      PROVE  StoredInv'
  BY <1>7, ContactDeleted, ContactChanged
<1>8. ASSUME NEW l \in Lists, CreateList(l)
      PROVE  StoredInv'
  BY <1>8, ListCreated
<1>9. CASE UNCHANGED vars
  <2>1. TypeOK' /\ RowsBorn'
    BY <1>9 DEF StoredInv, Drafts, vars, TypeOK, RowsBorn, Rows
  <2>2. \A q \in Requests : ContactDraft(q)' /\ ListDraft(q)' /\ DncDraft(q)' /\ ImportDraft(q)'
    BY <1>9 DEF StoredInv, Drafts, vars, ContactDraft, ListDraft, DncDraft, ImportDraft, Key
  <2>3. Drafts' /\ Overlaps'
    BY <1>9, <2>1, <2>2 DEF StoredInv, Drafts, vars, Overlaps, InFlight
  <2>4. LookupsHold'
    BY <1>9 DEF StoredInv, vars, LookupsHold, Known, OfPhone, Rows
  <2>5. WritersCarry' /\ ConfirmedIsStored'
    BY <1>9 DEF StoredInv, vars, WritersCarry, ConfirmedIsStored, Rows
  <2> QED
    BY <2>3, <2>4, <2>5 DEF StoredInv
<1> QED
  BY <1>1, <1>2, <1>3, <1>4, <1>5, <1>6, <1>7, <1>8, <1>9 DEF Next

(* The invariant holds in every state. *)
LEMMA StoredInvHolds == Spec => []StoredInv
<1>1. Init => StoredInv
  <2> SUFFICES ASSUME Init
               PROVE  StoredInv
    OBVIOUS
  <2>1. Rows = {} /\ InFlight = {} /\ \A r \in Requests : pc[r] = "idle"
    BY DEF Init, Rows, InFlight, Steps
  <2>2. TypeOK
    BY <2>1 DEF Init, TypeOK
  <2>3. Drafts
    BY <2>1, <2>2 DEF Init, Drafts, RowsBorn, ContactDraft, ListDraft, DncDraft, ImportDraft
  <2>4. Overlaps /\ LookupsHold /\ WritersCarry /\ ConfirmedIsStored
    BY <2>1 DEF Overlaps, LookupsHold, WritersCarry, ConfirmedIsStored
  <2> QED
    BY <2>3, <2>4 DEF StoredInv
<1>2. StoredInv /\ [Next]_vars => StoredInv'
  BY StepStored
<1> QED
  BY <1>1, <1>2, PTL DEF Spec

(* Every variable has its type, and a list has only contacts that exist
   among its members. *)
THEOREM TypeCorrect == Spec => []TypeOK
<1>1. StoredInv => TypeOK
  BY DEF StoredInv, Drafts
<1> QED
  BY <1>1, StoredInvHolds, PTL

(* What a tool of a call has confirmed is in the caller's contact, however
   many calls, imports and requests work on it, unless one overlapped or
   the contact was deleted or overwritten. *)
THEOREM ConfirmedAreStored == Spec => []ConfirmedIsStored
<1>1. StoredInv => ConfirmedIsStored
  BY DEF StoredInv
<1> QED
  BY <1>1, StoredInvHolds, PTL

(* A request that nothing excuses, that is not aborted and whose rows the
   table takes is answered with a failure only in the three ways the code
   has for it: a number listed again, a second lead without number, a
   contact added to a list it is in. *)
THEOREM FailuresHaveCause == Spec => FailureHasCause
<1> DEFINE Caused == \A r \in InFlight : pc'[r] = "failed" =>
                       Abort(r) \/ RowRefused(r) \/ r \in excused \/ FailsAlone(r)
<1>1. ASSUME StoredInv, Next
      PROVE  Caused
  <2> SUFFICES ASSUME NEW r \in InFlight, pc'[r] = "failed", r \notin excused,
                      ~Abort(r), ~RowRefused(r)
               PROVE  FailsAlone(r)
    OBVIOUS
  <2>1. /\ r \in Requests /\ pc[r] \in Steps /\ pc[r] \notin {"idle", "failed"}
        /\ TypeOK /\ ContactDraft(r) /\ ListDraft(r) /\ DncDraft(r) /\ ImportDraft(r)
    BY <1>1 DEF StoredInv, Drafts, InFlight, Steps
  <2>2. CASE CommitContact(r)
    BY <1>1, <2>1, <2>2 DEF CommitContact, Finish, Failure, TypeOK, StoredInv, LookupsHold, FailsAlone
  <2>3. CASE CommitAdd(r)
    BY <1>1, <2>1, <2>3 DEF CommitAdd, Finish, TypeOK, StoredInv, LookupsHold, ListDraft, FailsAlone
  <2>4. CASE CommitListing(r)
    <3>1. dnc[draft[r].phone] = "inactive" /\ draft[r].phone \in Phones
      BY <1>1, <2>1, <2>4
         DEF CommitListing, Finish, Indexed, TypeOK, StoredInv, LookupsHold, DncDraft, Creating
    <3>2. op[r] = "dnc" /\ Key("dnc", draft[r].phone) \in keys[r]
      BY <2>1, <2>4, KeyFacts DEF CommitListing, DncDraft
    <3> QED
      BY <3>1, <3>2 DEF FailsAlone
  <2>5. CASE ImportInsert(r)
    <3> DEFINE p == Head(draft[r].rows)
    <3>1. /\ pc[r] = "importing" /\ draft[r].asked /\ draft[r] \in Importing
          /\ draft[r].rows # <<>> /\ p \notin draft[r].new
          /\ op[r] \in {"import", "dncimport"}
          /\ \A n \in DOMAIN draft[r].rows : Key(op[r], draft[r].rows[n]) \in keys[r]
      BY <2>1, <2>5 DEF ImportInsert, ImportDraft
    <3>2. draft[r].rows \in Seq(Phones)
      BY <3>1 DEF Importing
    <3>3. p \in Phones /\ Key(op[r], p) \in keys[r]
      BY <3>1, <3>2, TailFacts
    <3>4. Indexed(op[r], p) /\ r \notin excused
      BY <2>1, <2>5, <3>1 DEF ImportInsert, TypeOK
    <3>5. ~Known(op[r], p)
      BY <1>1, <2>1, <3>1, <3>4 DEF StoredInv, LookupsHold
    <3> HIDE DEF p
    <3>6. op[r] = "dncimport" /\ dnc[p] = "inactive"
      BY <2>1, <3>1, <3>3, <3>4, <3>5 DEF Indexed, Known, TypeOK
    <3> QED
      BY <3>3, <3>6, KeyFacts DEF FailsAlone
  <2>6. CASE ImportDeadlock(r)
    <3>1. PICK s \in Requests \ {r} :
            /\ pc[r] = "importing" /\ pc[s] = "importing" /\ op[r] = op[s]
            /\ draft[r].asked /\ Head(draft[r].rows) \in draft[s].new
      BY <2>6 DEF ImportDeadlock
    <3>2. Key(op[r], Head(draft[r].rows)) \in keys[s]
      BY <1>1, <3>1 DEF StoredInv, Drafts, ImportDraft
    <3>3. Key(op[r], Head(draft[r].rows)) \in keys[r]
      <4>1. draft[r].rows \in Seq(Phones) /\ draft[r].rows # <<>>
        BY <2>1, <3>1 DEF ImportDraft, Importing
      <4> QED
        BY <2>1, <3>1, <4>1, TailFacts DEF ImportDraft
    <3>4. s \in InFlight
      BY <3>1 DEF InFlight, Steps
    <3>5. r \in excused
      BY <1>1, <3>1, <3>2, <3>3, <3>4, OthersExcused
    <3> QED
      BY <2>6, <3>5 DEF ImportDeadlock
  <2>7. CASE Abort(r) \/ RowRefused(r)
    BY <2>7
  <2>8. CASE CommitField(r) \/ CommitRemove(r) \/ CommitUnlisting(r) \/ CommitImport(r) \/ ImportAsk(r)
    BY <2>1, <2>8
       DEF CommitField, CommitRemove, CommitUnlisting, CommitImport, ImportAsk, Finish, TypeOK
  <2>9. CASE pc' = pc
    BY <2>1, <2>9
  <2>10. ASSUME NEW q \in Requests, NEW v, pc[q] = "idle", pc' = [pc EXCEPT ![q] = v]
         PROVE  FALSE
    BY <2>1, <2>10 DEF TypeOK
  <2>11. ASSUME NEW q \in Requests, q # r, NEW v, pc' = [pc EXCEPT ![q] = v]
         PROVE  FALSE
    BY <2>1, <2>11 DEF TypeOK
  <2>12. ASSUME NEW q \in Requests, ContactRequest(q)
         PROVE  FailsAlone(r)
    <3>1. CASE CommitContact(q)
      BY <2>2, <2>11, <3>1 DEF CommitContact, Finish
    <3>2. CASE ~CommitContact(q)
      BY <2>10, <2>12, <3>2 DEF ContactRequest, AskContact, LeadWithoutPhone, AnswerAtOnce, Begin
    <3> QED
      BY <3>1, <3>2
  <2>13. ASSUME NEW q \in Requests, ToolCall(q)
         PROVE  FailsAlone(r)
    <3>1. CASE CommitField(q)
      BY <2>8, <2>11, <3>1 DEF CommitField, Finish
    <3>2. CASE ~CommitField(q)
      BY <2>10, <2>13, <3>2
         DEF ToolCall, BookAppointment, ReadBooking, CancelAppointment, CreateCallback,
             BookWithoutPhone, WriteField, AnswerAtOnce, Begin
    <3> QED
      BY <3>1, <3>2
  <2>14. ASSUME NEW q \in Requests, ListRequest(q)
         PROVE  FailsAlone(r)
    <3>1. CASE CommitAdd(q)
      BY <2>3, <2>11, <3>1 DEF CommitAdd, Finish
    <3>2. CASE CommitRemove(q)
      BY <2>8, <2>11, <3>2 DEF CommitRemove, Finish
    <3> QED
      BY <2>10, <2>14, <3>1, <3>2 DEF ListRequest, ReadCount, Begin
  <2>15. ASSUME NEW q \in Requests, DncRequest(q)
         PROVE  FailsAlone(r)
    <3>1. CASE CommitListing(q)
      BY <2>4, <2>11, <3>1 DEF CommitListing, Finish
    <3>2. CASE CommitUnlisting(q)
      BY <2>8, <2>11, <3>2 DEF CommitUnlisting, Finish
    <3> QED
      BY <2>10, <2>15, <3>1, <3>2 DEF DncRequest, AddToDnc, AskListing, RemoveFromDnc, AnswerAtOnce, Begin
  <2>16. ASSUME NEW q \in Requests, Import(q)
         PROVE  FailsAlone(r)
    <3>1. CASE ImportInsert(q)
      BY <2>5, <2>9, <2>11, <3>1 DEF ImportInsert, Finish
    <3>2. CASE ImportDeadlock(q)
      BY <2>6, <2>11, <3>2 DEF ImportDeadlock, Finish
    <3>3. CASE CommitImport(q)
      BY <2>8, <2>11, <3>3 DEF CommitImport, Finish
    <3> QED
      BY <2>9, <2>10, <2>16, <3>1, <3>2, <3>3 DEF Import, StartImport, ImportAsk, Begin
  <2>17. ASSUME NEW q \in Requests, Abort(q) \/ RowRefused(q)
         PROVE  FailsAlone(r)
    BY <2>7, <2>11, <2>17 DEF Abort, RowRefused, Finish
  <2>18. CASE \/ \E i \in Ids : DeleteContact(i) \/ ReplaceFields(i) \/ \E p \in Phones : ChangePhone(i, p)
              \/ \E l \in Lists : CreateList(l)
    BY <2>9, <2>18 DEF DeleteContact, ReplaceFields, ChangePhone, CreateList, requests
  <2> QED
    BY <1>1, <2>12, <2>13, <2>14, <2>15, <2>16, <2>17, <2>18 DEF Next
<1>2. StoredInv /\ [Next]_vars => [Caused]_vars
  BY <1>1
<1> QED
  BY <1>2, StoredInvHolds, PTL DEF Spec, FailureHasCause

-------------------------------------------------------------------------------
(* The counters of the lists *)

Of(l) == {m \in members : m[1] = l}

(* The counters stay right when only requests of other kinds move, and more
   lists may miscount. *)
LEMMA CountKept ==
  ASSUME Drafts, CountInv, UNCHANGED <<members, count>>, skewed \subseteq skewed',
         \A q \in Requests : pc'[q] \in {"adding", "removing"} =>
           pc'[q] = pc[q] /\ draft'[q] = draft[q]
  PROVE  CountInv'
<1>1. \A r \in Requests :
        pc'[r] \in {"adding", "removing"} /\ draft'[r].list \notin skewed' =>
          draft'[r].count = count'[draft'[r].list]
  BY DEF CountInv
<1>2. MiscountHasCause'
  BY DEF CountInv, MiscountHasCause
<1> QED
  BY <1>1, <1>2 DEF CountInv

(* The counter is read when a request begins. *)
LEMMA CountRead ==
  ASSUME Drafts, CountInv, NEW r \in Requests, NEW step \in {"adding", "removing"}, NEW o,
         NEW l \in Lists, NEW i \in Ids, ReadCount(r, step, o, l, i)
  PROVE  CountInv'
<1> DEFINE d == [list |-> l, id |-> i, count |-> count[l]]
<1>1. /\ pc' = [pc EXCEPT ![r] = step] /\ draft' = [draft EXCEPT ![r] = d]
      /\ UNCHANGED <<members, count>> /\ skewed \subseteq skewed'
  BY DEF ReadCount, Begin, lists
<1>2. /\ draft'[r] = d /\ \A q \in Requests \ {r} : pc'[q] = pc[q] /\ draft'[q] = draft[q]
  BY <1>1 DEF Drafts, TypeOK
<1>3. \A q \in Requests :
        pc'[q] \in {"adding", "removing"} /\ draft'[q].list \notin skewed' =>
          draft'[q].count = count'[draft'[q].list]
  BY <1>1, <1>2 DEF CountInv
<1>4. MiscountHasCause'
  BY <1>1 DEF CountInv, MiscountHasCause
<1> QED
  BY <1>1, <1>3, <1>4 DEF CountInv

(* The counter is written from what was read. *)
LEMMA CountWritten ==
  ASSUME StoredInv, CountInv, NEW r \in Requests, CommitAdd(r) \/ CommitRemove(r)
  PROVE  CountInv'
<1> DEFINE d == draft[r]
           m == <<d.list, d.id>>
<1>1. /\ pc[r] \in {"adding", "removing"} /\ skewed' = skewed
      /\ TypeOK /\ d \in Counting /\ d.count \in Nat /\ d.list \in Lists /\ count[d.list] # -1
      /\ <<"list", d.list>> \in keys[r] /\ r \in InFlight
  BY DEF CommitAdd, CommitRemove, StoredInv, Drafts, ListDraft, Counting, InFlight, Steps
<1>2. PICK answer \in Answers : Finish(r, answer)
  BY DEF CommitAdd, CommitRemove, Answers
<1>3. /\ answer \notin {"adding", "removing"} /\ pc'[r] = answer
      /\ \A q \in Requests \ {r} : pc'[q] = pc[q] /\ draft'[q] = draft[q]
  BY <1>1, <1>2 DEF Finish, TypeOK, Answers
<1>4. ASSUME NEW q \in Requests, pc'[q] \in {"adding", "removing"}, draft[q].list \notin skewed
      PROVE  /\ draft[q].list \in Lists /\ draft[q].list # d.list
             /\ draft[q].count = count[draft[q].list] /\ q # r
  <2>1. q # r /\ pc[q] \in {"adding", "removing"}
    BY <1>3, <1>4
  <2>2. /\ draft[q].list \in Lists /\ <<"list", draft[q].list>> \in keys[q] /\ q \in InFlight
    BY <2>1 DEF StoredInv, Drafts, ListDraft, Counting, InFlight, Steps
  <2> QED
    BY <1>1, <1>4, <2>1, <2>2 DEF StoredInv, Overlaps, CountInv
<1>5. CASE UNCHANGED lists
  <2>1. UNCHANGED <<members, count>> /\ skewed \subseteq skewed'
    BY <1>1, <1>5 DEF lists
  <2>2. \A q \in Requests : pc'[q] \in {"adding", "removing"} => pc'[q] = pc[q] /\ draft'[q] = draft[q]
    BY <1>3
  <2> QED
    BY <2>1, <2>2, CountKept DEF StoredInv
<1>6. CASE /\ m \notin members /\ members' = members \cup {m}
           /\ count' = [count EXCEPT ![d.list] = d.count + 1]
  <2>1. /\ count'[d.list] = d.count + 1 /\ \A l \in Lists : l # d.list => count'[l] = count[l]
    BY <1>1, <1>6 DEF TypeOK
  <2>2. IsFiniteSet(members')
    BY <1>6, FS_AddElement DEF CountInv
  <2>3. \A z \in members' : count'[z[1]] # -1
    BY <1>1, <1>6, <2>1 DEF CountInv, TypeOK
  <2>4. \A q \in Requests :
          pc'[q] \in {"adding", "removing"} /\ draft'[q].list \notin skewed' =>
            draft'[q].count = count'[draft'[q].list]
    BY <1>1, <1>3, <1>4, <2>1
  <2>5. MiscountHasCause'
    <3> SUFFICES ASSUME NEW l \in Lists \ skewed, count'[l] # -1
                 PROVE  count'[l] = Cardinality(Of(l)')
      BY <1>1 DEF MiscountHasCause, Of
    <3>1. CASE l = d.list
      <4>1. /\ Of(l)' = Of(l) \cup {m} /\ m \notin Of(l) /\ IsFiniteSet(Of(l))
        BY <1>6, <3>1, FS_Subset DEF Of, CountInv
      <4>2. Cardinality(Of(l)') = Cardinality(Of(l)) + 1
        BY <4>1, FS_AddElement
      <4>3. count[l] = Cardinality(Of(l)) /\ d.count = count[l]
        BY <1>1, <3>1 DEF CountInv, MiscountHasCause, Of
      <4> QED
        BY <2>1, <3>1, <4>2, <4>3
    <3>2. CASE l # d.list
      <4>1. Of(l)' = Of(l)
        BY <1>6, <3>2 DEF Of
      <4> QED
        BY <2>1, <3>2, <4>1 DEF CountInv, MiscountHasCause, Of
    <3> QED
      BY <3>1, <3>2
  <2> QED
    BY <2>2, <2>3, <2>4, <2>5 DEF CountInv
<1>7. CASE /\ m \in members /\ members' = members \ {m}
           /\ count' = IF d.count > 0 THEN [count EXCEPT ![d.list] = d.count - 1] ELSE count
  <2>1. /\ \A l \in Lists : l # d.list => count'[l] = count[l]
        /\ count'[d.list] = IF d.count > 0 THEN d.count - 1 ELSE count[d.list]
    BY <1>1, <1>7 DEF TypeOK
  <2>2. IsFiniteSet(members')
    BY <1>7, FS_Subset DEF CountInv
  <2>3. \A z \in members' : count'[z[1]] # -1
    BY <1>1, <1>7, <2>1 DEF CountInv, TypeOK
  <2>4. \A q \in Requests :
          pc'[q] \in {"adding", "removing"} /\ draft'[q].list \notin skewed' =>
            draft'[q].count = count'[draft'[q].list]
    BY <1>1, <1>3, <1>4, <2>1
  <2>5. MiscountHasCause'
    <3> SUFFICES ASSUME NEW l \in Lists \ skewed, count'[l] # -1
                 PROVE  count'[l] = Cardinality(Of(l)')
      BY <1>1 DEF MiscountHasCause, Of
    <3>1. CASE l = d.list
      <4>1. /\ Of(l)' = Of(l) \ {m} /\ m \in Of(l) /\ IsFiniteSet(Of(l))
        BY <1>7, <3>1, FS_Subset DEF Of, CountInv
      <4>2. /\ Cardinality(Of(l)') = Cardinality(Of(l)) - 1
            /\ Cardinality(Of(l)) \in Nat /\ Cardinality(Of(l)) # 0
        <5> DEFINE S == Of(l)
        <5> HIDE DEF S, m
        <5>1. IsFiniteSet(S) /\ m \in S
          BY <4>1 DEF S
        <5>2. Cardinality(S) \in Nat /\ Cardinality(S) # 0
          BY <5>1, FS_CardinalityType, FS_EmptySet
        <5>3. Cardinality(S \ {m}) = Cardinality(S) - 1
          BY <5>1, FS_RemoveElement
        <5> QED
          BY <4>1, <5>2, <5>3 DEF S
      <4>3. count[l] = Cardinality(Of(l)) /\ d.count = count[l]
        BY <1>1, <3>1 DEF CountInv, MiscountHasCause, Of
      <4> QED
        BY <2>1, <3>1, <4>2, <4>3
    <3>2. CASE l # d.list
      <4>1. Of(l)' = Of(l)
        BY <1>7, <3>2 DEF Of
      <4> QED
        BY <2>1, <3>2, <4>1 DEF CountInv, MiscountHasCause, Of
    <3> QED
      BY <3>1, <3>2
  <2> QED
    BY <2>2, <2>3, <2>4, <2>5 DEF CountInv
<1> QED
  BY <1>5, <1>6, <1>7 DEF CommitAdd, CommitRemove

(* A list is created with no member, and a deleted contact takes its
   memberships along. *)
LEMMA CountOfOthers ==
  ASSUME StoredInv, CountInv,
         (\E i \in Ids : DeleteContact(i)) \/ (\E l \in Lists : CreateList(l))
  PROVE  CountInv'
<1>1. TypeOK
  BY DEF StoredInv, Drafts
<1>2. ASSUME NEW i \in Ids, DeleteContact(i)
      PROVE  CountInv'
  <2>1. /\ members' = {m \in members : m[2] # i}
        /\ skewed' = skewed \cup {l \in Lists : <<l, i>> \in members}
        /\ UNCHANGED <<count, pc, draft>>
    BY <1>2 DEF DeleteContact, requests
  <2>2. IsFiniteSet(members')
    BY <2>1, FS_Subset DEF CountInv
  <2>3. MiscountHasCause'
    <3> SUFFICES ASSUME NEW l \in Lists \ skewed', count[l] # -1
                 PROVE  count[l] = Cardinality(Of(l)')
      BY <2>1 DEF MiscountHasCause, Of
    <3>1. \A m \in Of(l) : m[2] # i
      BY <1>1, <2>1 DEF Of, TypeOK
    <3>2. Of(l)' = Of(l)
      BY <2>1, <3>1 DEF Of
    <3> QED
      BY <2>1, <3>2 DEF CountInv, MiscountHasCause, Of
  <2> QED
    BY <2>1, <2>2, <2>3 DEF CountInv
<1>3. ASSUME NEW l \in Lists, CreateList(l)
      PROVE  CountInv'
  <2>1. /\ count[l] = -1 /\ count' = [count EXCEPT ![l] = 0]
        /\ UNCHANGED <<members, pc, draft, skewed>>
    BY <1>3 DEF CreateList, requests
  <2>2. /\ count'[l] = 0 /\ \A k \in Lists : k # l => count'[k] = count[k]
    BY <1>1, <2>1 DEF TypeOK
  <2>3. Of(l) = {}
    BY <2>1 DEF Of, CountInv
  <2>4. MiscountHasCause'
    <3> SUFFICES ASSUME NEW k \in Lists \ skewed, count'[k] # -1
                 PROVE  count'[k] = Cardinality(Of(k))
      BY <2>1 DEF MiscountHasCause, Of
    <3> QED
      BY <2>2, <2>3, FS_EmptySet DEF CountInv, MiscountHasCause, Of
  <2>5. \A m \in members : count'[m[1]] # -1
    BY <1>1, <2>1, <2>2 DEF CountInv, TypeOK
  <2>6. \A q \in Requests : pc[q] \in {"adding", "removing"} =>
          draft[q].list \in Lists /\ draft[q].list # l
    BY <2>1 DEF StoredInv, Drafts, ListDraft, Counting
  <2> QED
    BY <2>1, <2>2, <2>4, <2>5, <2>6 DEF CountInv
<1> QED
  BY <1>2, <1>3

(* The requests that are at a place in S after a step were there before. *)
NoneEnters(S) ==
  \A q \in Requests : pc'[q] \in S => pc'[q] = pc[q] /\ draft'[q] = draft[q]

(* By beginning, a request enters one place only. *)
LEMMA BeginEnters ==
  ASSUME TypeOK, NEW r \in Requests, NEW step, NEW o, NEW ks, NEW d, Begin(r, step, o, ks, d)
  PROVE  /\ skewed \subseteq skewed'
         /\ step \notin {"adding", "removing"} => NoneEnters({"adding", "removing"})
         /\ step # "unlisting" => NoneEnters({"unlisting"})
  BY DEF Begin, TypeOK, NoneEnters

(* By ending, none. *)
LEMMA FinishEnters ==
  ASSUME TypeOK, NEW r \in Requests, NEW answer \in Answers, Finish(r, answer)
  PROVE  NoneEnters({"adding", "removing"}) /\ NoneEnters({"unlisting"})
  BY DEF Finish, TypeOK, NoneEnters, Answers

(* Nor by an answer at once. *)
LEMMA AnswerEnters ==
  ASSUME TypeOK, NEW r \in Requests, NEW o, NEW answer \in Answers, AnswerAtOnce(r, o, answer)
  PROVE  NoneEnters({"adding", "removing"}) /\ NoneEnters({"unlisting"})
  BY DEF AnswerAtOnce, TypeOK, NoneEnters, Answers

(* Requests about contacts, the tools of a call and the work of an import
   touch neither lists nor the do-not-call list. *)
LEMMA ContactWorkEnters ==
  ASSUME StoredInv, NEW r \in Requests,
         ContactRequest(r) \/ ToolCall(r) \/ RowRefused(r) \/ Abort(r)
  PROVE  /\ UNCHANGED <<members, count, dnc, promised>> /\ skewed \subseteq skewed'
         /\ NoneEnters({"adding", "removing"}) /\ NoneEnters({"unlisting"})
<1> USE DEF lists, listing
<1>1. /\ TypeOK
      /\ {"ok", "refused", "failed"} \subseteq Answers /\ Failure(r) \in Answers
  BY DEF StoredInv, Drafts, Steps, Answers, Failure
<1>2. CASE ContactRequest(r)
  <2>1. CASE CommitContact(r)
    BY <1>1, <2>1, FinishEnters DEF CommitContact
  <2>2. CASE LeadWithoutPhone(r)
    BY <1>1, <2>2, BeginEnters DEF LeadWithoutPhone
  <2>3. ASSUME NEW o \in {"create", "lead"}, NEW p \in Phones, AskContact(r, o, p)
        PROVE  /\ UNCHANGED <<members, count, dnc, promised>> /\ skewed \subseteq skewed'
               /\ NoneEnters({"adding", "removing"}) /\ NoneEnters({"unlisting"})
    BY <1>1, <2>3, BeginEnters, AnswerEnters DEF AskContact
  <2> QED
    BY <1>2, <2>1, <2>2, <2>3 DEF ContactRequest
<1>3. CASE ToolCall(r)
  <2>1. CASE CommitField(r)
    BY <1>1, <2>1, FinishEnters DEF CommitField
  <2>2. CASE BookWithoutPhone(r)
    BY <1>1, <2>2, AnswerEnters DEF BookWithoutPhone
  <2>3. ASSUME NEW p \in Phones, BookAppointment(r, p)
        PROVE  /\ UNCHANGED <<members, count, dnc, promised>> /\ skewed \subseteq skewed'
               /\ NoneEnters({"adding", "removing"}) /\ NoneEnters({"unlisting"})
    <3>1. /\ \E step \in {"writing", "creating"} : \E ks, d : Begin(r, step, "book", ks, d)
          /\ UNCHANGED <<members, count, dnc, promised>>
      BY <2>3 DEF BookAppointment, ReadBooking, WriteField
    <3> QED
      BY <1>1, <3>1, BeginEnters
  <2>4. ASSUME NEW p \in Phones, CancelAppointment(r, p) \/ CreateCallback(r, p)
        PROVE  /\ UNCHANGED <<members, count, dnc, promised>> /\ skewed \subseteq skewed'
               /\ NoneEnters({"adding", "removing"}) /\ NoneEnters({"unlisting"})
    <3>1. UNCHANGED <<members, count, dnc, promised>>
      BY <2>4 DEF CancelAppointment, CreateCallback
    <3>2. ASSUME NEW o, NEW i, WriteField(r, o, i, r)
          PROVE  /\ skewed \subseteq skewed'
                 /\ NoneEnters({"adding", "removing"}) /\ NoneEnters({"unlisting"})
      BY <1>1, <3>2, BeginEnters DEF WriteField
    <3>3. ASSUME NEW o, NEW answer \in Answers, AnswerAtOnce(r, o, answer)
          PROVE  NoneEnters({"adding", "removing"}) /\ NoneEnters({"unlisting"})
      BY <1>1, <3>3, AnswerEnters
    <3> QED
      BY <1>1, <2>4, <3>1, <3>2, <3>3 DEF CancelAppointment, CreateCallback
  <2> QED
    BY <1>3, <2>1, <2>2, <2>3, <2>4 DEF ToolCall
<1>4. CASE Abort(r) \/ RowRefused(r)
  BY <1>1, <1>4, FinishEnters DEF Abort, RowRefused
<1> QED
  BY <1>2, <1>3, <1>4

(* Imports touch no list, and the do-not-call list only when they commit. *)
LEMMA ImportWorkEnters ==
  ASSUME StoredInv, NEW r \in Requests, Import(r)
  PROVE  /\ UNCHANGED <<members, count>> /\ skewed \subseteq skewed'
         /\ NoneEnters({"adding", "removing"}) /\ NoneEnters({"unlisting"})
         /\ ~CommitImport(r) => UNCHANGED <<dnc, promised>>
<1> USE DEF lists, listing
<1>1. /\ TypeOK
      /\ {"ok", "refused", "failed"} \subseteq Answers
  BY DEF StoredInv, Drafts, Steps, Answers
<1>2. ASSUME NEW o \in {"import", "dncimport"}, NEW file \in Files, StartImport(r, o, file)
      PROVE  /\ UNCHANGED <<members, count, dnc, promised>> /\ skewed \subseteq skewed'
             /\ NoneEnters({"adding", "removing"}) /\ NoneEnters({"unlisting"})
  BY <1>1, <1>2, BeginEnters DEF StartImport
<1>3. CASE ImportDeadlock(r) \/ CommitImport(r)
  BY <1>1, <1>3, FinishEnters DEF ImportDeadlock, CommitImport
<1>4. CASE ImportInsert(r) /\ Finish(r, "failed")
  BY <1>1, <1>4, FinishEnters DEF ImportInsert
<1>5. CASE (ImportInsert(r) \/ ImportAsk(r)) /\ pc' = pc /\ pc[r] = "importing"
           /\ \A q \in Requests \ {r} : draft'[q] = draft[q]
  BY <1>5 DEF ImportInsert, ImportAsk, NoneEnters
<1>6. ImportInsert(r) \/ ImportAsk(r) =>
        \/ Finish(r, "failed")
        \/ pc' = pc /\ pc[r] = "importing" /\ \A q \in Requests \ {r} : draft'[q] = draft[q]
  BY <1>1 DEF ImportInsert, ImportAsk, TypeOK
<1>7. CASE ImportInsert(r) \/ ImportAsk(r)
  <2>1. ImportAsk(r) => pc' = pc /\ pc[r] = "importing" /\ \A q \in Requests \ {r} : draft'[q] = draft[q]
    BY <1>1 DEF ImportAsk, TypeOK
  <2> QED
    BY <1>4, <1>5, <1>6, <1>7, <2>1
<1> QED
  BY <1>2, <1>3, <1>7 DEF Import

(* Work on lists leaves the do-not-call list alone, and the other way round. *)
LEMMA ListWorkEnters ==
  ASSUME StoredInv, NEW r \in Requests, ListRequest(r)
  PROVE  UNCHANGED <<dnc, promised>> /\ NoneEnters({"unlisting"})
<1>1. /\ TypeOK
      /\ {"ok", "refused", "failed"} \subseteq Answers
  BY DEF StoredInv, Drafts, Steps, Answers
<1>2. UNCHANGED <<dnc, promised>>
  BY DEF ListRequest, ReadCount, CommitAdd, CommitRemove, listing
<1>3. CASE CommitAdd(r) \/ CommitRemove(r)
  <2>1. PICK answer \in Answers : Finish(r, answer)
    BY <1>1, <1>3 DEF CommitAdd, CommitRemove
  <2> QED
    BY <1>1, <1>2, <2>1, FinishEnters
<1>4. ASSUME NEW l \in Lists, NEW i \in Ids,
             ReadCount(r, "adding", "add", l, i) \/ ReadCount(r, "removing", "remove", l, i)
      PROVE  NoneEnters({"unlisting"})
  BY <1>1, <1>4, BeginEnters DEF ReadCount
<1> QED
  BY <1>2, <1>3, <1>4 DEF ListRequest

(* Requests to the do-not-call list touch no list of contacts. *)
LEMMA DncWorkEnters ==
  ASSUME StoredInv, NEW r \in Requests, DncRequest(r)
  PROVE  /\ UNCHANGED <<members, count>> /\ skewed \subseteq skewed'
         /\ NoneEnters({"adding", "removing"})
<1>1. /\ TypeOK
      /\ {"ok", "refused", "failed"} \subseteq Answers
  BY DEF StoredInv, Drafts, Steps, Answers
<1>2. CASE CommitListing(r) \/ CommitUnlisting(r)
  BY <1>1, <1>2, FinishEnters DEF CommitListing, CommitUnlisting, lists
<1>3. ASSUME NEW p \in Phones, AddToDnc(r, p)
      PROVE  /\ UNCHANGED <<members, count>> /\ skewed \subseteq skewed'
             /\ NoneEnters({"adding", "removing"})
  BY <1>1, <1>3, BeginEnters, AnswerEnters DEF AddToDnc, AskListing, lists
<1>4. ASSUME NEW p \in Phones, RemoveFromDnc(r, p)
      PROVE  /\ UNCHANGED <<members, count>> /\ skewed \subseteq skewed'
             /\ NoneEnters({"adding", "removing"})
  BY <1>1, <1>4, BeginEnters, AnswerEnters DEF RemoveFromDnc, lists
<1> QED
  BY <1>2, <1>3, <1>4 DEF DncRequest

(* No step breaks the invariant of the counters. *)
LEMMA StepCounted ==
  ASSUME StoredInv, CountInv, [Next]_vars
  PROVE  CountInv'
<1>1. Drafts
  BY DEF StoredInv
<1>2. ASSUME UNCHANGED <<members, count>>, skewed \subseteq skewed',
             NoneEnters({"adding", "removing"})
      PROVE  CountInv'
  BY <1>1, <1>2, CountKept DEF NoneEnters
<1>3. ASSUME NEW r \in Requests,
             \/ ContactRequest(r) \/ ToolCall(r) \/ RowRefused(r) \/ Abort(r)
             \/ Import(r) \/ DncRequest(r)
      PROVE  CountInv'
  BY <1>2, <1>3, ContactWorkEnters, ImportWorkEnters, DncWorkEnters
<1>4. ASSUME NEW r \in Requests, ListRequest(r)
      PROVE  CountInv'
  BY <1>1, <1>4, CountRead, CountWritten DEF ListRequest
<1>5. CASE \/ \E i \in Ids : DeleteContact(i) \/ ReplaceFields(i) \/ \E p \in Phones : ChangePhone(i, p)
           \/ \E l \in Lists : CreateList(l)
  <2>1. ASSUME NEW i \in Ids, ReplaceFields(i) \/ \E p \in Phones : ChangePhone(i, p)
        PROVE  CountInv'
    BY <1>2, <2>1 DEF ReplaceFields, ChangePhone, lists, requests, NoneEnters
  <2> QED
    BY <1>5, <2>1, CountOfOthers
<1>6. CASE UNCHANGED vars
  BY <1>2, <1>6 DEF vars, NoneEnters
<1> QED
  BY <1>3, <1>4, <1>5, <1>6 DEF Next

(* A list's counter is the number of its members, unless two requests on it
   overlapped or one of its contacts was deleted. *)
THEOREM MiscountsHaveCause == Spec => []MiscountHasCause
<1>1. Init => CountInv
  <2> SUFFICES ASSUME Init
               PROVE  CountInv
    OBVIOUS
  <2> QED
    BY FS_EmptySet DEF Init, CountInv, MiscountHasCause
<1>2. StoredInv /\ CountInv /\ [Next]_vars => CountInv'
  BY StepCounted
<1>3. CountInv => MiscountHasCause
  BY DEF CountInv
<1> QED
  BY <1>1, <1>2, <1>3, StoredInvHolds, PTL DEF Spec

-------------------------------------------------------------------------------
(* The promises of the do-not-call list *)

(* No step breaks the invariant of the promises. *)
LEMMA StepListed ==
  ASSUME StoredInv, ListedInv, [Next]_vars
  PROVE  ListedInv'
<1>1. TypeOK /\ \A q \in Requests : DncDraft(q) /\ ImportDraft(q)
  BY DEF StoredInv, Drafts
<1>2. ASSUME UNCHANGED <<dnc, promised>>, NoneEnters({"unlisting"})
      PROVE  ListedInv'
  BY <1>2 DEF ListedInv, ListedUntilRemoved, NoneEnters
<1>3. ASSUME NEW ps \in SUBSET Phones, Promise(ps), NoneEnters({"unlisting"}),
             \A p \in promised \cup ps : dnc'[p] = "active"
      PROVE  ListedInv'
  <2>1. \A q \in Requests : pc[q] = "unlisting" => q \in InFlight
    BY DEF InFlight, Steps
  <2> QED
    BY <1>3, <2>1 DEF ListedInv, ListedUntilRemoved, Promise, NoneEnters
<1>4. ASSUME NEW r \in Requests,
             ContactRequest(r) \/ ToolCall(r) \/ RowRefused(r) \/ Abort(r) \/ ListRequest(r)
      PROVE  ListedInv'
  BY <1>2, <1>4, ContactWorkEnters, ListWorkEnters
<1>5. ASSUME NEW r \in Requests, Import(r)
      PROVE  ListedInv'
  <2>1. NoneEnters({"unlisting"}) /\ (~CommitImport(r) => UNCHANGED <<dnc, promised>>)
    BY <1>5, ImportWorkEnters
  <2>2. ASSUME CommitImport(r), op[r] = "dncimport"
        PROVE  ListedInv'
    <3> DEFINE new == draft[r].new
    <3>1. /\ new \in SUBSET Phones /\ Promise(new)
          /\ dnc' = [p \in Phones |-> IF p \in new THEN "active" ELSE dnc[p]]
      BY <1>1, <2>2 DEF CommitImport, ImportDraft, Importing
    <3>2. \A p \in promised \cup new : dnc'[p] = "active"
      BY <1>1, <3>1 DEF TypeOK, ListedInv, ListedUntilRemoved
    <3> QED
      BY <1>3, <2>1, <3>1, <3>2
  <2>3. CommitImport(r) /\ op[r] # "dncimport" => UNCHANGED <<dnc, promised>>
    BY DEF CommitImport, listing
  <2> QED
    BY <1>2, <2>1, <2>2, <2>3
<1>6. ASSUME NEW r \in Requests, DncRequest(r)
      PROVE  ListedInv'
  <2>1. {"ok", "refused", "failed"} \subseteq Answers
    BY DEF Steps, Answers
  <2>2. ASSUME NEW p \in Phones, AddToDnc(r, p)
        PROVE  ListedInv'
    <3>1. CASE Known("dnc", p)
      <4>1. Promise({p}) /\ dnc' = dnc /\ dnc[p] = "active" /\ AnswerAtOnce(r, "dnc", "ok")
        BY <2>2, <3>1 DEF AddToDnc, AskListing, Known
      <4>2. NoneEnters({"unlisting"})
        BY <1>1, <2>1, <4>1, AnswerEnters
      <4>3. {p} \in SUBSET Phones /\ \A x \in promised \cup {p} : dnc'[x] = "active"
        BY <4>1 DEF ListedInv, ListedUntilRemoved
      <4> QED
        BY <1>3, <4>1, <4>2, <4>3
    <3>2. CASE ~Known("dnc", p)
      BY <1>1, <1>2, <2>2, <3>2, BeginEnters DEF AddToDnc, AskListing, listing
    <3> QED
      BY <3>1, <3>2
  <2>3. ASSUME NEW p \in Phones, RemoveFromDnc(r, p)
        PROVE  ListedInv'
    <3>1. CASE dnc[p] = "active"
      <4>1. /\ Begin(r, "unlisting", "undnc", {<<"dnc", p>>}, [phone |-> p])
            /\ promised' = promised \ {p} /\ dnc' = dnc
        BY <2>3, <3>1 DEF RemoveFromDnc
      <4>2. /\ draft'[r].phone = p
            /\ \A q \in Requests \ {r} : pc'[q] = pc[q] /\ draft'[q] = draft[q]
        BY <1>1, <4>1 DEF Begin, TypeOK
      <4> QED
        BY <4>1, <4>2 DEF ListedInv, ListedUntilRemoved
    <3>2. CASE dnc[p] # "active"
      BY <1>1, <1>2, <2>1, <2>3, <3>2, AnswerEnters DEF RemoveFromDnc
    <3> QED
      BY <3>1, <3>2
  <2>4. CASE CommitListing(r)
    <3> DEFINE p == draft[r].phone
    <3>1. p \in Phones
      BY <1>1, <2>4 DEF CommitListing, DncDraft, Creating
    <3>2. NoneEnters({"unlisting"})
      BY <1>1, <2>1, <2>4, FinishEnters DEF CommitListing
    <3>3. CASE Indexed("dnc", p)
      BY <1>2, <2>4, <3>2, <3>3 DEF CommitListing, listing
    <3>4. CASE ~Indexed("dnc", p)
      <4>1. dnc' = [dnc EXCEPT ![p] = "active"] /\ Promise({p})
        BY <2>4, <3>4 DEF CommitListing
      <4>2. {p} \in SUBSET Phones /\ \A x \in promised \cup {p} : dnc'[x] = "active"
        BY <1>1, <3>1, <4>1 DEF TypeOK, ListedInv, ListedUntilRemoved
      <4> QED
        BY <1>3, <3>2, <4>1, <4>2
    <3> QED
      BY <3>3, <3>4
  <2>5. CASE CommitUnlisting(r)
    <3> DEFINE p == draft[r].phone
    <3>1. /\ dnc' = [dnc EXCEPT ![p] = "inactive"] /\ promised' = promised
          /\ pc[r] = "unlisting" /\ Finish(r, "ok")
      BY <2>5 DEF CommitUnlisting
    <3>2. p \notin promised
      BY <3>1 DEF ListedInv
    <3>3. NoneEnters({"unlisting"})
      BY <1>1, <2>1, <3>1, FinishEnters
    <3>4. \A x \in promised : dnc'[x] = "active"
      BY <1>1, <3>1, <3>2 DEF TypeOK, ListedInv, ListedUntilRemoved
    <3> QED
      BY <3>1, <3>3, <3>4 DEF ListedInv, ListedUntilRemoved, NoneEnters
  <2> QED
    BY <1>6, <2>2, <2>3, <2>4, <2>5 DEF DncRequest
<1>7. CASE \/ \E i \in Ids : DeleteContact(i) \/ ReplaceFields(i) \/ \E p \in Phones : ChangePhone(i, p)
           \/ \E l \in Lists : CreateList(l)
  BY <1>2, <1>7 DEF DeleteContact, ReplaceFields, ChangePhone, CreateList, listing, requests, NoneEnters
<1>8. CASE UNCHANGED vars
  BY <1>2, <1>8 DEF vars, NoneEnters
<1> QED
  BY <1>4, <1>5, <1>6, <1>7, <1>8 DEF Next

(* A number whose listing was answered is on the do-not-call list until its
   removal is asked for, whichever requests and imports list it again. *)
THEOREM ListedStayListed == Spec => []ListedUntilRemoved
<1>1. Init => ListedInv
  BY DEF Init, ListedInv, ListedUntilRemoved
<1>2. StoredInv /\ ListedInv /\ [Next]_vars => ListedInv'
  BY StepListed
<1>3. ListedInv => ListedUntilRemoved
  BY DEF ListedInv
<1> QED
  BY <1>1, <1>2, <1>3, StoredInvHolds, PTL DEF Spec
===============================================================================
