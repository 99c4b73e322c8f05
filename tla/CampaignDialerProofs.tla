------------------------- MODULE CampaignDialerProofs -------------------------
(***************************************************************************)
(* Proofs about CampaignDialer, for any set of entries and dialers, any    *)
(* number of tasks and any faults.                                         *)
(***************************************************************************)
EXTENDS CampaignDialer, FiniteSetTheorems, TLAPS

(* Every variable keeps its type; a row never gets a status the table's    *)
(* check constraint refuses.                                               *)
THEOREM TypeCorrect == Spec => []TypeOK
<1>1. Init => TypeOK
  BY DEF Init, TypeOK
<1>2. TypeOK /\ [Next]_vars => TypeOK'
  <2> SUFFICES ASSUME TypeOK, [Next]_vars
               PROVE  TypeOK'
    OBVIOUS
  <2> USE DialerAssumption DEF TypeOK, campaign, dialers, history, Statuses,
          EntryStatuses, Calling
  <2>1. CASE UNCHANGED vars
    BY <2>1 DEF vars
  <2>2. ASSUME NEW s \in Statuses, WriteCampaign(s)
       PROVE  TypeOK'
    BY <2>2 DEF WriteCampaign
  <2>3. CASE CommitCampaign
    BY <2>3 DEF CommitCampaign
  <2>4. CASE RollbackCampaign
    BY <2>4 DEF RollbackCampaign
  <2>5. ASSUME NEW k \in Entries, NEW s \in EntryStatuses, CreateCampaignCall(k, s)
       PROVE  TypeOK'
    BY <2>5 DEF CreateCampaignCall
  <2>6. ASSUME NEW k \in Entries, DeleteContact(k)
       PROVE  TypeOK'
    BY <2>6 DEF DeleteContact
  <2>7. ASSUME NEW d \in Dialers, TakeTask(d)
       PROVE  TypeOK'
    BY <2>7 DEF TakeTask
  <2>8. ASSUME NEW d \in Dialers, LoadBatch(d)
       PROVE  TypeOK'
    BY <2>8 DEF LoadBatch, Holds
  <2>9. ASSUME NEW d \in Dialers, NextEntry(d)
       PROVE  TypeOK'
    BY <2>9 DEF NextEntry
  <2>10. ASSUME NEW d \in Dialers, SkipEntry(d)
       PROVE  TypeOK'
    BY <2>10 DEF SkipEntry
  <2>11. ASSUME NEW d \in Dialers, Dial(d)
       PROVE  TypeOK'
    BY <2>11 DEF Dial, Note
  <2>12. ASSUME NEW d \in Dialers, RecordDial(d)
       PROVE  TypeOK'
    BY <2>12 DEF RecordDial, Record
  <2>13. ASSUME NEW d \in Dialers, RecordFailure(d)
       PROVE  TypeOK'
    BY <2>13 DEF RecordFailure, Record
  <2>14. ASSUME NEW d \in Dialers, TaskEnds(d)
       PROVE  TypeOK'
    BY <2>14 DEF TaskEnds, Quit
  <2>15. ASSUME NEW d \in Dialers, TaskDies(d)
       PROVE  TypeOK'
    BY <2>15 DEF TaskDies, Quit, Note
  <2> HIDE DEF TypeOK, campaign, dialers, history, Statuses, EntryStatuses, Calling
  <2>16. CASE Requests
    BY <2>16, <2>2, <2>3, <2>4, <2>5, <2>6 DEF Requests
  <2>17. ASSUME NEW d \in Dialers, Work(d)
         PROVE  TypeOK'
    BY <2>17, <2>7, <2>8, <2>9, <2>10, <2>11, <2>12, <2>13, <2>14 DEF Work
  <2> QED
    BY <2>1, <2>15, <2>16, <2>17 DEF Next
<1> QED
  BY <1>1, <1>2, PTL DEF Spec

(* What a dialer holds, has called and records: the inductive invariant.   *)
THEOREM DialerInvariant == Spec => []DialerInv
<1>1. Init => DialerInv
  BY DEF Init, DialerInv, TypeOK, HoldsFollowPc, CleanEntryCalledOnce, Clean,
         Holds, Calling, OutcomeFollowsPc, UnloadedUncalled, PresetUnloaded,
         RecordedOutcomeTrue
<1>2. DialerInv /\ TypeOK' /\ [Next]_vars => DialerInv'
  <2> SUFFICES ASSUME DialerInv, TypeOK', [Next]_vars
               PROVE  HoldsFollowPc' /\ CleanEntryCalledOnce' /\ OutcomeFollowsPc'
                      /\ UnloadedUncalled' /\ PresetUnloaded' /\ RecordedOutcomeTrue'
    BY DEF DialerInv
  <2> DEFINE Rest == HoldsFollowPc /\ CleanEntryCalledOnce /\ OutcomeFollowsPc
                     /\ UnloadedUncalled /\ PresetUnloaded
                     /\ RecordedOutcomeTrue
  <2> SUFFICES Rest'
    OBVIOUS
  <2> USE DEF DialerInv, TypeOK, campaign, dialers, history, Statuses, EntryStatuses, Calling,
          HoldsFollowPc, CleanEntryCalledOnce, Clean, Called, Holds,
          OutcomeFollowsPc, UnloadedUncalled, PresetUnloaded,
          RecordedOutcomeTrue
  <2>1. CASE UNCHANGED vars
    BY <2>1 DEF vars
  <2>2. ASSUME NEW s \in Statuses, WriteCampaign(s)
       PROVE  Rest'
    BY <2>2 DEF WriteCampaign
  <2>3. CASE CommitCampaign
    BY <2>3 DEF CommitCampaign
  <2>4. CASE RollbackCampaign
    BY <2>4 DEF RollbackCampaign
  <2>5. ASSUME NEW k \in Entries, NEW s \in EntryStatuses, CreateCampaignCall(k, s)
       PROVE  Rest'
    <3>1. HoldsFollowPc'
      BY <2>5 DEF CreateCampaignCall
    <3>2. CleanEntryCalledOnce'
      BY <2>5 DEF CreateCampaignCall
    <3>3. OutcomeFollowsPc'
      BY <2>5 DEF CreateCampaignCall
    <3>4. UnloadedUncalled'
      BY <2>5 DEF CreateCampaignCall
    <3>5. RecordedOutcomeTrue'
      BY <2>5 DEF CreateCampaignCall
    <3>6. PresetUnloaded'
      BY <2>5 DEF CreateCampaignCall
    <3> QED
      BY <3>1, <3>2, <3>3, <3>4, <3>5, <3>6
  <2>6. ASSUME NEW k \in Entries, DeleteContact(k)
       PROVE  Rest'
    <3>1. HoldsFollowPc'
      BY <2>6 DEF DeleteContact
    <3>2. CleanEntryCalledOnce'
      BY <2>6 DEF DeleteContact
    <3>3. OutcomeFollowsPc'
      BY <2>6 DEF DeleteContact
    <3>4. UnloadedUncalled'
      BY <2>6 DEF DeleteContact
    <3>5. RecordedOutcomeTrue'
      BY <2>6 DEF DeleteContact
    <3>6. PresetUnloaded'
      BY <2>6 DEF DeleteContact
    <3> QED
      BY <3>1, <3>2, <3>3, <3>4, <3>5, <3>6
  <2>7. ASSUME NEW d \in Dialers, TakeTask(d)
       PROVE  Rest'
    <3>1. HoldsFollowPc'
      BY <2>7 DEF TakeTask
    <3>2. CleanEntryCalledOnce'
      BY <2>7 DEF TakeTask
    <3>3. OutcomeFollowsPc'
      BY <2>7 DEF TakeTask
    <3>4. UnloadedUncalled'
      BY <2>7 DEF TakeTask
    <3>5. RecordedOutcomeTrue'
      BY <2>7 DEF TakeTask
    <3>6. PresetUnloaded'
      BY <2>7 DEF TakeTask
    <3> QED
      BY <3>1, <3>2, <3>3, <3>4, <3>5, <3>6
  <2>8. ASSUME NEW d \in Dialers, LoadBatch(d)
       PROVE  Rest'
    <3>1. HoldsFollowPc'
      BY <2>8 DEF LoadBatch, Holds
    <3>2. CleanEntryCalledOnce'
      <4> SUFFICES ASSUME NEW k \in Entries, Clean(k)'
                   PROVE  /\ dials'[k] <= 1
                          /\ \A a \in Dialers : k \in Holds(a)' =>
                               /\ rows'[k] \in {"pending", "gone"}
                               /\ \A e \in Dialers \ {a} : k \notin Holds(e)'
                               /\ dials'[k] > 0 => k \in current'[a] /\ Called(a)'
                          /\ dials'[k] > 0 /\ rows'[k] = "pending" =>
                               \E a \in Dialers : k \in current'[a] /\ Called(a)'
        OBVIOUS
      <4>1. Clean(k) /\ dials'[k] = dials[k] /\ rows'[k] = rows[k]
        BY <2>8 DEF LoadBatch
      <4>2. CASE rows[k] = "pending"
        <5>1. \A e \in Dialers \ {d} : k \notin Holds(e)
          <6> SUFFICES ASSUME NEW e \in Dialers \ {d}, k \in Holds(e)
                       PROVE  FALSE
            OBVIOUS
          <6>1. mishap'[k] = mishap[k] \cup {"overlap"}
            BY <2>8, <4>2 DEF LoadBatch
          <6>2. mishap'[k] \cap {"overlap", "lost"} = {}
            OBVIOUS
          <6> QED
            BY ONLY <6>1, <6>2
        <5>2. dials[k] = 0
          BY <2>8, <4>1, <4>2, <5>1 DEF LoadBatch
        <5> QED
          BY <2>8, <4>1, <4>2, <5>1, <5>2 DEF LoadBatch
      <4>3. CASE rows[k] # "pending"
        <5>1. k \notin Holds(d)'
          BY <2>8, <4>3 DEF LoadBatch
        <5> QED
          BY <2>8, <4>1, <4>3, <5>1 DEF LoadBatch
      <4> QED
        BY <4>2, <4>3
    <3>3. OutcomeFollowsPc'
      BY <2>8 DEF LoadBatch, Holds
    <3>4. UnloadedUncalled'
      BY <2>8 DEF LoadBatch, Holds
    <3>5. RecordedOutcomeTrue'
      BY <2>8 DEF LoadBatch, Holds
    <3>6. PresetUnloaded'
      BY <2>8 DEF LoadBatch, Holds
    <3> QED
      BY <3>1, <3>2, <3>3, <3>4, <3>5, <3>6
  <2>9. ASSUME NEW d \in Dialers, NextEntry(d)
       PROVE  Rest'
    <3>1. HoldsFollowPc'
      <4>1. PICK k \in batch[d] : /\ batch' = [batch EXCEPT ![d] = @ \ {k}]
                                 /\ current' = [current EXCEPT ![d] = {k}]
        BY <2>9 DEF NextEntry
      <4>2. pc' = [pc EXCEPT ![d] = "entry"]
        BY <2>9 DEF NextEntry
      <4>3. k \in Entries /\ batch'[d] = batch[d] \ {k} /\ current'[d] = {k} /\ pc'[d] = "entry"
        BY <4>1, <4>2
      <4>4. \A e \in Dialers \ {d} : batch'[e] = batch[e] /\ current'[e] = current[e] /\ pc'[e] = pc[e]
        BY <4>1, <4>2
      <4> HIDE DEF DialerInv, TypeOK
      <4> QED
        BY <4>3, <4>4 DEF DialerInv
    <3>2. CleanEntryCalledOnce'
      BY <2>9 DEF NextEntry
    <3>3. OutcomeFollowsPc'
      BY <2>9 DEF NextEntry
    <3>4. UnloadedUncalled'
      BY <2>9 DEF NextEntry
    <3>5. RecordedOutcomeTrue'
      BY <2>9 DEF NextEntry
    <3>6. PresetUnloaded'
      <4>1. rows' = rows /\ mishap' = mishap
        BY <2>9 DEF NextEntry
      <4>2. \A e \in Dialers : Holds(e)' \subseteq Holds(e)
        BY <2>9 DEF NextEntry
      <4> QED
        BY <4>1, <4>2
    <3> QED
      BY <3>1, <3>2, <3>3, <3>4, <3>5, <3>6
  <2>10. ASSUME NEW d \in Dialers, SkipEntry(d)
       PROVE  Rest'
    <3>1. HoldsFollowPc'
      BY <2>10 DEF SkipEntry
    <3>2. CleanEntryCalledOnce'
      BY <2>10 DEF SkipEntry
    <3>3. OutcomeFollowsPc'
      BY <2>10 DEF SkipEntry
    <3>4. UnloadedUncalled'
      BY <2>10 DEF SkipEntry
    <3>5. RecordedOutcomeTrue'
      BY <2>10 DEF SkipEntry
    <3>6. PresetUnloaded'
      BY <2>10 DEF SkipEntry
    <3> QED
      BY <3>1, <3>2, <3>3, <3>4, <3>5, <3>6
  <2>11. ASSUME NEW d \in Dialers, Dial(d)
       PROVE  Rest'
    <3>1. HoldsFollowPc'
      BY <2>11 DEF Dial, Note
    <3>2. CleanEntryCalledOnce'
      <4> SUFFICES ASSUME NEW k \in Entries, Clean(k)'
                   PROVE  /\ dials'[k] <= 1
                          /\ \A a \in Dialers : k \in Holds(a)' =>
                               /\ rows'[k] \in {"pending", "gone"}
                               /\ \A e \in Dialers \ {a} : k \notin Holds(e)'
                               /\ dials'[k] > 0 => k \in current'[a] /\ Called(a)'
                          /\ dials'[k] > 0 /\ rows'[k] = "pending" =>
                               \E a \in Dialers : k \in current'[a] /\ Called(a)'
        OBVIOUS
      <4>1. Clean(k) /\ rows' = rows /\ batch' = batch /\ current' = current
        BY <2>11 DEF Dial, Note
      <4>2. CASE k \in current[d]
        <5>1. dials[k] = 0 /\ \A e \in Dialers \ {d} : k \notin Holds(e)
          BY <2>11, <4>1, <4>2 DEF Dial
        <5>2. dials'[k] <= 1 /\ Called(d)'
          BY <2>11, <5>1 DEF Dial
        <5> QED
          BY <4>1, <4>2, <5>1, <5>2
      <4>3. CASE k \notin current[d]
        <5>1. dials'[k] = dials[k]
          BY <2>11, <4>3 DEF Dial
        <5>2. \A e \in Dialers \ {d} : pc'[e] = pc[e]
          BY <2>11 DEF Dial
        <5> QED
          BY <4>1, <4>3, <5>1, <5>2
      <4> QED
        BY <4>2, <4>3
    <3>3. OutcomeFollowsPc'
      <4> SUFFICES ASSUME NEW e \in Dialers, NEW k \in current'[e]
                   PROVE  /\ rows'[k] # "none"
                          /\ pc'[e] = "dialed" => dials'[k] > 0
                          /\ pc'[e] = "failing" /\ dials'[k] > 0 => mishap'[k] # {}
        OBVIOUS
      <4>1. /\ rows' = rows /\ batch' = batch /\ current' = current
            /\ k \in Entries /\ mishap[k] \subseteq mishap'[k]
        BY <2>11 DEF Dial, Note
      <4>2. CASE e = d
        <5>1. mishap[k] = {} => dials[k] = 0
          BY <2>11, <4>1, <4>2 DEF Dial
        <5>2. pc'[d] = "dialed" => dials'[k] > 0
          BY <2>11, <4>1, <4>2 DEF Dial
        <5>3. pc'[d] = "failing" =>
                dials'[k] = dials[k] \/ "answer" \in mishap'[k]
          BY <2>11, <4>1, <4>2 DEF Dial, Note
        <5>4. mishap'[k] = {} => mishap[k] = {}
          BY <4>1
        <5>5. rows'[k] # "none" /\ dials[k] \in Nat
          BY <2>11, <4>1, <4>2 DEF Dial
        <5>6. pc'[d] = "failing" /\ dials'[k] > 0 => mishap'[k] # {}
          BY <5>1, <5>3, <5>4, <5>5
        <5> QED
          BY <4>2, <5>2, <5>5, <5>6
      <4>3. CASE e # d
        <5>1. pc'[e] = pc[e] /\ dials'[k] >= dials[k]
          BY <2>11, <4>1, <4>3 DEF Dial
        <5>2. k \in current[d] => mishap[k] # {}
          BY <4>1, <4>3
        <5>3. k \notin current[d] => dials'[k] = dials[k]
          BY <2>11, <4>1 DEF Dial
        <5> QED
          BY <4>1, <5>1, <5>2, <5>3
      <4> QED
        BY <4>2, <4>3
    <3>4. UnloadedUncalled'
      BY <2>11 DEF Dial, Note
    <3>5. RecordedOutcomeTrue'
      BY <2>11 DEF Dial, Note
    <3>6. PresetUnloaded'
      BY <2>11 DEF Dial, Note
    <3> QED
      BY <3>1, <3>2, <3>3, <3>4, <3>5, <3>6
  <2>12. ASSUME NEW d \in Dialers, RecordDial(d)
       PROVE  Rest'
    <3>1. HoldsFollowPc'
      BY <2>12 DEF RecordDial, Record
    <3>2. CleanEntryCalledOnce'
      BY <2>12 DEF RecordDial, Record
    <3>3. OutcomeFollowsPc'
      BY <2>12 DEF RecordDial, Record
    <3>4. UnloadedUncalled'
      BY <2>12 DEF RecordDial, Record
    <3>5. RecordedOutcomeTrue'
      BY <2>12 DEF RecordDial, Record
    <3>6. PresetUnloaded'
      BY <2>12 DEF RecordDial, Record
    <3> QED
      BY <3>1, <3>2, <3>3, <3>4, <3>5, <3>6
  <2>13. ASSUME NEW d \in Dialers, RecordFailure(d)
       PROVE  Rest'
    <3>1. HoldsFollowPc'
      BY <2>13 DEF RecordFailure, Record
    <3>2. CleanEntryCalledOnce'
      BY <2>13 DEF RecordFailure, Record
    <3>3. OutcomeFollowsPc'
      BY <2>13 DEF RecordFailure, Record
    <3>4. UnloadedUncalled'
      BY <2>13 DEF RecordFailure, Record
    <3>5. RecordedOutcomeTrue'
      BY <2>13 DEF RecordFailure, Record
    <3>6. PresetUnloaded'
      BY <2>13 DEF RecordFailure, Record
    <3> QED
      BY <3>1, <3>2, <3>3, <3>4, <3>5, <3>6
  <2>14. ASSUME NEW d \in Dialers, TaskEnds(d)
       PROVE  Rest'
    <3>1. HoldsFollowPc'
      BY <2>14 DEF TaskEnds, Quit
    <3>2. CleanEntryCalledOnce'
      BY <2>14 DEF TaskEnds, Quit
    <3>3. OutcomeFollowsPc'
      BY <2>14 DEF TaskEnds, Quit
    <3>4. UnloadedUncalled'
      BY <2>14 DEF TaskEnds, Quit
    <3>5. RecordedOutcomeTrue'
      BY <2>14 DEF TaskEnds, Quit
    <3>6. PresetUnloaded'
      BY <2>14 DEF TaskEnds, Quit
    <3> QED
      BY <3>1, <3>2, <3>3, <3>4, <3>5, <3>6
  <2>15. ASSUME NEW d \in Dialers, TaskDies(d)
       PROVE  Rest'
    <3>1. HoldsFollowPc'
      BY <2>15 DEF TaskDies, Quit, Note
    <3>2. CleanEntryCalledOnce'
      <4> SUFFICES ASSUME NEW k \in Entries, Clean(k)'
                   PROVE  /\ dials'[k] <= 1
                          /\ \A a \in Dialers : k \in Holds(a)' =>
                               /\ rows'[k] \in {"pending", "gone"}
                               /\ \A e \in Dialers \ {a} : k \notin Holds(e)'
                               /\ dials'[k] > 0 => k \in current'[a] /\ Called(a)'
                          /\ dials'[k] > 0 /\ rows'[k] = "pending" =>
                               \E a \in Dialers : k \in current'[a] /\ Called(a)'
        OBVIOUS
      <4>1. Clean(k) /\ dials'[k] = dials[k] /\ rows'[k] = rows[k]
        BY <2>15 DEF TaskDies, Note
      <4>2. ~(k \in current[d] /\ Called(d))
        <5> SUFFICES ASSUME k \in current[d], Called(d)
                     PROVE  FALSE
          OBVIOUS
        <5>1. mishap'[k] = mishap[k] \cup {"lost"}
          BY <2>15 DEF TaskDies, Note
        <5>2. mishap'[k] \cap {"overlap", "lost"} = {}
          OBVIOUS
        <5> QED
          BY ONLY <5>1, <5>2
      <4>3. /\ \A e \in Dialers \ {d} :
                 /\ Holds(e)' = Holds(e) /\ current'[e] = current[e]
                 /\ Called(e)' = Called(e)
            /\ Holds(d)' = {}
        BY <2>15 DEF TaskDies, Quit
      <4>4. ASSUME NEW a \in Dialers, k \in Holds(a)'
            PROVE  /\ rows'[k] \in {"pending", "gone"}
                   /\ \A e \in Dialers \ {a} : k \notin Holds(e)'
                   /\ dials'[k] > 0 => k \in current'[a] /\ Called(a)'
        <5>1. a # d /\ k \in Holds(a)
          BY <4>3, <4>4
        <5>2. /\ rows[k] \in {"pending", "gone"}
              /\ \A e \in Dialers \ {a} : k \notin Holds(e)
              /\ dials[k] > 0 => k \in current[a] /\ Called(a)
          BY <4>1, <5>1
        <5>3. \A e \in Dialers : Holds(e)' \subseteq Holds(e)
          BY ONLY <4>3
        <5> HIDE DEF DialerInv, TypeOK, Holds, Called
        <5> QED
          BY <4>1, <4>3, <5>1, <5>2, <5>3
      <4>5. ASSUME dials'[k] > 0, rows'[k] = "pending"
            PROVE  \E a \in Dialers : k \in current'[a] /\ Called(a)'
        <5>1. PICK a \in Dialers : k \in current[a] /\ Called(a)
          <6>1. CleanEntryCalledOnce /\ Clean(k) /\ dials[k] > 0 /\ rows[k] = "pending"
            BY <4>1, <4>5
          <6> QED
            BY ONLY <6>1, k \in Entries DEF CleanEntryCalledOnce
        <5>2. a # d
          BY <4>2, <5>1
        <5> QED
          BY ONLY <4>3, <5>1, <5>2
      <4>6. dials'[k] <= 1
        BY <4>1
      <4> QED
        BY ONLY <4>4, <4>5, <4>6
    <3>3. OutcomeFollowsPc'
      BY <2>15 DEF TaskDies, Quit, Note
    <3>4. UnloadedUncalled'
      BY <2>15 DEF TaskDies, Quit, Note
    <3>5. RecordedOutcomeTrue'
      BY <2>15 DEF TaskDies, Quit, Note
    <3>6. PresetUnloaded'
      BY <2>15 DEF TaskDies, Quit, Note
    <3> QED
      BY <3>1, <3>2, <3>3, <3>4, <3>5, <3>6
  <2> HIDE DEF Rest, DialerInv, TypeOK, campaign, dialers, history, Statuses,
           EntryStatuses, Calling, HoldsFollowPc, CleanEntryCalledOnce, Clean, Called, Holds,
           OutcomeFollowsPc, UnloadedUncalled, PresetUnloaded, RecordedOutcomeTrue
  <2>16. CASE Requests
    BY <2>16, <2>2, <2>3, <2>4, <2>5, <2>6 DEF Requests
  <2>17. ASSUME NEW d \in Dialers, Work(d)
         PROVE  Rest'
    BY <2>17, <2>7, <2>8, <2>9, <2>10, <2>11, <2>12, <2>13, <2>14 DEF Work
  <2> QED
    BY <2>1, <2>15, <2>16, <2>17 DEF Next
<1> QED
  BY <1>1, <1>2, TypeCorrect, PTL DEF Spec

(* An entry is called again only after an overlap of two dialers or the    *)
(* loss of an outcome.                                                     *)
THEOREM RedialsHaveCause == Spec => []RedialHasCause
<1>1. DialerInv => RedialHasCause
  BY DEF DialerInv, CleanEntryCalledOnce, Clean, RedialHasCause, TypeOK
<1> QED
  BY <1>1, DialerInvariant, PTL

(* The row of an entry tells whether it was called: "dialing" was, unless  *)
(* the request that made the entry said so, "failed" was not, unless       *)
(* something went wrong for it, and an entry made with another status than *)
(* "pending" is never called.                                              *)
THEOREM RecordedOutcomesAreTrue == Spec => []RecordedOutcomeTrue
<1>1. DialerInv => RecordedOutcomeTrue
  BY DEF DialerInv
<1> QED
  BY <1>1, DialerInvariant, PTL

-------------------------------------------------------------------------------
(* The steps that lead a batch to its end *)

(* A dialer at work takes the campaign to be running.                      *)
LEMMA SeenKept ==
  ASSUME TypeOK, SeenFollowsPc, [Next]_vars
  PROVE  SeenFollowsPc'
<1> USE DEF TypeOK, campaign, dialers, history, SeenFollowsPc, Calling
<1>1. CASE UNCHANGED vars \/ Requests
  BY <1>1 DEF vars, Requests, WriteCampaign, CommitCampaign, RollbackCampaign,
              CreateCampaignCall, DeleteContact
<1>2. ASSUME NEW d \in Dialers, TakeTask(d) \/ TaskEnds(d) \/ TaskDies(d)
      PROVE  SeenFollowsPc'
  BY <1>2 DEF TakeTask, TaskEnds, TaskDies, Quit
<1>3. ASSUME NEW d \in Dialers,
             LoadBatch(d) \/ NextEntry(d) \/ SkipEntry(d) \/ Dial(d)
               \/ RecordDial(d) \/ RecordFailure(d)
      PROVE  SeenFollowsPc'
  BY <1>3 DEF LoadBatch, NextEntry, SkipEntry, Dial, RecordDial, RecordFailure
<1> QED
  BY <1>1, <1>2, <1>3 DEF Next, Work

THEOREM DialersSeeRunning == Spec => []SeenFollowsPc
<1>1. Init => SeenFollowsPc
  BY DEF Init, SeenFollowsPc
<1>2. TypeOK /\ SeenFollowsPc /\ [Next]_vars => SeenFollowsPc'
  BY SeenKept
<1> QED
  BY <1>1, <1>2, TypeCorrect, PTL DEF Spec

(* What a dialer has before it is changed by its own steps only.           *)
LEMMA OthersLeaveAlone ==
  ASSUME TypeOK, NEW d \in Dialers, [Next]_vars, ~(Work(d) \/ TaskDies(d))
  PROVE  pc'[d] = pc[d] /\ batch'[d] = batch[d] /\ current'[d] = current[d]
<1> USE DEF TypeOK, campaign, dialers, history
<1>1. CASE UNCHANGED vars \/ Requests
  BY <1>1 DEF vars, Requests, WriteCampaign, CommitCampaign, RollbackCampaign,
              CreateCampaignCall, DeleteContact
<1>2. ASSUME NEW e \in Dialers \ {d}, TakeTask(e) \/ TaskEnds(e) \/ TaskDies(e)
      PROVE  pc'[d] = pc[d] /\ batch'[d] = batch[d] /\ current'[d] = current[d]
  BY <1>2 DEF TakeTask, TaskEnds, TaskDies, Quit
<1>3. ASSUME NEW e \in Dialers \ {d},
             LoadBatch(e) \/ NextEntry(e) \/ SkipEntry(e) \/ Dial(e)
               \/ RecordDial(e) \/ RecordFailure(e)
      PROVE  pc'[d] = pc[d] /\ batch'[d] = batch[d] /\ current'[d] = current[d]
  BY <1>3 DEF LoadBatch, NextEntry, SkipEntry, Dial, RecordDial, RecordFailure
<1> QED
  BY <1>1, <1>2, <1>3 DEF Next, Work

(* Where each step of a dialer that holds something leads.                 *)
LEMMA HolderSteps ==
  ASSUME DialerInv, SeenFollowsPc, NEW d \in Dialers, Holds(d) # {}, Work(d)
  PROVE  \/ /\ pc[d] = "next" /\ pc'[d] = "entry"                    \* NextEntry
            /\ \E k \in batch[d] : batch'[d] = batch[d] \ {k} /\ current'[d] = {k}
         \/ /\ pc[d] = "entry" /\ pc'[d] \in {"dialed", "failing"}   \* Dial
            /\ batch'[d] = batch[d] /\ current'[d] = current[d]
         \/ /\ pc[d] \in Calling /\ pc'[d] = "next"                  \* SkipEntry, Record...
            /\ batch'[d] = batch[d] /\ current'[d] = {}
            /\ \A k \in current[d] : rows'[k] # "pending"
<1> USE DEF campaign, dialers, history
<1>1. /\ TypeOK
      /\ pc[d] \in {"idle", "started"} => batch[d] = {}
      /\ pc[d] \notin Calling => current[d] = {}
      /\ pc[d] \in Calling => \E k \in Entries : current[d] = {k}
      /\ pc[d] # "idle" => seen[d] = "running"
  BY DEF DialerInv, HoldsFollowPc, SeenFollowsPc
<1>2. pc[d] \notin {"idle", "started"} /\ ~TaskEnds(d)
  BY <1>1 DEF Holds, Calling, TaskEnds, RefreshedStatus
<1>3. ~TakeTask(d) /\ ~LoadBatch(d)
  BY <1>2 DEF TakeTask, LoadBatch
<1>4. CASE NextEntry(d)
  BY <1>1, <1>4 DEF NextEntry, TypeOK
<1>5. CASE SkipEntry(d)
  BY <1>1, <1>5 DEF SkipEntry, TypeOK, Calling
<1>6. CASE Dial(d)
  BY <1>1, <1>6 DEF Dial, TypeOK
<1>7. CASE RecordDial(d) \/ RecordFailure(d)
  BY <1>1, <1>7 DEF RecordDial, RecordFailure, Record, TypeOK, Calling
<1> QED
  BY <1>2, <1>3, <1>4, <1>5, <1>6, <1>7 DEF Work

(* A dialer lets go of an entry it has loaded only when the entry's row    *)
(* says what became of it, or when the dialer dies: a pause, a failed call *)
(* or the end of the batch loses none.                                     *)
THEOREM EntriesAreHeld == Spec => HeldUntilResolved
<1>1. ASSUME DialerInv, SeenFollowsPc, [Next]_vars,
             NEW d \in Dialers, NEW k \in Entries, k \in Holds(d), k \notin Holds(d)'
      PROVE  rows'[k] # "pending" \/ d \in died'
  <2>1. CASE TaskDies(d)
    BY <2>1 DEF TaskDies
  <2>2. CASE Work(d)
    <3>1. pc[d] \notin Calling => current[d] = {}
      BY <1>1 DEF DialerInv, HoldsFollowPc
    <3> QED
      BY <1>1, <2>2, <3>1, HolderSteps DEF Holds, Calling
  <2>3. CASE ~(Work(d) \/ TaskDies(d))
    BY <1>1, <2>3, OthersLeaveAlone DEF DialerInv, Holds
  <2> QED
    BY <2>1, <2>2, <2>3
<1>2. DialerInv /\ SeenFollowsPc /\ [Next]_vars =>
        [\A d \in Dialers, k \in Entries :
           k \in Holds(d) /\ k \notin Holds(d)' => rows'[k] # "pending" \/ d \in died']_vars
  BY <1>1
<1> QED
  BY <1>2, DialerInvariant, DialersSeeRunning, PTL DEF Spec, HeldUntilResolved

(* The entries of a batch are finitely many.                               *)
LEMMA BatchSize ==
  ASSUME TypeOK, NEW d \in Dialers
  PROVE  /\ Cardinality(batch[d]) \in Nat
         /\ \A k \in batch[d] : Cardinality(batch[d] \ {k}) = Cardinality(batch[d]) - 1
<1>1. IsFiniteSet(batch[d])
  BY DialerAssumption, FS_Subset DEF TypeOK
<1> QED
  BY <1>1, FS_CardinalityType, FS_RemoveElement

(* Each step of a dialer that holds entries brings it nearer to holding    *)
(* none, and nothing else moves it away: with workers that go on, a batch  *)
(* comes to its end.                                                       *)
THEOREM BatchesShrink == Spec => WorkShrinks
<1>1. ASSUME DialerInv, SeenFollowsPc, [Next]_vars, TypeOK', NEW d \in Dialers, Holds(d) # {}
      PROVE  UNCHANGED <<pc[d], batch[d], current[d]>> \/ StepsLeft(d)' < StepsLeft(d)
  <2>1. /\ TypeOK /\ Cardinality(batch[d]) \in Nat /\ Cardinality(batch'[d]) \in Nat
        /\ \A k \in batch[d] : Cardinality(batch[d] \ {k}) = Cardinality(batch[d]) - 1
    <3>1. TypeOK
      BY <1>1 DEF DialerInv
    <3>2. Cardinality(batch'[d]) \in Nat
      <4>1. IsFiniteSet(batch'[d])
        BY <1>1, DialerAssumption, FS_Subset DEF TypeOK
      <4> QED
        BY <4>1, FS_CardinalityType
    <3> QED
      BY <3>1, <3>2, BatchSize
  <2>2. CASE TaskDies(d)
    <3>1. pc'[d] = "idle" /\ batch'[d] = {}
      BY <2>1, <2>2 DEF TaskDies, Quit, TypeOK
    <3>2. Cardinality(batch'[d]) = 0
      BY <3>1, FS_EmptySet
    <3>3. StepsLeft(d)' = 0
      BY <3>1, <3>2 DEF StepsLeft
    <3>4. StepsLeft(d) > 0
      <4>1. CASE pc[d] \in Calling
        BY <2>1, <4>1 DEF StepsLeft, Calling
      <4>2. CASE pc[d] \notin Calling
        <5>1. current[d] = {}
          BY <1>1, <4>2 DEF DialerInv, HoldsFollowPc
        <5>2. Cardinality(batch[d]) # 0
          <6>1. IsFiniteSet(batch[d]) /\ batch[d] # {}
            BY <1>1, <2>1, <5>1, DialerAssumption, FS_Subset DEF TypeOK, Holds
          <6> QED
            BY <6>1, FS_EmptySet
        <5> QED
          BY <2>1, <4>2, <5>2 DEF StepsLeft, Calling
      <4> QED
        BY <4>1, <4>2
    <3> QED
      BY <3>3, <3>4
  <2>3. CASE Work(d)
    <3> DEFINE n == Cardinality(batch[d])
    <3>1. \/ pc[d] = "next" /\ pc'[d] = "entry" /\ Cardinality(batch'[d]) = n - 1
          \/ pc[d] = "entry" /\ pc'[d] \in {"dialed", "failing"} /\ Cardinality(batch'[d]) = n
          \/ pc[d] \in Calling /\ pc'[d] = "next" /\ Cardinality(batch'[d]) = n
      BY <1>1, <2>1, <2>3, HolderSteps
    <3> QED
      BY <2>1, <3>1 DEF StepsLeft, Calling
  <2>4. CASE ~(Work(d) \/ TaskDies(d))
    BY <1>1, <2>1, <2>4, OthersLeaveAlone
  <2> QED
    BY <2>2, <2>3, <2>4
<1>2. DialerInv /\ SeenFollowsPc /\ TypeOK' /\ [Next]_vars =>
        [\A d \in Dialers : Holds(d) # {} =>
           UNCHANGED <<pc[d], batch[d], current[d]>> \/ StepsLeft(d)' < StepsLeft(d)]_vars
  BY <1>1
<1> QED
  BY <1>2, DialerInvariant, DialersSeeRunning, TypeCorrect, PTL DEF Spec, WorkShrinks
===============================================================================
