--------------------------- MODULE VoiceCallsProofs ---------------------------
(***************************************************************************)
(* Proofs about VoiceCalls, for any set of calls and tenants, any limit,   *)
(* any number of handlers in the admission window and any faults.          *)
(***************************************************************************)
EXTENDS VoiceCalls, FiniteSetTheorems, TLAPS

(* The two ids of a leg are different ids. *)
LEMMA IdFacts ==
  /\ \A c \in Calls : LegId(c) \in CallIds /\ ApiId(c) \in CallIds
  /\ \A c, d \in Calls : LegId(c) # ApiId(d)
  /\ \A c, d \in Calls : c # d => LegId(c) # LegId(d)
BY DEF LegId, ApiId, CallIds

(* Writing a state into a session leaves a well-typed session table. *)
LEMMA UpdateType ==
  ASSUME session \in [CallIds -> Sessions], NEW id \in CallIds,
         NEW s \in {"connecting", "active", "completed"}, UpdateSession(id, s)
  PROVE  session' \in [CallIds -> Sessions]
BY DEF UpdateSession, Sessions

(* Every variable keeps its type. *)
THEOREM TypeCorrect == Spec => []TypeOK
<1>1. Init => TypeOK
  BY DEF Init, TypeOK, PCs, Sessions, NoSession
<1>2. TypeOK /\ [Next]_vars => TypeOK'
  <2> SUFFICES ASSUME TypeOK, [Next]_vars
               PROVE  TypeOK'
    OBVIOUS
  <2> USE ConstantsAssumption, IdFacts DEF TypeOK, slots, redis, records
  <2>1. CASE \E id \in CallIds : PendingExpires(id)
    BY <2>1 DEF PendingExpires
  <2>2. CASE \E t \in Tenants : SetExpires(t)
    BY <2>2 DEF SetExpires
  <2>3. ASSUME NEW c \in Calls, Admit(c)
        PROVE  TypeOK'
    <3> USE DEF Goto, PCs, Over, Handling, Admitting, Bridged
    <3>1. CASE OpenStream(c)
      BY <3>1 DEF OpenStream
    <3>2. CASE CheckConcurrency(c)
      BY <3>2 DEF CheckConcurrency
    <3>3. CASE CheckUsageLimit(c)
      BY <3>3 DEF CheckUsageLimit
    <3>4. CASE HsetSession(c)
      BY <3>4 DEF HsetSession, UpdateSession, Sessions
    <3>5. CASE ExpireSession(c)
      BY <3>5 DEF ExpireSession, Sessions
    <3>6. CASE SaddMember(c)
      BY <3>6 DEF SaddMember
    <3>7. CASE StartBridge(c)
      BY <3>7 DEF StartBridge
    <3> QED
      BY <2>3, <3>1, <3>2, <3>3, <3>4, <3>5, <3>6, <3>7 DEF Admit
  <2>4. ASSUME NEW c \in Calls, Cleanup(c)
        PROVE  TypeOK'
    <3> USE DEF Goto, PCs, Over, Handling, Admitting, Bridged
    <3>1. CASE MarkCompleted(c)
      BY <3>1 DEF MarkCompleted, UpdateSession, Sessions
    <3>2. CASE SremMember(c)
      BY <3>2 DEF SremMember
    <3>3. CASE DeleteKey(c)
      BY <3>3 DEF DeleteKey, Sessions, NoSession
    <3>4. CASE PersistCall(c)
      BY <3>4 DEF PersistCall, Blame
    <3>5. CASE DispatchWebhook(c)
      BY <3>5 DEF DispatchWebhook, Blame
    <3>6. CASE EnqueuePostCall(c)
      BY <3>6 DEF EnqueuePostCall, Blame
    <3> QED
      BY <2>4, <3>1, <3>2, <3>3, <3>4, <3>5, <3>6 DEF Cleanup
  <2>5. ASSUME NEW c \in Calls, ConnectOpenAI(c) \/ BridgeEnds(c)
        PROVE  TypeOK'
    <3> USE DEF Goto, PCs, Over, Handling, Admitting, Bridged
    <3>1. CASE ConnectOpenAI(c)
      <4>1. session' \in [CallIds -> Sessions]
        BY <3>1, UpdateType DEF ConnectOpenAI
      <4> QED
        BY <3>1, <4>1 DEF ConnectOpenAI, Blame
    <3>2. CASE BridgeEnds(c)
      BY <3>2 DEF BridgeEnds
    <3> QED
      BY <2>5, <3>1, <3>2
  <2>6. ASSUME NEW c \in Calls, Environment(c)
        PROVE  TypeOK'
    <3> USE DEF PCs, Over, Handling, Admitting, Bridged
    <3>1. CASE InitiateOutboundCall(c)
      BY <3>1 DEF InitiateOutboundCall, Goto, Blame
    <3>2. CASE InboundCallWebhook(c)
      BY <3>2 DEF InboundCallWebhook
    <3>3. CASE CallStatusCallback(c)
      <4>1. session' \in [CallIds -> Sessions]
        BY <3>3, UpdateType DEF CallStatusCallback
      <4> QED
        BY <3>3, <4>1 DEF CallStatusCallback
    <3>4. CASE TwilioStops(c) \/ OpenAICloses(c)
      BY <3>4 DEF TwilioStops, OpenAICloses
    <3>5. CASE AdmissionError(c) \/ CleanupError(c) \/ Crash(c)
      BY <3>5 DEF AdmissionError, CleanupError, Crash, Blame
    <3>6. CASE KeyExpires(c)
      BY <3>6 DEF KeyExpires, Sessions, NoSession
    <3> QED
      BY <2>6, <3>1, <3>2, <3>3, <3>4, <3>5, <3>6 DEF Environment
  <2>7. CASE UNCHANGED vars
    BY <2>7 DEF vars
  <2> QED
    BY <2>1, <2>2, <2>3, <2>4, <2>5, <2>6, <2>7 DEF Next, Serve
<1> QED
  BY <1>1, <1>2, PTL DEF Spec

-------------------------------------------------------------------------------
(* The admission window *)

(* A tenant whose registered and admitted calls are no more than before    *)
(* keeps its bound.                                                        *)
LEMMA SlotsShrink ==
  ASSUME ConstantsAssumption, NEW t \in Tenants, Slots(t)' \subseteq Slots(t),
         IsFiniteSet(Slots(t)), Cardinality(Slots(t)) <= Limit + MaxAdmitting - 1
  PROVE  /\ IsFiniteSet(Slots(t)')
         /\ Cardinality(Slots(t)') <= Limit + MaxAdmitting - 1
<1>1. IsFiniteSet(Slots(t)') /\ Cardinality(Slots(t)') <= Cardinality(Slots(t))
  BY FS_Subset
<1>2. Cardinality(Slots(t)) \in Nat /\ Cardinality(Slots(t)') \in Nat
  BY <1>1, FS_CardinalityType
<1> QED
  BY <1>1, <1>2 DEF ConstantsAssumption

(* A call that passes the count is the only one the window gains, below    *)
(* the limit and the bound on the window.                                  *)
LEMMA SlotsGrowBelow ==
  ASSUME ConstantsAssumption, NEW t \in Tenants, NEW c,
         IsFiniteSet(Slots(t)),
         Cardinality(members[t]) < Limit, Cardinality(Window(t)) < MaxAdmitting,
         Slots(t)' \subseteq Slots(t) \cup {c}
  PROVE  /\ IsFiniteSet(Slots(t)')
         /\ Cardinality(Slots(t)') <= Limit + MaxAdmitting - 1
<1> DEFINE M == members[t]
           W == Window(t)
<1>1. IsFiniteSet(M) /\ IsFiniteSet(W)
  BY FS_Subset DEF Slots
<1>2. Cardinality(M) \in Nat /\ Cardinality(W) \in Nat /\ Cardinality(M \cap W) \in Nat
  <2>1. IsFiniteSet(M \cap W)
    BY <1>1, FS_Subset
  <2> QED
    BY <1>1, <2>1, FS_CardinalityType
<1>3. Cardinality(Slots(t)) <= Cardinality(M) + Cardinality(W)
  <2>1. Cardinality(M \cup W) = Cardinality(M) + Cardinality(W) - Cardinality(M \cap W)
    BY <1>1, FS_Union
  <2> HIDE DEF M, W
  <2>2. Cardinality(M \cup W) <= Cardinality(M) + Cardinality(W)
    BY <1>2, <2>1
  <2> QED
    BY <2>2 DEF Slots, M, W
<1>4. /\ IsFiniteSet(Slots(t) \cup {c})
      /\ Cardinality(Slots(t) \cup {c}) <= Cardinality(Slots(t)) + 1
      /\ Cardinality(Slots(t)) \in Nat
  <2> DEFINE S == Slots(t)
  <2>1. IsFiniteSet(S)
    OBVIOUS
  <2> HIDE DEF S
  <2>2. Cardinality(S) \in Nat
    BY <2>1, FS_CardinalityType
  <2>3. /\ IsFiniteSet(S \cup {c})
        /\ Cardinality(S \cup {c}) = IF c \in S THEN Cardinality(S) ELSE Cardinality(S) + 1
    BY <2>1, FS_AddElement
  <2>4. Cardinality(S \cup {c}) <= Cardinality(S) + 1
    BY <2>2, <2>3
  <2> QED
    BY <2>2, <2>3, <2>4 DEF S
<1>5. IsFiniteSet(Slots(t)') /\ Cardinality(Slots(t)') <= Cardinality(Slots(t) \cup {c})
  BY <1>4, FS_Subset
<1>6. Cardinality(Slots(t)') \in Nat /\ Cardinality(Slots(t) \cup {c}) \in Nat
  BY <1>4, <1>5, FS_CardinalityType
<1> HIDE DEF M, W
<1>7. Cardinality(M) < Limit /\ Cardinality(W) < MaxAdmitting
  BY DEF M, W
<1> QED
  BY <1>2, <1>3, <1>4, <1>5, <1>6, <1>7 DEF ConstantsAssumption

(* Only the count can let a tenant's slots grow.                           *)
LEMMA WindowStep == TypeOK /\ WindowBounded /\ [Next]_vars => WindowBounded'
<1> SUFFICES ASSUME TypeOK, WindowBounded, [Next]_vars, NEW t \in Tenants
             PROVE  /\ IsFiniteSet(Slots(t)')
                    /\ Cardinality(Slots(t)') <= Limit + MaxAdmitting - 1
  BY DEF WindowBounded
<1>1. IsFiniteSet(Slots(t)) /\ Cardinality(Slots(t)) <= Limit + MaxAdmitting - 1
  BY DEF WindowBounded
<1>2. SUFFICES ASSUME ~(\E c \in Calls : CheckConcurrency(c))
               PROVE  Slots(t)' \subseteq Slots(t)
  <2>1. CASE ~(\E c \in Calls : CheckConcurrency(c))
    BY <1>1, <1>2, <2>1, ConstantsAssumption, SlotsShrink
  <2>2. ASSUME NEW c \in Calls, CheckConcurrency(c), TenantOf[c] = t,
               Cardinality(members[t]) < Limit, Cardinality(Window(t)) < MaxAdmitting
        PROVE  /\ IsFiniteSet(Slots(t)')
               /\ Cardinality(Slots(t)') <= Limit + MaxAdmitting - 1
    <3>1. Slots(t)' \subseteq Slots(t) \cup {c}
      BY <2>2 DEF CheckConcurrency, Goto, redis, slots, Slots, Window, TypeOK
    <3> QED
      BY <1>1, <2>2, <3>1, ConstantsAssumption, SlotsGrowBelow
  <2>3. ASSUME NEW c \in Calls, CheckConcurrency(c),
               ~(/\ TenantOf[c] = t
                 /\ Cardinality(members[t]) < Limit
                 /\ Cardinality(Window(t)) < MaxAdmitting)
        PROVE  Slots(t)' \subseteq Slots(t)
    <3>1. members' = members /\ \A d \in Calls : d # c => pc'[d] = pc[d]
      BY <2>3 DEF CheckConcurrency, Goto, redis, slots, TypeOK
    <3>2. TenantOf[c] # t \/ pc'[c] = "refused"
      BY <2>3 DEF CheckConcurrency, Goto, TypeOK, Members
    <3> QED
      BY <3>1, <3>2 DEF Slots, Window, Admitting
  <2> QED
    BY <1>1, <2>1, <2>2, <2>3, ConstantsAssumption, SlotsShrink
<1> USE DEF Slots, Window, TypeOK, slots, redis, records, Goto, Admitting
<1>3. CASE (\E id \in CallIds : PendingExpires(id)) \/ (\E u \in Tenants : SetExpires(u))
  BY <1>3 DEF PendingExpires, SetExpires
<1>4. ASSUME NEW c \in Calls, Admit(c)
      PROVE  Slots(t)' \subseteq Slots(t)
  <2>1. CASE OpenStream(c) \/ CheckUsageLimit(c) \/ HsetSession(c) \/ ExpireSession(c) \/ StartBridge(c)
    BY <2>1 DEF OpenStream, CheckUsageLimit, HsetSession, ExpireSession, StartBridge
  <2>2. CASE SaddMember(c)
    BY <2>2 DEF SaddMember
  <2> QED
    BY <1>2, <1>4, <2>1, <2>2 DEF Admit
<1>5. ASSUME NEW c \in Calls, Cleanup(c)
      PROVE  Slots(t)' \subseteq Slots(t)
  BY <1>5 DEF Cleanup, MarkCompleted, SremMember, DeleteKey, PersistCall, DispatchWebhook, EnqueuePostCall
<1>6. ASSUME NEW c \in Calls, ConnectOpenAI(c) \/ BridgeEnds(c)
      PROVE  Slots(t)' \subseteq Slots(t)
  BY <1>6 DEF ConnectOpenAI, BridgeEnds
<1>7. ASSUME NEW c \in Calls, Environment(c)
      PROVE  Slots(t)' \subseteq Slots(t)
  BY <1>7 DEF Environment, InitiateOutboundCall, InboundCallWebhook, CallStatusCallback, TwilioStops,
       OpenAICloses, AdmissionError, CleanupError, Crash, KeyExpires
<1>8. CASE UNCHANGED vars
  BY <1>8 DEF vars
<1> QED
  BY <1>3, <1>4, <1>5, <1>6, <1>7, <1>8 DEF Next, Serve

(* No slot is taken at the start. *)
LEMMA WindowInit == Init => WindowBounded
<1> SUFFICES ASSUME Init, NEW t \in Tenants
             PROVE  IsFiniteSet(Slots(t)) /\ Cardinality(Slots(t)) <= Limit + MaxAdmitting - 1
  BY DEF WindowBounded
<1>1. Slots(t) = {}
  BY DEF Init, Slots, Window, Admitting
<1> QED
  BY <1>1, FS_EmptySet, ConstantsAssumption DEF ConstantsAssumption

(* The bound on the slots bounds the registered calls.                     *)
LEMMA WindowImplies == WindowBounded => OvershootBounded
<1> SUFFICES ASSUME WindowBounded, NEW t \in Tenants
             PROVE  Cardinality(members[t]) <= Limit + MaxAdmitting - 1
  BY DEF OvershootBounded
<1>1. IsFiniteSet(Slots(t)) /\ Cardinality(Slots(t)) <= Limit + MaxAdmitting - 1
  BY DEF WindowBounded
<1>2. IsFiniteSet(members[t]) /\ Cardinality(members[t]) <= Cardinality(Slots(t))
  BY <1>1, FS_Subset DEF Slots
<1>3. Cardinality(members[t]) \in Nat /\ Cardinality(Slots(t)) \in Nat
  BY <1>1, <1>2, FS_CardinalityType
<1> QED
  BY <1>1, <1>2, <1>3, ConstantsAssumption DEF ConstantsAssumption

(* However many calls arrive, fail or crash, a tenant's registered calls   *)
(* exceed the limit by less than the handlers in the admission window.     *)
THEOREM OvershootIsBounded == Spec => []OvershootBounded
<1>1. Init => WindowBounded
  BY WindowInit
<1>2. TypeOK /\ WindowBounded /\ [Next]_vars => WindowBounded'
  BY WindowStep
<1>3. WindowBounded => OvershootBounded
  BY WindowImplies
<1> QED
  BY <1>1, <1>2, <1>3, TypeCorrect, PTL DEF Spec

-------------------------------------------------------------------------------
(* What is true of a call at every step of its handler *)

(* A step keeps what the registry holds of a call, *)
LEMMA RegistrationStep ==
  TypeOK /\ RegistrationFollowsPc /\ [Next]_vars => RegistrationFollowsPc'
<1> SUFFICES ASSUME TypeOK, RegistrationFollowsPc, [Next]_vars
             PROVE  RegistrationFollowsPc'
  OBVIOUS
<1> USE ConstantsAssumption DEF ConstantsAssumption, TypeOK, RegistrationFollowsPc, slots, redis,
        Goto, Unregistered, Registered, Admitting, Bridged
<1>1. CASE \E id \in CallIds : PendingExpires(id)
  BY <1>1 DEF PendingExpires
<1>2. CASE \E t \in Tenants : SetExpires(t)
  BY <1>2 DEF SetExpires
<1>3. ASSUME NEW c \in Calls, Admit(c)
      PROVE  RegistrationFollowsPc'
  <2>1. CASE OpenStream(c)
    BY <2>1 DEF OpenStream
  <2>2. CASE CheckConcurrency(c)
    BY <2>2 DEF CheckConcurrency
  <2>3. CASE CheckUsageLimit(c)
    BY <2>3 DEF CheckUsageLimit
  <2>4. CASE HsetSession(c)
    BY <2>4 DEF HsetSession
  <2>5. CASE ExpireSession(c)
    BY <2>5 DEF ExpireSession
  <2>6. CASE SaddMember(c)
    BY <2>6 DEF SaddMember
  <2>7. CASE StartBridge(c)
    BY <2>7 DEF StartBridge
  <2> QED
    BY <1>3, <2>1, <2>2, <2>3, <2>4, <2>5, <2>6, <2>7 DEF Admit
<1>4. ASSUME NEW c \in Calls, Cleanup(c)
      PROVE  RegistrationFollowsPc'
  <2>1. CASE MarkCompleted(c)
    BY <2>1 DEF MarkCompleted
  <2>2. CASE SremMember(c)
    BY <2>2 DEF SremMember
  <2>3. CASE DeleteKey(c)
    BY <2>3 DEF DeleteKey
  <2>4. CASE PersistCall(c)
    BY <2>4 DEF PersistCall
  <2>5. CASE DispatchWebhook(c)
    BY <2>5 DEF DispatchWebhook
  <2>6. CASE EnqueuePostCall(c)
    BY <2>6 DEF EnqueuePostCall
  <2> QED
    BY <1>4, <2>1, <2>2, <2>3, <2>4, <2>5, <2>6 DEF Cleanup
<1>5. ASSUME NEW c \in Calls, ConnectOpenAI(c) \/ BridgeEnds(c)
      PROVE  RegistrationFollowsPc'
  <2>1. CASE ConnectOpenAI(c)
    BY <2>1 DEF ConnectOpenAI
  <2>2. CASE BridgeEnds(c)
    BY <2>2 DEF BridgeEnds
  <2> QED
    BY <1>5, <2>1, <2>2
<1>6. ASSUME NEW c \in Calls, Environment(c)
      PROVE  RegistrationFollowsPc'
  <2>1. CASE InitiateOutboundCall(c)
    BY <2>1 DEF InitiateOutboundCall
  <2>2. CASE InboundCallWebhook(c)
    BY <2>2 DEF InboundCallWebhook
  <2>3. CASE CallStatusCallback(c)
    BY <2>3 DEF CallStatusCallback
  <2>4. CASE TwilioStops(c)
    BY <2>4 DEF TwilioStops
  <2>5. CASE OpenAICloses(c)
    BY <2>5 DEF OpenAICloses
  <2>6. CASE AdmissionError(c)
    BY <2>6 DEF AdmissionError
  <2>7. CASE CleanupError(c)
    BY <2>7 DEF CleanupError
  <2>8. CASE Crash(c)
    BY <2>8 DEF Crash, Handling
  <2>9. CASE KeyExpires(c)
    BY <2>9 DEF KeyExpires
  <2> QED
    BY <1>6, <2>1, <2>2, <2>3, <2>4, <2>5, <2>6, <2>7, <2>8, <2>9 DEF Environment
<1>7. CASE UNCHANGED vars
  BY <1>7 DEF vars
<1> QED
  BY <1>1, <1>2, <1>3, <1>4, <1>5, <1>6, <1>7 DEF Next, Serve

(* what the database holds of it, *)
LEMMA RecordsStep ==
  TypeOK /\ RecordsFollowPc /\ [Next]_vars => RecordsFollowPc'
<1> SUFFICES ASSUME TypeOK, RecordsFollowPc, [Next]_vars
             PROVE  RecordsFollowPc'
  OBVIOUS
<1> USE DEF TypeOK, RecordsFollowPc, records, Goto, Blame, Admitting, Bridged
<1>1. CASE \E id \in CallIds : PendingExpires(id)
  BY <1>1 DEF PendingExpires
<1>2. CASE \E t \in Tenants : SetExpires(t)
  BY <1>2 DEF SetExpires
<1>3. ASSUME NEW c \in Calls, Admit(c)
      PROVE  RecordsFollowPc'
  <2>1. CASE OpenStream(c)
    BY <2>1 DEF OpenStream
  <2>2. CASE CheckConcurrency(c)
    BY <2>2 DEF CheckConcurrency
  <2>3. CASE CheckUsageLimit(c)
    BY <2>3 DEF CheckUsageLimit
  <2>4. CASE HsetSession(c)
    BY <2>4 DEF HsetSession
  <2>5. CASE ExpireSession(c)
    BY <2>5 DEF ExpireSession
  <2>6. CASE SaddMember(c)
    BY <2>6 DEF SaddMember
  <2>7. CASE StartBridge(c)
    BY <2>7 DEF StartBridge
  <2> QED
    BY <1>3, <2>1, <2>2, <2>3, <2>4, <2>5, <2>6, <2>7 DEF Admit
<1>4. ASSUME NEW c \in Calls, Cleanup(c)
      PROVE  RecordsFollowPc'
  <2>1. CASE MarkCompleted(c)
    BY <2>1 DEF MarkCompleted
  <2>2. CASE SremMember(c)
    BY <2>2 DEF SremMember
  <2>3. CASE DeleteKey(c)
    BY <2>3 DEF DeleteKey
  <2>4. CASE PersistCall(c)
    BY <2>4 DEF PersistCall
  <2>5. CASE DispatchWebhook(c)
    BY <2>5 DEF DispatchWebhook
  <2>6. CASE EnqueuePostCall(c)
    BY <2>6 DEF EnqueuePostCall
  <2> QED
    BY <1>4, <2>1, <2>2, <2>3, <2>4, <2>5, <2>6 DEF Cleanup
<1>5. ASSUME NEW c \in Calls, ConnectOpenAI(c) \/ BridgeEnds(c)
      PROVE  RecordsFollowPc'
  <2>1. CASE ConnectOpenAI(c)
    BY <2>1 DEF ConnectOpenAI
  <2>2. CASE BridgeEnds(c)
    BY <2>2 DEF BridgeEnds
  <2> QED
    BY <1>5, <2>1, <2>2
<1>6. ASSUME NEW c \in Calls, Environment(c)
      PROVE  RecordsFollowPc'
  <2>1. CASE InitiateOutboundCall(c)
    BY <2>1 DEF InitiateOutboundCall
  <2>2. CASE InboundCallWebhook(c)
    BY <2>2 DEF InboundCallWebhook
  <2>3. CASE CallStatusCallback(c)
    BY <2>3 DEF CallStatusCallback
  <2>4. CASE TwilioStops(c)
    BY <2>4 DEF TwilioStops
  <2>5. CASE OpenAICloses(c)
    BY <2>5 DEF OpenAICloses
  <2>6. CASE AdmissionError(c)
    BY <2>6 DEF AdmissionError
  <2>7. CASE CleanupError(c)
    BY <2>7 DEF CleanupError
  <2>8. CASE Crash(c)
    BY <2>8 DEF Crash, Handling
  <2>9. CASE KeyExpires(c)
    BY <2>9 DEF KeyExpires
  <2> QED
    BY <1>6, <2>1, <2>2, <2>3, <2>4, <2>5, <2>6, <2>7, <2>8, <2>9 DEF Environment
<1>7. CASE UNCHANGED vars
  BY <1>7 DEF vars
<1> QED
  BY <1>1, <1>2, <1>3, <1>4, <1>5, <1>6, <1>7 DEF Next, Serve

(* and its session. *)
LEMMA SessionStep ==
  TypeOK /\ SessionFollowsPc /\ [Next]_vars => SessionFollowsPc'
<1> SUFFICES ASSUME TypeOK, SessionFollowsPc, [Next]_vars
             PROVE  SessionFollowsPc'
  OBVIOUS
<1> USE IdFacts DEF TypeOK, SessionFollowsPc, redis, Goto, Blame, Wound, Exists
<1>1. CASE \E id \in CallIds : PendingExpires(id)
  BY <1>1 DEF PendingExpires
<1>2. CASE \E t \in Tenants : SetExpires(t)
  BY <1>2 DEF SetExpires
<1>3. ASSUME NEW c \in Calls, Admit(c)
      PROVE  SessionFollowsPc'
  <2>1. CASE OpenStream(c)
    BY <2>1 DEF OpenStream
  <2>2. CASE CheckConcurrency(c)
    BY <2>2 DEF CheckConcurrency
  <2>3. CASE CheckUsageLimit(c)
    BY <2>3 DEF CheckUsageLimit
  <2>4. CASE HsetSession(c)
    BY <2>4 DEF HsetSession, UpdateSession
  <2>5. CASE ExpireSession(c)
    BY <2>5 DEF ExpireSession, Sessions
  <2>6. CASE SaddMember(c)
    BY <2>6 DEF SaddMember
  <2>7. CASE StartBridge(c)
    BY <2>7 DEF StartBridge
  <2> QED
    BY <1>3, <2>1, <2>2, <2>3, <2>4, <2>5, <2>6, <2>7 DEF Admit
<1>4. ASSUME NEW c \in Calls, Cleanup(c)
      PROVE  SessionFollowsPc'
  <2>1. CASE MarkCompleted(c)
    BY <2>1 DEF MarkCompleted, UpdateSession
  <2>2. CASE SremMember(c)
    BY <2>2 DEF SremMember
  <2>3. CASE DeleteKey(c)
    BY <2>3 DEF DeleteKey, NoSession
  <2>4. CASE PersistCall(c)
    BY <2>4 DEF PersistCall
  <2>5. CASE DispatchWebhook(c)
    BY <2>5 DEF DispatchWebhook
  <2>6. CASE EnqueuePostCall(c)
    BY <2>6 DEF EnqueuePostCall
  <2> QED
    BY <1>4, <2>1, <2>2, <2>3, <2>4, <2>5, <2>6 DEF Cleanup
<1>5. ASSUME NEW c \in Calls, ConnectOpenAI(c) \/ BridgeEnds(c)
      PROVE  SessionFollowsPc'
  <2>1. CASE ConnectOpenAI(c)
    BY <2>1 DEF ConnectOpenAI, UpdateSession
  <2>2. CASE BridgeEnds(c)
    BY <2>2 DEF BridgeEnds
  <2> QED
    BY <1>5, <2>1, <2>2
<1>6. ASSUME NEW c \in Calls, Environment(c)
      PROVE  SessionFollowsPc'
  <2>1. CASE InitiateOutboundCall(c)
    BY <2>1 DEF InitiateOutboundCall
  <2>2. CASE InboundCallWebhook(c)
    BY <2>2 DEF InboundCallWebhook
  <2>3. CASE CallStatusCallback(c)
    BY <2>3 DEF CallStatusCallback, UpdateSession
  <2>4. CASE TwilioStops(c)
    BY <2>4 DEF TwilioStops
  <2>5. CASE OpenAICloses(c)
    BY <2>5 DEF OpenAICloses
  <2>6. CASE AdmissionError(c)
    BY <2>6 DEF AdmissionError, Admitting
  <2>7. CASE CleanupError(c)
    BY <2>7 DEF CleanupError
  <2>8. CASE Crash(c)
    BY <2>8 DEF Crash, Handling, Admitting, Bridged
  <2>9. CASE KeyExpires(c)
    BY <2>9 DEF KeyExpires, NoSession
  <2> QED
    BY <1>6, <2>1, <2>2, <2>3, <2>4, <2>5, <2>6, <2>7, <2>8, <2>9 DEF Environment
<1>7. CASE UNCHANGED vars
  BY <1>7 DEF vars
<1> QED
  BY <1>1, <1>2, <1>3, <1>4, <1>5, <1>6, <1>7 DEF Next, Serve

(* All of it is true before the first call. *)
LEMMA CallInvInit == Init => CallInv
<1> SUFFICES ASSUME Init PROVE CallInv
  OBVIOUS
<1>1. TypeOK
  BY DEF Init, TypeOK, PCs, Sessions, NoSession
<1>2. RegistrationFollowsPc /\ RecordsFollowPc
  BY DEF Init, RegistrationFollowsPc, RecordsFollowPc, Registered, Bridged
<1>3. SessionFollowsPc
  BY IdFacts DEF Init, SessionFollowsPc, Exists, NoSession, Wound
<1> QED
  BY <1>1, <1>2, <1>3, WindowInit DEF CallInv

(* The strengthening is inductive.                                         *)
THEOREM CallInvariant == Spec => []CallInv
<1>1. Init => CallInv
  BY CallInvInit
<1>2. TypeOK /\ CallInv /\ [Next]_vars => WindowBounded' /\ RegistrationFollowsPc' /\ RecordsFollowPc' /\ SessionFollowsPc'
  BY WindowStep, RegistrationStep, RecordsStep, SessionStep DEF CallInv
<1>3. CallInv /\ [Next]_vars /\ TypeOK' => CallInv'
  BY <1>2 DEF CallInv
<1> QED
  BY <1>1, <1>3, TypeCorrect, PTL DEF Spec

-------------------------------------------------------------------------------
(* The safety properties *)

(* A live call keeps its slot in every step, unless the slot expires. *)
LEMMA LiveStep ==
  ~CallsOutliveTTL /\ CallInv /\ LiveCallHoldsSlot /\ [Next]_vars =>
       LiveCallHoldsSlot'
<1> SUFFICES ASSUME ~CallsOutliveTTL, CallInv, LiveCallHoldsSlot, [Next]_vars
             PROVE  LiveCallHoldsSlot'
  OBVIOUS
<1> USE ConstantsAssumption DEF ConstantsAssumption
<1> USE DEF CallInv, TypeOK, LiveCallHoldsSlot, Members, slots, redis, Goto,
     Bridged, Over, RegistrationFollowsPc
<1>1. CASE \/ \E id \in CallIds : PendingExpires(id)
           \/ \E t \in Tenants : SetExpires(t)
  BY <1>1 DEF PendingExpires, SetExpires
<1>2. ASSUME NEW c \in Calls, Admit(c)
      PROVE  LiveCallHoldsSlot'
  BY <1>2 DEF Admit, OpenStream, CheckConcurrency, CheckUsageLimit, HsetSession,
       ExpireSession, SaddMember, StartBridge
<1>3. ASSUME NEW c \in Calls, Cleanup(c)
      PROVE  LiveCallHoldsSlot'
  BY <1>3 DEF Cleanup, MarkCompleted, SremMember, DeleteKey, PersistCall,
       DispatchWebhook, EnqueuePostCall
<1>4. ASSUME NEW c \in Calls, ConnectOpenAI(c) \/ BridgeEnds(c)
      PROVE  LiveCallHoldsSlot'
  BY <1>4 DEF ConnectOpenAI, BridgeEnds
<1>5. ASSUME NEW c \in Calls, Environment(c)
      PROVE  LiveCallHoldsSlot'
  BY <1>5 DEF Environment, InitiateOutboundCall, InboundCallWebhook,
       CallStatusCallback, TwilioStops, OpenAICloses, AdmissionError,
       CleanupError, Crash, KeyExpires
<1>6. CASE UNCHANGED vars
  BY <1>6 DEF vars
<1> QED
  BY <1>1, <1>2, <1>3, <1>4, <1>5, <1>6 DEF Next, Serve

(* No interleaving of other calls takes the slot of a call that is being   *)
(* served, as long as no call outlives the TTL of the Redis keys.          *)
THEOREM LiveCallKeepsSlot ==
  ASSUME ~CallsOutliveTTL
  PROVE  Spec => []LiveCallHoldsSlot
<1>1. Init => LiveCallHoldsSlot
  BY DEF Init, LiveCallHoldsSlot, Bridged
<1>2. CallInv /\ LiveCallHoldsSlot /\ [Next]_vars => LiveCallHoldsSlot'
  BY LiveStep
<1> QED
  BY <1>1, <1>2, CallInvariant, PTL DEF Spec

(* A slot that is left behind was left by one of the known steps. *)
LEMMA LeakStep ==
  CallInv /\ LeakHasCause /\ [Next]_vars => LeakHasCause'
<1> SUFFICES ASSUME CallInv, LeakHasCause, [Next]_vars
             PROVE  LeakHasCause'
  OBVIOUS
<1> USE ConstantsAssumption DEF ConstantsAssumption
<1> USE DEF CallInv, TypeOK, LeakHasCause, Members, slots, redis, Goto, Blame,
     Bridged, Admitting, Unregistered, RegistrationFollowsPc
<1>1. CASE \/ \E id \in CallIds : PendingExpires(id)
           \/ \E t \in Tenants : SetExpires(t)
  BY <1>1 DEF PendingExpires, SetExpires
<1>2. ASSUME NEW c \in Calls, Admit(c)
      PROVE  LeakHasCause'
  BY <1>2 DEF Admit, OpenStream, CheckConcurrency, CheckUsageLimit, HsetSession,
       ExpireSession, SaddMember, StartBridge
<1>3. ASSUME NEW c \in Calls, Cleanup(c)
      PROVE  LeakHasCause'
  BY <1>3 DEF Cleanup, MarkCompleted, SremMember, DeleteKey, PersistCall,
       DispatchWebhook, EnqueuePostCall
<1>4. ASSUME NEW c \in Calls, ConnectOpenAI(c) \/ BridgeEnds(c)
      PROVE  LeakHasCause'
  BY <1>4 DEF ConnectOpenAI, BridgeEnds
<1>5. ASSUME NEW c \in Calls, Environment(c)
      PROVE  LeakHasCause'
  <2>1. CASE InitiateOutboundCall(c)
    BY <2>1 DEF InitiateOutboundCall
  <2>2. CASE CallStatusCallback(c)
    BY <2>2 DEF CallStatusCallback
  <2>3. CASE AdmissionError(c)
    <3>1. CASE Blame(c, "redis")
      BY <2>3, <3>1 DEF AdmissionError
    <3>2. CASE pc[c] \in {"verified", "counted"}
      <4>1. \A t \in Tenants : c \notin members[t]
        BY <3>2
      <4> QED
        BY <2>3, <4>1 DEF AdmissionError
    <3> QED
      BY <2>3, <3>1, <3>2 DEF AdmissionError
  <2>4. CASE CleanupError(c)
    BY <2>4 DEF CleanupError
  <2>5. CASE Crash(c)
    BY <2>5 DEF Crash
  <2>6. CASE InboundCallWebhook(c) \/ TwilioStops(c) \/ OpenAICloses(c) \/
       KeyExpires(c)
    BY <2>6 DEF InboundCallWebhook, TwilioStops, OpenAICloses, KeyExpires
  <2> QED
    BY <1>5, <2>1, <2>2, <2>3, <2>4, <2>5, <2>6 DEF Environment
<1>6. CASE UNCHANGED vars
  BY <1>6 DEF vars
<1> QED
  BY <1>1, <1>2, <1>3, <1>4, <1>5, <1>6 DEF Next, Serve

(* A slot left behind is the trace of a crash or of a Redis error.         *)
THEOREM LeaksAreExplained == Spec => []LeakHasCause
<1>1. Init => LeakHasCause
  BY DEF Init, LeakHasCause
<1>2. CallInv /\ LeakHasCause /\ [Next]_vars => LeakHasCause'
  BY LeakStep
<1> QED
  BY <1>1, <1>2, CallInvariant, PTL DEF Spec

(* A refused call has left no trace outside its pending key.               *)
THEOREM RefusalsLeaveNothing == Spec => []RefusedCallLeavesNothing
<1>1. CallInv => RefusedCallLeavesNothing
  BY ConstantsAssumption DEF ConstantsAssumption, CallInv,
     RegistrationFollowsPc, RecordsFollowPc, SessionFollowsPc,
     RefusedCallLeavesNothing, Unregistered, Members, TypeOK
<1> QED
  BY <1>1, CallInvariant, PTL

(* Unless the database failed, a finished call is logged and billed.       *)
THEOREM FinishedCallsAreBilled == Spec => []FinishedCallBilled
<1>1. CallInv => FinishedCallBilled
  BY DEF CallInv, RecordsFollowPc, FinishedCallBilled
<1> QED
  BY <1>1, CallInvariant, PTL

(* A task that is scheduled finds the log it was scheduled for. *)
LEMMA TaskStep ==
  CallInv /\ TaskFindsItsLog /\ [Next]_vars => TaskFindsItsLog'
<1> SUFFICES ASSUME CallInv, TaskFindsItsLog, [Next]_vars
             PROVE  TaskFindsItsLog'
  OBVIOUS
<1> USE DEF CallInv, TypeOK, TaskFindsItsLog, records, redis, Goto, Blame,
     RecordsFollowPc
<1>1. CASE \/ \E id \in CallIds : PendingExpires(id)
           \/ \E t \in Tenants : SetExpires(t)
  BY <1>1 DEF PendingExpires, SetExpires
<1>2. ASSUME NEW c \in Calls, Admit(c)
      PROVE  TaskFindsItsLog'
  BY <1>2 DEF Admit, OpenStream, CheckConcurrency, CheckUsageLimit, HsetSession,
       ExpireSession, SaddMember, StartBridge
<1>3. ASSUME NEW c \in Calls, Cleanup(c)
      PROVE  TaskFindsItsLog'
  BY <1>3 DEF Cleanup, MarkCompleted, SremMember, DeleteKey, PersistCall,
       DispatchWebhook, EnqueuePostCall
<1>4. ASSUME NEW c \in Calls, ConnectOpenAI(c) \/ BridgeEnds(c)
      PROVE  TaskFindsItsLog'
  BY <1>4 DEF ConnectOpenAI, BridgeEnds
<1>5. ASSUME NEW c \in Calls, Environment(c)
      PROVE  TaskFindsItsLog'
  BY <1>5 DEF Environment, InitiateOutboundCall, InboundCallWebhook,
       CallStatusCallback, TwilioStops, OpenAICloses, AdmissionError,
       CleanupError, Crash, KeyExpires
<1>6. CASE UNCHANGED vars
  BY <1>6 DEF vars
<1> QED
  BY <1>1, <1>2, <1>3, <1>4, <1>5, <1>6 DEF Next, Serve

(* The worker and the tenant's webhook hear of a call after its commit.    *)
THEOREM TasksFindTheirLogs == Spec => []TaskFindsItsLog
<1>1. Init => TaskFindsItsLog
  BY DEF Init, TaskFindsItsLog
<1>2. CallInv /\ TaskFindsItsLog /\ [Next]_vars => TaskFindsItsLog'
  BY TaskStep
<1> QED
  BY <1>1, <1>2, CallInvariant, PTL DEF Spec

(* The bill, the log, the task and the webhook of a call go together.      *)
THEOREM RecordsAreComplete == Spec => []RecordsComplete
<1>1. FinishedCallBilled /\ TaskFindsItsLog => RecordsComplete
  BY DEF RecordsComplete
<1> QED
  BY <1>1, FinishedCallsAreBilled, TasksFindTheirLogs, PTL

(* A call that is listed is live, after every step. *)
LEMMA ListedStep ==
  CallInv /\ ListedCallIsLive /\ [Next]_vars => ListedCallIsLive'
<1> SUFFICES ASSUME CallInv, ListedCallIsLive, [Next]_vars
             PROVE  ListedCallIsLive'
  OBVIOUS
<1> USE IdFacts DEF UpdateSession, NoSession, Sessions
<1> USE DEF CallInv, TypeOK, ListedCallIsLive, redis, Goto, Blame, Handling,
     Admitting, Bridged, Wound, SessionFollowsPc, Exists
<1>1. CASE \/ \E id \in CallIds : PendingExpires(id)
           \/ \E t \in Tenants : SetExpires(t)
  BY <1>1 DEF PendingExpires, SetExpires
<1>2. ASSUME NEW c \in Calls, Admit(c)
      PROVE  ListedCallIsLive'
  <2>1. CASE OpenStream(c)
    BY <2>1 DEF OpenStream
  <2>2. CASE CheckConcurrency(c)
    BY <2>2 DEF CheckConcurrency
  <2>3. CASE CheckUsageLimit(c)
    BY <2>3 DEF CheckUsageLimit
  <2>4. CASE HsetSession(c)
    BY <2>4 DEF HsetSession
  <2>5. CASE ExpireSession(c)
    BY <2>5 DEF ExpireSession
  <2>6. CASE SaddMember(c)
    BY <2>6 DEF SaddMember
  <2>7. CASE StartBridge(c)
    BY <2>7 DEF StartBridge
  <2> QED
    BY <1>2, <2>1, <2>2, <2>3, <2>4, <2>5, <2>6, <2>7 DEF Admit
<1>3. ASSUME NEW c \in Calls, Cleanup(c)
      PROVE  ListedCallIsLive'
  <2>1. CASE MarkCompleted(c)
    BY <2>1 DEF MarkCompleted
  <2>2. CASE SremMember(c)
    BY <2>2 DEF SremMember
  <2>3. CASE DeleteKey(c)
    BY <2>3 DEF DeleteKey
  <2>4. CASE PersistCall(c)
    BY <2>4 DEF PersistCall
  <2>5. CASE DispatchWebhook(c)
    BY <2>5 DEF DispatchWebhook
  <2>6. CASE EnqueuePostCall(c)
    BY <2>6 DEF EnqueuePostCall
  <2> QED
    BY <1>3, <2>1, <2>2, <2>3, <2>4, <2>5, <2>6 DEF Cleanup
<1>4. ASSUME NEW c \in Calls, ConnectOpenAI(c) \/ BridgeEnds(c)
      PROVE  ListedCallIsLive'
  <2>1. CASE ConnectOpenAI(c)
    BY <2>1 DEF ConnectOpenAI
  <2>2. CASE BridgeEnds(c)
    BY <2>2 DEF BridgeEnds
  <2> QED
    BY <1>4, <2>1, <2>2
<1>5. ASSUME NEW c \in Calls, Environment(c)
      PROVE  ListedCallIsLive'
  <2>1. CASE InitiateOutboundCall(c)
    <3>1. pc[c] = "idle" /\ session' = session
      BY <2>1 DEF InitiateOutboundCall
    <3>2. \A d \in Calls \ {c} : pc'[d] = pc[d]
      BY <2>1 DEF InitiateOutboundCall
    <3>3. \A d \in Calls : cause[d] \subseteq cause'[d]
      <4>1. \/ cause' = cause
            \/ cause' = [cause EXCEPT ![c] = @ \cup {"provider"}]
        BY <2>1 DEF InitiateOutboundCall
      <4>2. cause \in [Calls -> SUBSET FaultKinds]
        OBVIOUS
      <4> QED
        BY ONLY <4>1, <4>2
    <3>4. session[LegId(c)].state \notin {"connecting", "active"}
      BY <3>1
    <3> QED
      BY <3>1, <3>2, <3>3, <3>4
  <2>2. CASE CallStatusCallback(c)
    BY <2>2 DEF CallStatusCallback
  <2>3. CASE AdmissionError(c)
    <3>1. CASE Blame(c, "redis")
      BY <2>3, <3>1 DEF AdmissionError
    <3>2. CASE pc[c] \in {"verified", "counted"}
      <4>1. session[LegId(c)].state \notin {"connecting", "active"}
        BY <3>2
      <4> QED
        BY <2>3, <4>1 DEF AdmissionError
    <3> QED
      BY <2>3, <3>1, <3>2 DEF AdmissionError
  <2>4. CASE CleanupError(c)
    BY <2>4 DEF CleanupError
  <2>5. CASE Crash(c)
    BY <2>5 DEF Crash
  <2>6. CASE InboundCallWebhook(c) \/ TwilioStops(c) \/ OpenAICloses(c) \/
       KeyExpires(c)
    BY <2>6 DEF InboundCallWebhook, TwilioStops, OpenAICloses, KeyExpires
  <2> QED
    BY <1>5, <2>1, <2>2, <2>3, <2>4, <2>5, <2>6 DEF Environment
<1>6. CASE UNCHANGED vars
  BY <1>6 DEF vars
<1> QED
  BY <1>1, <1>2, <1>3, <1>4, <1>5, <1>6 DEF Next, Serve

(* The list of active calls shows served calls and explained leftovers.    *)
THEOREM ListedCallsAreLive == Spec => []ListedCallIsLive
<1>1. Init => ListedCallIsLive
  BY IdFacts DEF Init, ListedCallIsLive, NoSession
<1>2. CallInv /\ ListedCallIsLive /\ [Next]_vars => ListedCallIsLive'
  BY ListedStep
<1> QED
  BY <1>1, <1>2, CallInvariant, PTL DEF Spec

-------------------------------------------------------------------------------
(* The tenants' sets implement a pool of slots *)

(* A call about to be registered is in the window, so a slot is left.      *)
LEMMA SlotIsLeft ==
  ASSUME TypeOK, CallInv, NEW c \in Calls, pc[c] = "keyed"
  PROVE  /\ c \notin registered
         /\ Cardinality(Members(c)) < Limit + MaxAdmitting - 1
<1> DEFINE t == TenantOf[c]
<1>1. t \in Tenants
  BY ConstantsAssumption DEF ConstantsAssumption
<1>2. c \notin registered /\ c \notin members[t]
  BY <1>1 DEF CallInv, RegistrationFollowsPc, Unregistered, Admitting
<1>3. members[t] \cup {c} \subseteq Slots(t)
  BY DEF Slots, Window, Admitting
<1>4. IsFiniteSet(Slots(t)) /\ Cardinality(Slots(t)) <= Limit + MaxAdmitting - 1
  BY <1>1 DEF CallInv, WindowBounded
<1> HIDE DEF t
<1>5. IsFiniteSet(members[t]) /\ IsFiniteSet(members[t] \cup {c})
  BY <1>3, <1>4, FS_Subset
<1>6. Cardinality(members[t] \cup {c}) = Cardinality(members[t]) + 1
  BY <1>2, <1>5, FS_AddElement
<1>7. Cardinality(members[t] \cup {c}) <= Cardinality(Slots(t))
  BY <1>3, <1>4, FS_Subset
<1>8. Cardinality(members[t]) \in Nat /\ Cardinality(Slots(t)) \in Nat
  BY <1>4, <1>5, FS_CardinalityType
<1>9. Cardinality(members[t]) < Limit + MaxAdmitting - 1
  BY <1>4, <1>6, <1>7, <1>8, ConstantsAssumption DEF ConstantsAssumption
<1> QED
  BY <1>2, <1>9 DEF t, Members

(* Registration takes a slot, billing follows it, SREM and expiry release. *)
LEMMA PoolStep ==
  TypeOK /\ CallInv /\ [Next]_vars => [Pool!PoolNext]_(Pool!poolVars)
<1> SUFFICES ASSUME TypeOK, CallInv, [Next]_vars
             PROVE  Pool!PoolNext \/ UNCHANGED <<members, registered, billed>>
  BY DEF Pool!poolVars
<1> USE DEF slots, redis, records
<1>1. CASE \E id \in CallIds : PendingExpires(id)
  BY <1>1 DEF PendingExpires
<1>2. ASSUME NEW t \in Tenants, SetExpires(t)
      PROVE  Pool!PoolNext
  <2>1. Pool!Release(t, members[t])
    <3>1. members' = [members EXCEPT ![t] = members[t] \ members[t]]
      BY <1>2 DEF SetExpires
    <3> QED
      BY <1>2, <3>1 DEF SetExpires, Pool!Release
  <2>2. members[t] \in SUBSET members[t]
    OBVIOUS
  <2> QED
    BY <2>1, <2>2 DEF Pool!PoolNext
<1>3. ASSUME NEW c \in Calls, SaddMember(c)
      PROVE  Pool!PoolNext
  <2>1. Pool!Acquire(c)
    <3>1. /\ c \notin registered
          /\ Cardinality(members[TenantOf[c]]) < Limit + MaxAdmitting - 1
      BY <1>3, SlotIsLeft DEF SaddMember, Goto, Members
    <3>2. /\ members' = [members EXCEPT ![TenantOf[c]] = @ \cup {c}]
          /\ registered' = registered \cup {c}
          /\ UNCHANGED billed
      BY <1>3 DEF SaddMember
    <3> QED
      BY <3>1, <3>2 DEF Pool!Acquire, Pool!Cardinality, Cardinality
  <2> QED
    BY <2>1 DEF Pool!PoolNext
<1>4. ASSUME NEW c \in Calls, SremMember(c)
      PROVE  Pool!PoolNext \/ UNCHANGED <<members, registered, billed>>
  <2>1. TenantOf[c] \in Tenants
    BY ConstantsAssumption DEF ConstantsAssumption
  <2>2. CASE c \in members[TenantOf[c]]
    <3>1. Pool!Release(TenantOf[c], {c})
      BY <1>4, <2>1 DEF SremMember, Pool!Release
    <3> QED
      BY <2>1, <2>2, <3>1 DEF Pool!PoolNext
  <2>3. CASE c \notin members[TenantOf[c]]
    BY <1>4, <2>1, <2>3 DEF SremMember, TypeOK
  <2> QED
    BY <2>2, <2>3
<1>5. ASSUME NEW c \in Calls, PersistCall(c)
      PROVE  Pool!PoolNext \/ UNCHANGED <<members, registered, billed>>
  <2>1. CASE UNCHANGED billed
    BY <1>5, <2>1 DEF PersistCall
  <2>2. CASE billed' = billed \cup {c}
    <3>1. c \in registered \ billed
      BY <1>5 DEF PersistCall, Goto, CallInv, RegistrationFollowsPc,
         RecordsFollowPc, Registered
    <3>2. Pool!Bill(c)
      BY <1>5, <2>2, <3>1 DEF PersistCall, Pool!Bill
    <3> QED
      BY <3>2 DEF Pool!PoolNext
  <2> QED
    BY <1>5, <2>1, <2>2 DEF PersistCall
<1>6. ASSUME NEW c \in Calls, Serve(c) \/ Environment(c),
             ~SaddMember(c), ~SremMember(c), ~PersistCall(c)
      PROVE  UNCHANGED <<members, registered, billed>>
  <2>1. CASE Admit(c)
    BY <1>6, <2>1 DEF Admit, OpenStream, CheckConcurrency, CheckUsageLimit,
       HsetSession, ExpireSession, StartBridge
  <2>2. CASE Cleanup(c)
    BY <1>6, <2>2 DEF Cleanup, MarkCompleted, DeleteKey, DispatchWebhook,
       EnqueuePostCall
  <2>3. CASE ConnectOpenAI(c) \/ BridgeEnds(c)
    BY <2>3 DEF ConnectOpenAI, BridgeEnds
  <2>4. CASE Environment(c)
    BY <2>4 DEF Environment, InitiateOutboundCall, InboundCallWebhook,
       CallStatusCallback, TwilioStops, OpenAICloses, AdmissionError,
       CleanupError, Crash, KeyExpires
  <2> QED
    BY <1>6, <2>1, <2>2, <2>3, <2>4 DEF Serve
<1>7. CASE UNCHANGED vars
  BY <1>7 DEF vars
<1> QED
  BY <1>1, <1>2, <1>3, <1>4, <1>5, <1>6, <1>7 DEF Next

(* Call admission implements the pool of slots, with the slack of the      *)
(* admission window as the price of counting before registering.           *)
THEOREM AdmissionIsSlotPool == Spec => PoolSpecHolds
<1>1. Init => Pool!PoolInit
  BY DEF Init, Pool!PoolInit
<1>2. TypeOK /\ CallInv /\ [Next]_vars => [Pool!PoolNext]_(Pool!poolVars)
  BY PoolStep
<1> QED
  BY <1>1, <1>2, TypeCorrect, CallInvariant, PTL
     DEF Spec, PoolSpecHolds, Pool!PoolSpec
===============================================================================
