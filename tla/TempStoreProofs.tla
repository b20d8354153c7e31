-------------------------- MODULE TempStoreProofs --------------------------
(***************************************************************************)
(* TempStore, proved for every set of owners, ids and threads, every       *)
(* lifetime and every horizon.                                             *)
(***************************************************************************)
EXTENDS TempStore, TLAPS

\* The steps of Next, one disjunct per operation of the code.
LEMMA Steps ==
    ASSUME [Next]_vars
    PROVE  \/ Tick
           \/ \E w \in Worker, o \in Owner, i \in Id : BeginCreate(w, o, i)
           \/ \E w \in Worker : FinishCreate(w)
           \/ \E w \in Worker, o \in Owner, i \in Id : BeginGet(w, o, i)
           \/ \E w \in Worker : GetMisses(w)
           \/ \E w \in Worker : GetFindsExpired(w)
           \/ \E w \in Worker : GetFinds(w)
           \/ \E w \in Worker, o \in Owner, i \in Id : DeleteFinds(w, o, i)
           \/ \E w \in Worker, o \in Owner, i \in Id : DeleteMisses(w, o, i)
           \/ CleanupExpired
           \/ Clear
           \/ UNCHANGED vars
BY DEF Next, Finish

-----------------------------------------------------------------------------
LEMMA InitTypeOK == Init => TypeOK
BY DEF Init, TypeOK, Call

LEMMA StepTypeOK == ASSUME TypeOK, [Next]_vars PROVE TypeOK'
<1> USE DEF TypeOK, AnswerCall, Free, Pending
<1> USE TTLAssumption, NoneAssumption
<1>1. CASE Tick
  BY <1>1 DEF Tick
<1>2. CASE \E w \in Worker, o \in Owner, i \in Id : BeginCreate(w, o, i)
  <2>1. PICK w \in Worker, o \in Owner, i \in Id : BeginCreate(w, o, i)
    BY <1>2
  <2>2. now + TTL \in Nat
    OBVIOUS
  <2>3. [owner |-> o, expires_at |-> now + TTL] \in Upload
    BY <2>2 DEF Upload
  <2>4. born' \in [Id -> Upload \cup {None}]
    BY <2>1, <2>3 DEF BeginCreate
  <2>5. [op |-> "create", owner |-> o, id |-> i, at |-> now, answer |-> "pending"] \in Call
    BY DEF Call
  <2>6. call' \in [Worker -> Call]
    BY <2>1, <2>5 DEF BeginCreate
  <2> QED BY <2>1, <2>4, <2>6 DEF BeginCreate
<1>3. CASE \E w \in Worker : FinishCreate(w)
  <2>1. PICK w \in Worker : FinishCreate(w)
    BY <1>3
  <2>2. call[w].id \in Id
    BY <2>1 DEF FinishCreate
  <2>3. uploads' \in [Id -> Upload \cup {None}]
    BY <2>1, <2>2 DEF FinishCreate, RemoveExpired
  <2>4. call' \in [Worker -> Call]
    BY <2>1 DEF FinishCreate, Call, Answers
  <2> QED BY <2>1, <2>3, <2>4 DEF FinishCreate
<1>4. CASE \E w \in Worker, o \in Owner, i \in Id : BeginGet(w, o, i)
  BY <1>4 DEF BeginGet, Call
<1>5. CASE \E w \in Worker : GetMisses(w)
  BY <1>5 DEF GetMisses, Call, Answers
<1>6. CASE \E w \in Worker : GetFindsExpired(w)
  BY <1>6 DEF GetFindsExpired, Call, Answers
<1>7. CASE \E w \in Worker : GetFinds(w)
  BY <1>7 DEF GetFinds, Call, Answers
<1>8. CASE \E w \in Worker, o \in Owner, i \in Id : DeleteFinds(w, o, i)
  BY <1>8 DEF DeleteFinds, Call, Answers
<1>9. CASE \E w \in Worker, o \in Owner, i \in Id : DeleteMisses(w, o, i)
  BY <1>9 DEF DeleteMisses, Call, Answers
<1>10. CASE CleanupExpired
  BY <1>10 DEF CleanupExpired, RemoveExpired
<1>11. CASE Clear
  BY <1>11 DEF Clear
<1>12. CASE UNCHANGED vars
  BY <1>12 DEF vars
<1> QED
  BY <1>1, <1>2, <1>3, <1>4, <1>5, <1>6, <1>7, <1>8, <1>9, <1>10, <1>11, <1>12, Steps

\* The state of the store keeps its types, for every value of the constants.
THEOREM TypeCorrect == Spec => []TypeOK
BY InitTypeOK, StepTypeOK, PTL DEF Spec
-----------------------------------------------------------------------------
\* The inductive invariant: the parts Isolation, NeverStale and LossJustified
\* talk about answers and history, Linked ties both to the dict.
IInv == TypeOK /\ Linked /\ Isolation /\ NeverStale /\ LossJustified

LEMMA InitIInv == Init => IInv
<1> SUFFICES ASSUME Init PROVE IInv
  OBVIOUS
<1>1. TypeOK
  BY InitTypeOK
<1> QED
  BY <1>1 DEF Init, IInv, Linked, Isolation, NeverStale, LossJustified, Pending

\* A sweep with any clock reading of the past removes only what is due.
LEMMA SweepRemovesDue ==
    ASSUME TypeOK, Linked, NEW t \in Nat, t <= now, NEW i \in Id,
           uploads[i] # None, RemoveExpired(t)[i] = None
    PROVE  born[i].expires_at <= now
BY NoneAssumption DEF RemoveExpired, ExpiredAt, TypeOK, Linked, Upload

LEMMA StepLinked == ASSUME TypeOK, Linked, [Next]_vars PROVE Linked'
<1> USE DEF TypeOK, AnswerCall, Free, Pending
<1> USE TTLAssumption, NoneAssumption
<1>1. CASE Tick
  BY <1>1 DEF Tick, Linked, Call
<1>2. CASE \E w \in Worker, o \in Owner, i \in Id : BeginCreate(w, o, i)
  <2>1. PICK w \in Worker, o \in Owner, i \in Id : BeginCreate(w, o, i)
    BY <1>2
  <2>2. born[i] = None /\ uploads[i] = None
    BY <2>1 DEF BeginCreate, Linked
  <2>3. /\ now' = now /\ uploads' = uploads
        /\ born' = [born EXCEPT ![i] = [owner |-> o, expires_at |-> now + TTL]]
        /\ call' = [call EXCEPT ![w] = [op |-> "create", owner |-> o, id |-> i,
                                        at |-> now, answer |-> "pending"]]
    BY <2>1 DEF BeginCreate
  <2>4. born'[i].owner = o /\ born'[i] # None
    <3>1. [owner |-> o, expires_at |-> now + TTL] \in Upload
      BY DEF Upload
    <3> QED BY <2>3, <3>1
  <2>5. \A j \in Id : uploads'[j] # None => uploads'[j] = born'[j]
    BY <2>2, <2>3 DEF Linked
  <2>6. \A v \in Worker : call'[v].at <= now'
    BY <2>3 DEF Linked, Call
  <2>7. \A v \in Worker : Pending(v, "create")' =>
            /\ born'[call'[v].id] # None
            /\ born'[call'[v].id].owner = call'[v].owner
            /\ uploads'[call'[v].id] = None
    BY <2>2, <2>3, <2>4 DEF Linked
  <2>8. \A u, v \in Worker :
            Pending(u, "create")' /\ Pending(v, "create")' /\ call'[u].id = call'[v].id => u = v
    BY <2>2, <2>3 DEF Linked
  <2> QED BY <2>5, <2>6, <2>7, <2>8 DEF Linked
<1>3. CASE \E w \in Worker : FinishCreate(w)
  <2>1. PICK w \in Worker : FinishCreate(w)
    BY <1>3
  <2>2. /\ now' = now /\ born' = born
        /\ uploads' = [RemoveExpired(call[w].at) EXCEPT ![call[w].id] = born[call[w].id]]
        /\ call' = [call EXCEPT ![w].answer = "created"]
        /\ Pending(w, "create") /\ call[w].id \in Id
    BY <2>1 DEF FinishCreate
  <2>3. \A j \in Id : uploads'[j] # None => uploads'[j] = born'[j]
    BY <2>2 DEF Linked, RemoveExpired
  <2>4. \A v \in Worker : call'[v].at <= now'
    BY <2>2 DEF Linked
  <2>5. \A v \in Worker : Pending(v, "create")' => v # w /\ Pending(v, "create")
    BY <2>2
  <2>6. \A v \in Worker : Pending(v, "create")' =>
            /\ born'[call'[v].id] # None
            /\ born'[call'[v].id].owner = call'[v].owner
            /\ uploads'[call'[v].id] = None
    BY <2>2, <2>5 DEF Linked, RemoveExpired
  <2>7. \A u, v \in Worker :
            Pending(u, "create")' /\ Pending(v, "create")' /\ call'[u].id = call'[v].id => u = v
    BY <2>2, <2>5 DEF Linked
  <2> QED BY <2>3, <2>4, <2>6, <2>7 DEF Linked
<1>4. CASE \E w \in Worker, o \in Owner, i \in Id : BeginGet(w, o, i)
  BY <1>4 DEF BeginGet, Linked
<1>5. CASE \E w \in Worker : GetMisses(w)
  BY <1>5 DEF GetMisses, Linked
<1>6. CASE \E w \in Worker : GetFindsExpired(w)
  BY <1>6 DEF GetFindsExpired, Linked
<1>7. CASE \E w \in Worker : GetFinds(w)
  BY <1>7 DEF GetFinds, Linked
<1>8. CASE \E w \in Worker, o \in Owner, i \in Id : DeleteFinds(w, o, i)
  BY <1>8 DEF DeleteFinds, Linked
<1>9. CASE \E w \in Worker, o \in Owner, i \in Id : DeleteMisses(w, o, i)
  BY <1>9 DEF DeleteMisses, Linked
<1>10. CASE CleanupExpired
  BY <1>10 DEF CleanupExpired, RemoveExpired, Linked
<1>11. CASE Clear
  BY <1>11 DEF Clear, Linked
<1>12. CASE UNCHANGED vars
  BY <1>12 DEF vars, Linked
<1> QED
  BY <1>1, <1>2, <1>3, <1>4, <1>5, <1>6, <1>7, <1>8, <1>9, <1>10, <1>11, <1>12, Steps
-----------------------------------------------------------------------------
\* A get under the lock answers from the entry the id was issued with.
LEMMA StepIsolation == ASSUME TypeOK, Linked, Isolation, [Next]_vars PROVE Isolation'
<1> USE DEF TypeOK, AnswerCall, Free, Pending, Isolation
<1> USE NoneAssumption
<1>1. CASE Tick
  BY <1>1 DEF Tick
<1>2. CASE \E w \in Worker, o \in Owner, i \in Id : BeginCreate(w, o, i)
  BY <1>2 DEF BeginCreate, Call
<1>3. CASE \E w \in Worker : FinishCreate(w)
  BY <1>3 DEF FinishCreate
<1>4. CASE \E w \in Worker, o \in Owner, i \in Id : BeginGet(w, o, i)
  BY <1>4 DEF BeginGet
<1>5. CASE \E w \in Worker : GetMisses(w)
  BY <1>5 DEF GetMisses
<1>6. CASE \E w \in Worker : GetFindsExpired(w)
  BY <1>6 DEF GetFindsExpired, Owns, OwnedBy, Linked
<1>7. CASE \E w \in Worker : GetFinds(w)
  BY <1>7 DEF GetFinds, Owns, OwnedBy, Linked
<1>8. CASE \E w \in Worker, o \in Owner, i \in Id : DeleteFinds(w, o, i)
  BY <1>8 DEF DeleteFinds, OwnedBy, Linked
<1>9. CASE \E w \in Worker, o \in Owner, i \in Id : DeleteMisses(w, o, i)
  BY <1>9 DEF DeleteMisses
<1>10. CASE CleanupExpired
  BY <1>10 DEF CleanupExpired
<1>11. CASE Clear
  BY <1>11 DEF Clear
<1>12. CASE UNCHANGED vars
  BY <1>12 DEF vars
<1> QED
  BY <1>1, <1>2, <1>3, <1>4, <1>5, <1>6, <1>7, <1>8, <1>9, <1>10, <1>11, <1>12, Steps

LEMMA StepNeverStale ==
    ASSUME TypeOK, Linked, Isolation, NeverStale, [Next]_vars PROVE NeverStale'
<1> USE DEF TypeOK, AnswerCall, Free, Pending, NeverStale
<1> USE NoneAssumption
<1>1. CASE Tick
  BY <1>1 DEF Tick
<1>2. CASE \E w \in Worker, o \in Owner, i \in Id : BeginCreate(w, o, i)
  BY <1>2 DEF BeginCreate, Isolation, Call
<1>3. CASE \E w \in Worker : FinishCreate(w)
  BY <1>3 DEF FinishCreate
<1>4. CASE \E w \in Worker, o \in Owner, i \in Id : BeginGet(w, o, i)
  BY <1>4 DEF BeginGet
<1>5. CASE \E w \in Worker : GetMisses(w)
  BY <1>5 DEF GetMisses
<1>6. CASE \E w \in Worker : GetFindsExpired(w)
  BY <1>6 DEF GetFindsExpired, ExpiredAt, Linked
<1>7. CASE \E w \in Worker : GetFinds(w)
  <2>1. PICK w \in Worker : GetFinds(w)
    BY <1>7
  <2>2. /\ born[call[w].id] = uploads[call[w].id]
        /\ uploads[call[w].id] \in Upload
        /\ call[w].at \in Nat
    BY <2>1 DEF GetFinds, Owns, OwnedBy, Linked, Call
  <2>3. call[w].at < born[call[w].id].expires_at
    BY <2>1, <2>2 DEF GetFinds, ExpiredAt, Owns, OwnedBy, Upload
  <2> QED BY <2>1, <2>3 DEF GetFinds
<1>8. CASE \E w \in Worker, o \in Owner, i \in Id : DeleteFinds(w, o, i)
  BY <1>8 DEF DeleteFinds
<1>9. CASE \E w \in Worker, o \in Owner, i \in Id : DeleteMisses(w, o, i)
  BY <1>9 DEF DeleteMisses
<1>10. CASE CleanupExpired
  BY <1>10 DEF CleanupExpired
<1>11. CASE Clear
  BY <1>11 DEF Clear
<1>12. CASE UNCHANGED vars
  BY <1>12 DEF vars
<1> QED
  BY <1>1, <1>2, <1>3, <1>4, <1>5, <1>6, <1>7, <1>8, <1>9, <1>10, <1>11, <1>12, Steps

LEMMA StepLossJustified ==
    ASSUME TypeOK, Linked, LossJustified, [Next]_vars PROVE LossJustified'
<1> USE DEF TypeOK, AnswerCall, Free, Pending, LossJustified
<1> USE NoneAssumption
<1>1. CASE Tick
  BY <1>1 DEF Tick, BeingCreated, Upload
<1>2. CASE \E w \in Worker, o \in Owner, i \in Id : BeginCreate(w, o, i)
  <2>1. PICK w \in Worker, o \in Owner, i \in Id : BeginCreate(w, o, i)
    BY <1>2
  <2>2. BeingCreated(i)'
    BY <2>1 DEF BeginCreate, BeingCreated
  <2>3. \A j \in Id : BeingCreated(j) => BeingCreated(j)'
    BY <2>1 DEF BeginCreate, BeingCreated
  <2> QED BY <2>1, <2>2, <2>3 DEF BeginCreate
<1>3. CASE \E w \in Worker : FinishCreate(w)
  <2>1. PICK w \in Worker : FinishCreate(w)
    BY <1>3
  <2>2. /\ call[w].id \in Id /\ born[call[w].id] # None
        /\ call[w].at \in Nat /\ call[w].at <= now
    BY <2>1 DEF FinishCreate, Linked, Call
  <2>3. uploads'[call[w].id] # None
    BY <2>1, <2>2 DEF FinishCreate, RemoveExpired
  <2>4. \A j \in Id \ {call[w].id} : BeingCreated(j) => BeingCreated(j)'
    BY <2>1 DEF FinishCreate, BeingCreated
  <2>5. \A j \in Id \ {call[w].id} :
            uploads[j] # None /\ uploads'[j] = None => born[j].expires_at <= now
    BY <2>1, <2>2, SweepRemovesDue DEF FinishCreate, RemoveExpired
  <2> QED BY <2>1, <2>3, <2>4, <2>5 DEF FinishCreate
<1>4. CASE \E w \in Worker, o \in Owner, i \in Id : BeginGet(w, o, i)
  BY <1>4 DEF BeginGet, BeingCreated
<1>5. CASE \E w \in Worker : GetMisses(w)
  BY <1>5 DEF GetMisses, BeingCreated
<1>6. CASE \E w \in Worker : GetFindsExpired(w)
  <2>1. PICK w \in Worker : GetFindsExpired(w)
    BY <1>6
  <2>2. \A j \in Id : BeingCreated(j) => BeingCreated(j)'
    BY <2>1 DEF GetFindsExpired, BeingCreated
  <2>3. /\ call[w].id \in Id /\ call[w].at \in Nat /\ call[w].at <= now
        /\ uploads[call[w].id] \in Upload
        /\ born[call[w].id] = uploads[call[w].id]
    BY <2>1 DEF GetFindsExpired, Linked, Owns, OwnedBy, Call
  <2>4. born[call[w].id].expires_at <= now
    BY <2>1, <2>3 DEF GetFindsExpired, ExpiredAt, Upload
  <2> QED BY <2>1, <2>2, <2>4 DEF GetFindsExpired
<1>7. CASE \E w \in Worker : GetFinds(w)
  BY <1>7 DEF GetFinds, BeingCreated
<1>8. CASE \E w \in Worker, o \in Owner, i \in Id : DeleteFinds(w, o, i)
  <2>1. PICK w \in Worker, o \in Owner, i \in Id : DeleteFinds(w, o, i)
    BY <1>8
  <2>2. \A j \in Id : BeingCreated(j) => BeingCreated(j)'
    BY <2>1 DEF DeleteFinds, BeingCreated
  <2>3. <<born[i].owner, i>> \in withdrawn'
    BY <2>1 DEF DeleteFinds, OwnedBy, Linked
  <2> QED BY <2>1, <2>2, <2>3 DEF DeleteFinds
<1>9. CASE \E w \in Worker, o \in Owner, i \in Id : DeleteMisses(w, o, i)
  BY <1>9 DEF DeleteMisses, BeingCreated
<1>10. CASE CleanupExpired
  <2>1. \A j \in Id :
            uploads[j] # None /\ uploads'[j] = None => born[j].expires_at <= now
    BY <1>10, SweepRemovesDue DEF CleanupExpired
  <2> QED BY <1>10, <2>1 DEF CleanupExpired, BeingCreated, RemoveExpired
<1>11. CASE Clear
  BY <1>11 DEF Clear
<1>12. CASE UNCHANGED vars
  BY <1>12 DEF vars, BeingCreated
<1> QED
  BY <1>1, <1>2, <1>3, <1>4, <1>5, <1>6, <1>7, <1>8, <1>9, <1>10, <1>11, <1>12, Steps

LEMMA StepIInv == IInv /\ [Next]_vars => IInv'
BY StepTypeOK, StepLinked, StepIsolation, StepNeverStale, StepLossJustified DEF IInv

\* The strengthened invariant holds in every behaviour of the store.
THEOREM Invariance == Spec => []IInv
BY InitIInv, StepIInv, PTL DEF Spec

\* No thread, however slow, is told anything about another owner's upload.
THEOREM IsolationHolds == Spec => []Isolation
<1>1. IInv => Isolation
  BY DEF IInv
<1> QED BY <1>1, Invariance, PTL

\* A found upload was alive, and an expired one dead, when its get began.
THEOREM NeverStaleHolds == Spec => []NeverStale
<1>1. IInv => NeverStale
  BY DEF IInv
<1> QED BY <1>1, Invariance, PTL

\* No upload is lost before its deadline unless its owner deleted it or the
\* process shut down.
THEOREM LossJustifiedHolds == Spec => []LossJustified
<1>1. IInv => LossJustified
  BY DEF IInv
<1> QED BY <1>1, Invariance, PTL
-----------------------------------------------------------------------------
\* Refinement: initial states map to initial states, and every step of a thread
\* to one step of ScopedStore or to none.
LEMMA InitRefines == Init => Promise!Init
<1> SUFFICES ASSUME Init PROVE Promise!Init
  OBVIOUS
<1>1. [i \in Id |-> Phase(i)] = [i \in Id |-> "unknown"]
  BY DEF Init, Phase
<1>2. Shown = {}
  BY DEF Init, Shown
<1> QED BY <1>1, <1>2 DEF Init, Promise!Init

LEMMA StepRefines == ASSUME IInv, [Next]_vars PROVE [Promise!Next]_Promise!vars
<1> USE DEF IInv, TypeOK, AnswerCall, Free, Pending
<1> USE NoneAssumption
<1> DEFINE phase == [i \in Id |-> Phase(i)]
<1>1. CASE Tick
  <2>1. phase' = phase /\ Shown' = Shown
    BY <1>1 DEF Tick, Phase, BeingCreated, Shown
  <2>2. Promise!TimePasses
    BY <1>1, <2>1 DEF Tick, Promise!TimePasses
  <2> QED BY <2>2 DEF Promise!Next
<1>2. CASE \E w \in Worker, o \in Owner, i \in Id : BeginCreate(w, o, i)
  <2>1. PICK w \in Worker, o \in Owner, i \in Id : BeginCreate(w, o, i)
    BY <1>2
  <2>2. uploads[i] = None /\ ~BeingCreated(i)
    BY <2>1 DEF BeginCreate, Linked, BeingCreated
  <2>3. BeingCreated(i)' /\ \A j \in Id \ {i} : BeingCreated(j)' = BeingCreated(j)
    BY <2>1 DEF BeginCreate, BeingCreated
  <2>4. born'[i] # None
    <3>1. [owner |-> o, expires_at |-> now + TTL] \in Upload
      BY TTLAssumption DEF Upload
    <3> QED BY <2>1, <3>1 DEF BeginCreate
  <2>5. phase[i] = "unknown"
    BY <2>1, <2>2 DEF BeginCreate, Phase
  <2>6. phase' = [phase EXCEPT ![i] = "issued"]
    <3>1. Phase(i)' = "issued"
      BY <2>1, <2>2, <2>3, <2>4 DEF BeginCreate, Phase
    <3>2. \A j \in Id \ {i} : Phase(j)' = Phase(j)
      BY <2>1, <2>3 DEF BeginCreate, Phase
    <3> QED BY <3>1, <3>2
  <2>7. Shown' \subseteq Shown
    BY <2>1 DEF BeginCreate, Shown
  <2>8. Promise!Issue(i, o)
    BY <2>1, <2>5, <2>6, <2>7 DEF BeginCreate, Promise!Issue
  <2> QED BY <2>8 DEF Promise!Next
<1>3. CASE \E w \in Worker : FinishCreate(w)
  <2>1. PICK w \in Worker : FinishCreate(w)
    BY <1>3
  <2> DEFINE i == call[w].id
  <2>2. /\ i \in Id /\ born[i] # None /\ uploads[i] = None
        /\ call[w].at \in Nat /\ call[w].at <= now
    BY <2>1 DEF FinishCreate, Linked, Call
  <2>3. \A j \in Id \ {i} : BeingCreated(j)' = BeingCreated(j)
    BY <2>1 DEF FinishCreate, BeingCreated
  <2>4. phase[i] = "issued" /\ phase'[i] = "held"
    BY <2>1, <2>2 DEF FinishCreate, Phase, BeingCreated, RemoveExpired
  <2>5. ASSUME NEW j \in Id \ {i}
        PROVE  phase'[j] = phase[j] \/ (Promise!Due(j) /\ phase'[j] = "gone")
    <3>1. CASE uploads[j] # None /\ uploads'[j] = None
      <4>1. born[j].expires_at <= now
        BY <2>1, <2>2, <3>1, SweepRemovesDue DEF FinishCreate, RemoveExpired
      <4>2. ~BeingCreated(j)' /\ born'[j] # None
        BY <2>1, <2>3, <3>1 DEF FinishCreate, Linked, BeingCreated
      <4> QED BY <3>1, <4>1, <4>2 DEF Phase, Promise!Due
    <3>2. CASE uploads'[j] = uploads[j]
      BY <2>1, <2>3, <3>2 DEF FinishCreate, Phase
    <3> QED BY <2>1, <3>1, <3>2 DEF FinishCreate, RemoveExpired
  <2>6. Shown' = Shown
    BY <2>1 DEF FinishCreate, Shown
  <2>7. Promise!Admit(i)
    BY <2>1, <2>4, <2>5, <2>6 DEF FinishCreate, Promise!Admit
  <2> QED BY <2>2, <2>7 DEF Promise!Next
<1>4. CASE \E w \in Worker, o \in Owner, i \in Id : BeginGet(w, o, i)
  <2>1. phase' = phase
    BY <1>4 DEF BeginGet, Phase, BeingCreated
  <2>2. Shown' \subseteq Shown
    BY <1>4 DEF BeginGet, Shown
  <2>3. Promise!LookAway
    BY <1>4, <2>1, <2>2 DEF BeginGet, Promise!LookAway
  <2> QED BY <2>3 DEF Promise!Next
<1>5. CASE \E w \in Worker : GetMisses(w)
  <2>1. phase' = phase /\ Shown' = Shown
    BY <1>5 DEF GetMisses, Phase, BeingCreated, Shown
  <2> QED BY <1>5, <2>1 DEF GetMisses, Promise!vars
<1>6. CASE \E w \in Worker : GetFindsExpired(w)
  <2>1. PICK w \in Worker : GetFindsExpired(w)
    BY <1>6
  <2> DEFINE i == call[w].id
  <2>2. /\ i \in Id /\ call[w].at \in Nat /\ call[w].at <= now
        /\ uploads[i] \in Upload /\ born[i] = uploads[i]
    BY <2>1 DEF GetFindsExpired, Linked, Owns, OwnedBy, Call
  <2>3. born[i].expires_at <= now
    BY <2>1, <2>2 DEF GetFindsExpired, ExpiredAt, Upload
  <2>4. \A j \in Id : BeingCreated(j)' = BeingCreated(j)
    BY <2>1 DEF GetFindsExpired, BeingCreated
  <2>5. \A j \in Id : uploads[j] # None => ~BeingCreated(j)'
    BY <2>4 DEF BeingCreated, Linked
  <2>6. Promise!Due(i) /\ phase'[i] = "gone"
    BY <2>1, <2>2, <2>3, <2>5 DEF GetFindsExpired, Phase, Promise!Due
  <2>7. \A j \in Id \ {i} : phase'[j] = phase[j]
    BY <2>1, <2>4 DEF GetFindsExpired, Phase
  <2>8. Shown' = Shown
    BY <2>1 DEF GetFindsExpired, Shown
  <2>9. Promise!Forget
    BY <2>1, <2>6, <2>7, <2>8 DEF GetFindsExpired, Promise!Forget
  <2> QED BY <2>9 DEF Promise!Next
<1>7. CASE \E w \in Worker : GetFinds(w)
  <2>1. PICK w \in Worker : GetFinds(w)
    BY <1>7
  <2> DEFINE i == call[w].id
             o == call[w].owner
  <2>2. /\ i \in Id /\ o \in Owner
        /\ uploads[i] # None /\ born[i] = uploads[i] /\ born[i].owner = o
    BY <2>1 DEF GetFinds, Owns, OwnedBy, Linked
  <2>3. phase' = phase
    BY <2>1 DEF GetFinds, Phase, BeingCreated
  <2>4. phase[i] = "held"
    BY <2>2 DEF Phase
  <2>5. Shown' = Shown \cup {<<o, i>>}
    BY <2>1 DEF GetFinds, Shown
  <2>6. Promise!Show(i, o)
    BY <2>1, <2>2, <2>3, <2>4, <2>5 DEF GetFinds, Promise!Show
  <2> QED BY <2>2, <2>6 DEF Promise!Next
<1>8. CASE \E w \in Worker, o \in Owner, i \in Id : DeleteFinds(w, o, i)
  <2>1. PICK w \in Worker, o \in Owner, i \in Id : DeleteFinds(w, o, i)
    BY <1>8
  <2>2. uploads[i] # None /\ born[i] = uploads[i] /\ born[i].owner = o
    BY <2>1 DEF DeleteFinds, OwnedBy, Linked
  <2>3. \A j \in Id : BeingCreated(j)' = BeingCreated(j)
    BY <2>1 DEF DeleteFinds, BeingCreated
  <2>4. ~BeingCreated(i)'
    BY <2>2, <2>3 DEF BeingCreated, Linked
  <2>5. phase[i] = "held" /\ phase' = [phase EXCEPT ![i] = "gone"]
    <3>1. Phase(i) = "held" /\ Phase(i)' = "gone"
      BY <2>1, <2>2, <2>4 DEF DeleteFinds, Phase
    <3>2. \A j \in Id \ {i} : Phase(j)' = Phase(j)
      BY <2>1, <2>3 DEF DeleteFinds, Phase
    <3> QED BY <3>1, <3>2
  <2>6. Shown' \subseteq Shown
    BY <2>1 DEF DeleteFinds, Shown
  <2>7. Promise!Withdraw(i, o)
    BY <2>1, <2>2, <2>5, <2>6 DEF DeleteFinds, Promise!Withdraw
  <2> QED BY <2>7 DEF Promise!Next
<1>9. CASE \E w \in Worker, o \in Owner, i \in Id : DeleteMisses(w, o, i)
  <2>1. phase' = phase
    BY <1>9 DEF DeleteMisses, Phase, BeingCreated
  <2>2. Shown' \subseteq Shown
    BY <1>9 DEF DeleteMisses, Shown
  <2>3. Promise!LookAway
    BY <1>9, <2>1, <2>2 DEF DeleteMisses, Promise!LookAway
  <2> QED BY <2>3 DEF Promise!Next
<1>10. CASE CleanupExpired
  <2>1. \A j \in Id : BeingCreated(j)' = BeingCreated(j)
    BY <1>10 DEF CleanupExpired, BeingCreated
  <2>2. ASSUME NEW j \in Id
        PROVE  phase'[j] = phase[j] \/ (Promise!Due(j) /\ phase'[j] = "gone")
    <3>1. CASE uploads[j] # None /\ uploads'[j] = None
      <4>1. born[j].expires_at <= now
        BY <1>10, <3>1, SweepRemovesDue DEF CleanupExpired
      <4>2. ~BeingCreated(j)' /\ born'[j] # None
        BY <1>10, <2>1, <3>1 DEF CleanupExpired, Linked, BeingCreated
      <4> QED BY <3>1, <4>1, <4>2 DEF Phase, Promise!Due
    <3>2. CASE uploads'[j] = uploads[j]
      BY <1>10, <2>1, <3>2 DEF CleanupExpired, Phase
    <3> QED BY <1>10, <3>1, <3>2 DEF CleanupExpired, RemoveExpired
  <2>3. Shown' = Shown
    BY <1>10 DEF CleanupExpired, Shown
  <2>4. Promise!Forget
    BY <1>10, <2>2, <2>3 DEF CleanupExpired, Promise!Forget
  <2> QED BY <2>4 DEF Promise!Next
<1>11. CASE Clear
  <2>1. \A j \in Id : ~BeingCreated(j) /\ ~BeingCreated(j)'
    BY <1>11 DEF Clear, BeingCreated
  <2>2. \A j \in Id : phase'[j] = IF phase[j] = "held" THEN "gone" ELSE phase[j]
    BY <1>11, <2>1 DEF Clear, Phase, Linked
  <2>3. Shown' = Shown
    BY <1>11 DEF Clear, Shown
  <2>4. Promise!ShutDown
    BY <1>11, <2>2, <2>3 DEF Clear, Promise!ShutDown
  <2> QED BY <2>4 DEF Promise!Next
<1>12. CASE UNCHANGED vars
  <2>1. phase' = phase /\ Shown' = Shown
    BY <1>12 DEF vars, Phase, BeingCreated, Shown
  <2> QED BY <1>12, <2>1 DEF vars, Promise!vars
<1> QED
  BY <1>1, <1>2, <1>3, <1>4, <1>5, <1>6, <1>7, <1>8, <1>9, <1>10, <1>11, <1>12, Steps

\* The threaded store, with its early clock readings, implements the atomic one.
THEOREM Refinement == Spec => KeepsPromise
BY InitRefines, StepRefines, Invariance, PTL DEF Spec, KeepsPromise, Promise!Spec
=============================================================================
