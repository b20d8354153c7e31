----------------------------- MODULE TempStore -----------------------------
(***************************************************************************)
(* TemporaryUploadStore of api/upload_store.py as its callers meet it: the *)
(* request threads of the server's pool and the cleanup task.  A create or *)
(* a get reads the clock first and takes the lock afterwards, so any       *)
(* number of other calls and any amount of time can fall between the two.  *)
(* A delete and a cleanup do all their work under the lock.                *)
(* AnalysisSessionStore (api/analysis_store.py) has the same control.      *)
(***************************************************************************)
EXTENDS Naturals

CONSTANTS Owner,    \* guest scopes
          Id,       \* upload ids; each is issued at most once (random tokens)
          Worker,   \* request threads
          TTL,      \* lifetime of an upload, in clock ticks
          Horizon,  \* bound: the last instant of a behaviour
          None      \* no entry, no owner, no id

Upload == [owner : Owner, expires_at : Nat]

ASSUME TTLAssumption == TTL \in Nat \ {0}
ASSUME HorizonAssumption == Horizon \in Nat
ASSUME NoneAssumption == None \notin Upload /\ None \notin Owner /\ None \notin Id

VARIABLES now,        \* the system clock
          uploads,    \* the dict: uploads[i] is the entry of i, or None
          open,       \* the process serves requests; FALSE once the lifespan ended
          call,       \* call[w]: the call of thread w, with its answer when it has one
          born,       \* history: the entry each id was issued with, or None
          withdrawn   \* history: pairs <<caller, id>> of successful deletes

vars == <<now, uploads, open, call, born, withdrawn>>

Answers == {"found", "notfound", "expired", "created", "deleted"}

Call == [op : {"idle", "create", "get", "delete"},
         owner : Owner \cup {None},
         id : Id \cup {None},
         at : Nat,
         answer : Answers \cup {"pending", "none"}]

Pending(w, op) == call[w].op = op /\ call[w].answer = "pending"
Free(w) == call[w].answer # "pending"
AnswerCall(w, a) == call' = [call EXCEPT ![w].answer = a]

-----------------------------------------------------------------------------
Init ==
    /\ now = 0
    /\ uploads = [i \in Id |-> None]
    /\ open = TRUE
    /\ call = [w \in Worker |->
                 [op |-> "idle", owner |-> None, id |-> None, at |-> 0, answer |-> "none"]]
    /\ born = [i \in Id |-> None]
    /\ withdrawn = {}

Tick ==
    /\ now < Horizon
    /\ now' = now + 1
    /\ UNCHANGED <<uploads, open, call, born, withdrawn>>

\* (mistake) An entry is still good in the instant of its deadline.
ExpiredAfterDeadline(i, t) == uploads[i] # None /\ uploads[i].expires_at < t

ExpiredAt(i, t) == uploads[i] # None /\ uploads[i].expires_at <= t

\* (mistake) The sweep forgets one tick too early.
SweepsEarly(t) ==
    [i \in Id |-> IF ExpiredAt(i, t + 1) THEN None ELSE uploads[i]]

RemoveExpired(t) ==
    [i \in Id |-> IF ExpiredAt(i, t) THEN None ELSE uploads[i]]

\* (mistake) The lifetime is taken off the clock instead of added.
CreateWithAge(w, o, i) ==
    /\ open
    /\ Free(w)
    /\ born[i] = None
    /\ born' = [born EXCEPT ![i] = [owner |-> o, expires_at |-> now - TTL]]
    /\ call' = [call EXCEPT ![w] = [op |-> "create", owner |-> o, id |-> i,
                                    at |-> now, answer |-> "pending"]]
    /\ UNCHANGED <<now, uploads, open, withdrawn>>

\* create, before the lock: clock, token and entry.  The bound on now leaves
\* room for the entry's deadline before the horizon.
BeginCreate(w, o, i) ==
    /\ open
    /\ Free(w)
    /\ born[i] = None
    /\ now + TTL <= Horizon
    /\ born' = [born EXCEPT ![i] = [owner |-> o, expires_at |-> now + TTL]]
    /\ call' = [call EXCEPT ![w] = [op |-> "create", owner |-> o, id |-> i,
                                    at |-> now, answer |-> "pending"]]
    /\ UNCHANGED <<now, uploads, open, withdrawn>>

\* create, under the lock: sweep at the time read before, then insert.
FinishCreate(w) ==
    /\ open
    /\ Pending(w, "create")
    /\ uploads' = [RemoveExpired(call[w].at) EXCEPT ![call[w].id] = born[call[w].id]]
    /\ AnswerCall(w, "created")
    /\ UNCHANGED <<now, open, born, withdrawn>>

\* get, before the lock: the clock.
BeginGet(w, o, i) ==
    /\ open
    /\ Free(w)
    /\ call' = [call EXCEPT ![w] = [op |-> "get", owner |-> o, id |-> i,
                                    at |-> now, answer |-> "pending"]]
    /\ UNCHANGED <<now, uploads, open, born, withdrawn>>

\* (mistake) Knowing the id is enough.
HeldByAnyone(o, i) == uploads[i] # None

OwnedBy(o, i) == uploads[i] # None /\ uploads[i].owner = o

Owns(w) == OwnedBy(call[w].owner, call[w].id)

GetMisses(w) ==
    /\ open
    /\ Pending(w, "get")
    /\ ~Owns(w)
    /\ AnswerCall(w, "notfound")
    /\ UNCHANGED <<now, uploads, open, born, withdrawn>>

\* (mistake) The deadline is looked at before the owner.
ExpiredForAnyone(w) ==
    /\ open
    /\ Pending(w, "get")
    /\ ExpiredAt(call[w].id, call[w].at)
    /\ uploads' = [uploads EXCEPT ![call[w].id] = None]
    /\ AnswerCall(w, "expired")
    /\ UNCHANGED <<now, open, born, withdrawn>>

GetFindsExpired(w) ==
    /\ open
    /\ Pending(w, "get")
    /\ Owns(w)
    /\ ExpiredAt(call[w].id, call[w].at)
    /\ uploads' = [uploads EXCEPT ![call[w].id] = None]
    /\ AnswerCall(w, "expired")
    /\ UNCHANGED <<now, open, born, withdrawn>>

\* (mistake) The deadline is left to the cleanup task.
FindsWhateverIsHeld(w) ==
    /\ open
    /\ Pending(w, "get")
    /\ Owns(w)
    /\ AnswerCall(w, "found")
    /\ UNCHANGED <<now, uploads, open, born, withdrawn>>

GetFinds(w) ==
    /\ open
    /\ Pending(w, "get")
    /\ Owns(w)
    /\ ~ExpiredAt(call[w].id, call[w].at)
    /\ AnswerCall(w, "found")
    /\ UNCHANGED <<now, uploads, open, born, withdrawn>>

\* delete: one section under the lock, no clock and no deadline.
DeleteFinds(w, o, i) ==
    /\ open
    /\ Free(w)
    /\ OwnedBy(o, i)
    /\ uploads' = [uploads EXCEPT ![i] = None]
    /\ withdrawn' = withdrawn \cup {<<o, i>>}
    /\ call' = [call EXCEPT ![w] = [op |-> "delete", owner |-> o, id |-> i,
                                    at |-> 0, answer |-> "deleted"]]
    /\ UNCHANGED <<now, open, born>>

DeleteMisses(w, o, i) ==
    /\ open
    /\ Free(w)
    /\ ~OwnedBy(o, i)
    /\ call' = [call EXCEPT ![w] = [op |-> "delete", owner |-> o, id |-> i,
                                    at |-> 0, answer |-> "notfound"]]
    /\ UNCHANGED <<now, uploads, open, born, withdrawn>>

\* (mistake) The task measures against an instant that never passes.
CleanupLate ==
    /\ open
    /\ uploads' = [i \in Id |-> IF ExpiredAfterDeadline(i, now) THEN None ELSE uploads[i]]
    /\ UNCHANGED <<now, open, call, born, withdrawn>>

\* The periodic cleanup reads the clock inside the lock.
CleanupExpired ==
    /\ open
    /\ uploads' = RemoveExpired(now)
    /\ UNCHANGED <<now, open, call, born, withdrawn>>

\* clear, at the end of the lifespan: the server has drained its requests.
Clear ==
    /\ open
    /\ \A w \in Worker : Free(w)
    /\ open' = FALSE
    /\ uploads' = [i \in Id |-> None]
    /\ UNCHANGED <<now, call, born, withdrawn>>

Finish(w) == FinishCreate(w) \/ GetMisses(w) \/ GetFindsExpired(w) \/ GetFinds(w)

Next ==
    \/ Tick
    \/ \E w \in Worker : Finish(w)
    \/ \E w \in Worker, o \in Owner, i \in Id :
          \/ BeginCreate(w, o, i)
          \/ BeginGet(w, o, i)
          \/ DeleteFinds(w, o, i)
          \/ DeleteMisses(w, o, i)
    \/ CleanupExpired
    \/ Clear

Spec == Init /\ [][Next]_vars

\* Time passes, threads in the pool run, and the cleanup task wakes every 60 s.
Fairness == WF_vars(Tick) /\ WF_vars(CleanupExpired) /\ \A w \in Worker : WF_vars(Finish(w))

FairSpec == Spec /\ Fairness
-----------------------------------------------------------------------------
\* Every variable keeps the shape the code gives it, and an id that is held, or
\* that a create is about to insert, was issued with exactly that entry.
TypeOK ==
    /\ now \in Nat
    /\ uploads \in [Id -> Upload \cup {None}]
    /\ open \in BOOLEAN
    /\ call \in [Worker -> Call]
    /\ born \in [Id -> Upload \cup {None}]
    /\ withdrawn \subseteq Owner \X Id
    /\ \A w \in Worker : call[w].op # "idle" => call[w].id \in Id /\ call[w].owner \in Owner

\* Nobody but the owner ever learns that an entry exists: not from a get, not
\* from the 410 of an expired one, not from a delete (upload_store.py:66-82).
Isolation ==
    \A w \in Worker :
        call[w].answer \in {"found", "expired", "deleted"} =>
            born[call[w].id] # None /\ born[call[w].id].owner = call[w].owner

\* A get that finds was begun before the deadline, and one that answers 410 at or
\* after it, however long the thread waited for the lock (upload_store.py:67-75).
NeverStale ==
    \A w \in Worker :
        /\ call[w].op = "get" /\ call[w].answer = "found" =>
              call[w].at < born[call[w].id].expires_at
        /\ call[w].answer = "expired" => born[call[w].id].expires_at <= call[w].at

\* The create of this id has not reached the lock yet.
BeingCreated(i) == \E w \in Worker : Pending(w, "create") /\ call[w].id = i

\* Sweeps run with clock readings of any age, by any thread, yet an upload its
\* owner did not delete is there until its deadline has really passed.
LossJustified ==
    \A i \in Id :
        born[i] # None /\ uploads[i] = None =>
            \/ BeingCreated(i)
            \/ <<born[i].owner, i>> \in withdrawn
            \/ born[i].expires_at <= now
            \/ ~open

\* What makes the three invariants above inductive: the dict holds what was
\* issued, clock readings lie in the past, and a create in flight has an id that
\* is issued to its caller, not held yet and in no other thread's hands.
Linked ==
    /\ \A i \in Id : uploads[i] # None => uploads[i] = born[i]
    /\ \A w \in Worker : call[w].at <= now
    /\ \A w \in Worker :
          Pending(w, "create") =>
              /\ born[call[w].id] # None
              /\ born[call[w].id].owner = call[w].owner
              /\ uploads[call[w].id] = None
    /\ \A v, w \in Worker :
          Pending(v, "create") /\ Pending(w, "create") /\ call[v].id = call[w].id => v = w

\* Nothing stays in memory for ever, whether or not anybody asks for it again
\* (main.py:30-38, upload_store.py:84-86).
EventuallyRemoved == \A i \in Id : uploads[i] # None ~> uploads[i] = None

\* The threaded store keeps the promise of ScopedStore.
Phase(i) ==
    IF uploads[i] # None THEN "held"
    ELSE IF born[i] = None THEN "unknown"
    ELSE IF BeingCreated(i) THEN "issued"
    ELSE "gone"

Shown == {<<call[w].owner, call[w].id>> : w \in {v \in Worker : call[v].answer = "found"}}

Promise == INSTANCE ScopedStore
             WITH clock <- now, entry <- born, phase <- [i \in Id |-> Phase(i)],
                  shown <- Shown, up <- open

\* Every behaviour of the threads is one of atomic admissions, showings and removals.
KeepsPromise == Promise!Spec
=============================================================================
