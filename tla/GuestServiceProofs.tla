------------------------- MODULE GuestServiceProofs -------------------------
(***************************************************************************)
(* GuestService, proved for any number of browsers, sessions, requests in  *)
(* flight, uploads and analyses, and any lifetimes.                        *)
(***************************************************************************)
EXTENDS GuestService, SequenceTheorems, TLAPS

\* The steps of Next, one disjunct per step of the service.
LEMMA Steps ==
    ASSUME [Next]_vars
    PROVE  \/ Tick
           \/ \E r \in Req, b \in Browser, kind \in Kinds : \E x \in Targets(kind) :
                 Arrive(r, b, kind, x)
           \/ \E r \in Req : AdmitUpload(r)
           \/ \E r \in Req : DenyUpload(r)
           \/ \E r \in Req : Reject(r)
           \/ \E r \in Req : Crash(r)
           \/ \E r \in Req : StoreUpload(r)
           \/ \E r \in Req : LoadUpload(r)
           \/ \E r \in Req : StoreAnalysis(r)
           \/ \E r \in Req : ViewAnalysis(r)
           \/ \E r \in Req : CheckAnalysis(r)
           \/ \E r \in Req : DropAnalysis(r)
           \/ \E r \in Req : DropUpload(r)
           \/ \E r \in Req : Respond(r)
           \/ \E r \in Req : LoseResponse(r)
           \/ Sweep
           \/ SweepLimiter
           \/ Restart
           \/ UNCHANGED vars
BY DEF Next, Handle, Cleanup

-----------------------------------------------------------------------------
Entries == [owner : Sid, expires_at : Nat]

\* The part of TypeOK that is not the limiter's.
Shape ==
    /\ now \in 0 .. Horizon + Drain
    /\ guests \in [Sid -> Nat \cup {None}]
    /\ uploads \in [Uid -> Entries \cup {None}]
    /\ analyses \in [Aid -> Entries \cup {None}]
    /\ cookie \in [Browser -> Sid \cup {None}]
    /\ req \in [Req -> Request]
    /\ sweep \in {"asleep", "limiter"}
    /\ issued \subseteq Sid
    /\ maker \in [Uid \cup Aid -> Browser \cup {None}]
    /\ origin \in [Aid -> Uid \cup {None}]

\* A request goes on: only its phase and its status change.
Moved(r, phase, status) ==
    /\ \A q \in Req \ {r} : req'[q] = req[q]
    /\ req'[r].kind = req[r].kind /\ req'[r].browser = req[r].browser
    /\ req'[r].scope = req[r].scope /\ req'[r].target = req[r].target
    /\ req'[r].phase = phase /\ req'[r].status = status

\* A request that moves on is the only one that does.
LEMMA MoveMoves ==
    ASSUME Shape, NEW r \in Req, NEW phase \in Phases, NEW status \in Statuses,
           Move(r, phase, status)
    PROVE  req' \in [Req -> Request] /\ Moved(r, phase, status)
BY DEF Shape, Request, Move, Moved

\* A purge, or the look-up of an entry, only forgets.
Shrinks(new, old, S) == \A x \in S : new[x] = None \/ new[x] = old[x]

\* Purging what has expired only shrinks a store.
LEMMA PurgeShrinks ==
    ASSUME NEW S, NEW st \in [S -> Entries \cup {None}]
    PROVE  /\ RemoveExpired(st) \in [S -> Entries \cup {None}]
           /\ Shrinks(RemoveExpired(st), st, S)
BY DEF RemoveExpired, Shrinks

\* A lookup, which purges first, only shrinks a store.
LEMMA GetShrinks ==
    ASSUME NEW S, NEW st \in [S -> Entries \cup {None}], NEW o, NEW x \in S
    PROVE  /\ AfterGet(st, o, x) \in [S -> Entries \cup {None}]
           /\ Shrinks(AfterGet(st, o, x), st, S)
           /\ GetStatus(st, o, x) \in {"200", "404", "410"}
           /\ GetStatus(st, o, x) # "404" => Owns(st, o, x)
BY DEF AfterGet, Shrinks, GetStatus

\* An id fresh for a store names nothing stored and was never made.
LEMMA FreshIdIsNew ==
    ASSUME NEW S, NEW used, S \ used # {}
    PROVE  FreshId(S, used) \in S /\ FreshId(S, used) \notin used
BY DEF FreshId

\* A new entry has the shape of one, and lives for its lifetime.
LEMMA EntryIsEntry ==
    ASSUME Shape, NEW o \in Sid, NEW ttl \in Nat
    PROVE  Entry(o, ttl) \in Entries /\ Entry(o, ttl).owner = o /\ Entry(o, ttl) # None
BY BoundAssumption, NoneAssumption DEF Shape, Entry, Entries

\* Recalling a session leaves the table of sessions one.
LEMMA LiveGuestsShape ==
    ASSUME Shape PROVE LiveGuests \in [Sid -> Nat \cup {None}]
BY DEF Shape, LiveGuests

\* What a step may do without giving anybody anything new: forget entries, end a
\* request, move one on; and answer a request only about what its scope owns, or
\* about nothing, or about the upload it has loaded.
Telling == {"200", "204", "400", "410", "500"}

Harmless ==
    /\ UNCHANGED <<issued, maker, origin>>
    /\ \A b \in Browser :
          \/ cookie'[b] = cookie[b]
          \/ \E r \in Req : /\ req[r].phase # "idle" /\ req[r].browser = b
                            /\ req[r].scope = cookie'[b]
    /\ Shrinks(uploads', uploads, Uid) /\ Shrinks(analyses', analyses, Aid)
    /\ \A q \in Req : req'[q].phase # "idle" =>
          /\ req[q].phase # "idle"
          /\ req'[q].kind = req[q].kind /\ req'[q].browser = req[q].browser
          /\ req'[q].scope = req[q].scope /\ req'[q].target = req[q].target
          /\ req[q].phase = "done" => req'[q].phase = "done"
          /\ req'[q].kind = "analyze" /\ req'[q].phase = "loaded" =>
                req[q].phase = "loaded" \/ Owns(uploads, req[q].scope, req[q].target)
          /\ req'[q].phase = "done" /\ req'[q].status \in Telling =>
                \/ req[q].phase = "done" /\ req'[q].status = req[q].status
                \/ req[q].target = None \/ At(q, "analyze", "loaded")
                \/ req[q].target \in Uid /\ Owns(uploads, req[q].scope, req[q].target)
                \/ req[q].target \in Aid /\ Owns(analyses, req[q].scope, req[q].target)

\* A request that only moves on is harmless, if it tells only what is owned.
LEMMA MovedIsHarmless ==
    ASSUME Shape, NEW r \in Req, NEW phase \in Phases \ {"idle"}, NEW status \in Statuses,
           Moved(r, phase, status), req[r].phase \notin {"idle", "done"},
           UNCHANGED <<cookie, issued, maker, origin>>,
           Shrinks(uploads', uploads, Uid), Shrinks(analyses', analyses, Aid),
           req[r].kind = "analyze" /\ phase = "loaded" => Owns(uploads, req[r].scope, req[r].target),
           phase = "done" /\ status \in Telling =>
                \/ req[r].target = None \/ At(r, "analyze", "loaded")
                \/ req[r].target \in Uid /\ Owns(uploads, req[r].scope, req[r].target)
                \/ req[r].target \in Aid /\ Owns(analyses, req[r].scope, req[r].target)
    PROVE  Harmless
<1>1. ASSUME NEW q \in Req, q # r PROVE req'[q] = req[q]
  BY <1>1 DEF Moved
<1> QED BY <1>1 DEF Moved, Harmless

\* A store that stays as it is only shrinks.
LEMMA UnchangedShrinks ==
    /\ uploads' = uploads => Shrinks(uploads', uploads, Uid)
    /\ analyses' = analyses => Shrinks(analyses', analyses, Aid)
BY DEF Shrinks

\* An attempt is counted.
LEMMA AdmitUploadStep ==
    ASSUME Shape, Linked, NEW r \in Req, AdmitUpload(r)
    PROVE  Shape' /\ Harmless
<1>1. Move(r, "admitted", "none") /\ req[r].phase \notin {"idle", "done"}
  BY DEF AdmitUpload, At, Done
<1>2. req' \in [Req -> Request] /\ Moved(r, "admitted", "none")
  BY <1>1, MoveMoves DEF Phases, Statuses
<1>3. UNCHANGED <<now, guests, uploads, analyses, cookie, sweep, history>>
  BY DEF AdmitUpload, Limiter!Admit
<1>4. Shape'
  BY <1>2, <1>3 DEF Shape, history
<1>5. Harmless
  BY <1>1, <1>2, <1>3, UnchangedShrinks, MovedIsHarmless DEF Phases, Statuses, Telling, history
<1> QED BY <1>4, <1>5
\* An attempt is refused.
LEMMA DenyUploadStep ==
    ASSUME Shape, Linked, NEW r \in Req, DenyUpload(r)
    PROVE  Shape' /\ Harmless
<1>1. Move(r, "done", "429") /\ req[r].phase \notin {"idle", "done"}
  BY DEF DenyUpload, At, Done
<1>2. req' \in [Req -> Request] /\ Moved(r, "done", "429")
  BY <1>1, MoveMoves DEF Phases, Statuses
<1>3. UNCHANGED <<now, guests, uploads, analyses, cookie, sweep, history>>
  BY DEF DenyUpload, Limiter!Deny
<1>4. Shape'
  BY <1>2, <1>3 DEF Shape, history
<1>5. Harmless
  BY <1>1, <1>2, <1>3, UnchangedShrinks, MovedIsHarmless DEF Phases, Statuses, Telling, history
<1> QED BY <1>4, <1>5
\* A request that ends before anything is stored: for what it contains, or because
\* the reading of a file or the pipeline fails.
LEMMA EndedEarly ==
    ASSUME Shape, Linked, NEW r \in Req, Reject(r) \/ Crash(r)
    PROVE  Shape' /\ Harmless
<1>1. PICK status \in {"400", "500"} : Move(r, "done", status)
  BY DEF Reject, Crash, Done
<1>2. /\ At(r, "upload", "admitted") \/ At(r, "analyze", "loaded")
      /\ UNCHANGED <<now, guests, uploads, analyses, cookie, sweep, history>>
  BY DEF Reject, Crash
<1>3. req' \in [Req -> Request] /\ Moved(r, "done", status)
  BY <1>1, MoveMoves DEF Phases, Statuses
<1>4. Shape'
  BY <1>2, <1>3 DEF Shape, history
<1>5. req[r].phase \notin {"idle", "done"} /\ (req[r].target = None \/ At(r, "analyze", "loaded"))
  BY <1>2 DEF At, Linked
<1>6. Harmless
  BY <1>2, <1>3, <1>5, UnchangedShrinks, MovedIsHarmless DEF Phases, Statuses, history
<1> QED BY <1>4, <1>6
\* An upload is looked up for an analysis.
LEMMA LoadUploadStep ==
    ASSUME Shape, Linked, NEW r \in Req, LoadUpload(r)
    PROVE  Shape' /\ Harmless
<1> DEFINE status == GetStatus(uploads, req[r].scope, req[r].target)
           phase == IF status = "200" THEN "loaded" ELSE "done"
           shown == IF status = "200" THEN "none" ELSE status
<1>1. req[r].kind = "analyze" /\ req[r].phase = "resolved" /\ req[r].target \in Uid
  BY DEF LoadUpload, At, Linked
<1>2. /\ uploads' \in [Uid -> Entries \cup {None}]
      /\ Shrinks(uploads', uploads, Uid)
      /\ status \in {"200", "404", "410"}
      /\ status # "404" => Owns(uploads, req[r].scope, req[r].target)
  BY <1>1, GetShrinks DEF LoadUpload, Shape
<1>3. Move(r, phase, shown)
  BY DEF LoadUpload, Done
<1> HIDE DEF status
<1>4. phase \in Phases \ {"idle"} /\ shown \in Statuses
  BY <1>2 DEF Phases, Statuses
<1>5. req' \in [Req -> Request] /\ Moved(r, phase, shown)
  BY <1>3, <1>4, MoveMoves
<1>6. UNCHANGED <<now, guests, analyses, cookie, sweep, history>>
  BY DEF LoadUpload
<1>7. Shape'
  BY <1>2, <1>5, <1>6 DEF Shape, history
<1>8. Harmless
  <2>1. phase = "loaded" => Owns(uploads, req[r].scope, req[r].target)
    BY <1>2
  <2>2. phase = "done" /\ shown \in Telling => Owns(uploads, req[r].scope, req[r].target)
    BY <1>2 DEF Telling
  <2> QED BY <1>1, <1>2, <1>4, <1>5, <1>6, <2>1, <2>2, UnchangedShrinks, MovedIsHarmless DEF history
<1> QED BY <1>7, <1>8
\* A dashboard, a report or a download is answered.
LEMMA ViewAnalysisStep ==
    ASSUME Shape, Linked, NEW r \in Req, ViewAnalysis(r)
    PROVE  Shape' /\ Harmless
<1> DEFINE status == GetStatus(analyses, req[r].scope, req[r].target)
<1>1. req[r].phase = "resolved" /\ req[r].target \in Aid
  BY DEF ViewAnalysis, At, Linked
<1>2. /\ analyses' \in [Aid -> Entries \cup {None}]
      /\ Shrinks(analyses', analyses, Aid)
      /\ status \in {"200", "404", "410"}
      /\ status # "404" => Owns(analyses, req[r].scope, req[r].target)
  BY <1>1, GetShrinks DEF ViewAnalysis, Shape
<1>3. PICK answer \in IF status = "200" THEN {"200", "400", "500"} ELSE {status} :
         Move(r, "done", answer)
  BY DEF ViewAnalysis, Done
<1> HIDE DEF status
<1>4. "done" \in Phases \ {"idle"} /\ answer \in Statuses
  BY <1>2 DEF Phases, Statuses
<1>5. req' \in [Req -> Request] /\ Moved(r, "done", answer)
  BY <1>3, <1>4, MoveMoves
<1>6. UNCHANGED <<now, guests, uploads, cookie, sweep, history>>
  BY DEF ViewAnalysis
<1>7. Shape'
  BY <1>2, <1>5, <1>6 DEF Shape, history
<1>8. Harmless
  <2>1. answer \in Telling => Owns(analyses, req[r].scope, req[r].target)
    BY <1>2 DEF Telling
  <2> QED BY <1>1, <1>2, <1>4, <1>5, <1>6, <2>1, UnchangedShrinks, MovedIsHarmless DEF history
<1> QED BY <1>7, <1>8
\* A deletion looks whether the analysis is there.
LEMMA CheckAnalysisStep ==
    ASSUME Shape, Linked, NEW r \in Req, CheckAnalysis(r)
    PROVE  Shape' /\ Harmless
<1> DEFINE status == GetStatus(analyses, req[r].scope, req[r].target)
           phase == IF status = "200" THEN "checked" ELSE "done"
           shown == IF status = "200" THEN "none" ELSE IF status = "404" THEN "404" ELSE "500"
<1>1. req[r].kind = "dropAnalysis" /\ req[r].phase = "resolved" /\ req[r].target \in Aid
  BY DEF CheckAnalysis, At, Linked
<1>2. /\ analyses' \in [Aid -> Entries \cup {None}]
      /\ Shrinks(analyses', analyses, Aid)
      /\ status \in {"200", "404", "410"}
      /\ status # "404" => Owns(analyses, req[r].scope, req[r].target)
  BY <1>1, GetShrinks DEF CheckAnalysis, Shape
<1>3. Move(r, phase, shown)
  <2>1. CASE status = "200"
    BY <2>1 DEF CheckAnalysis
  <2>2. CASE status = "404"
    BY <2>2 DEF CheckAnalysis, Done
  <2>3. CASE status = "410"
    BY <2>3 DEF CheckAnalysis, Done
  <2> QED BY <1>2, <2>1, <2>2, <2>3
<1> HIDE DEF status
<1>4. phase \in Phases \ {"idle"} /\ shown \in Statuses
  BY <1>2 DEF Phases, Statuses
<1>5. req' \in [Req -> Request] /\ Moved(r, phase, shown)
  BY <1>3, <1>4, MoveMoves
<1>6. UNCHANGED <<now, guests, uploads, cookie, sweep, history>>
  BY DEF CheckAnalysis
<1>7. Shape'
  BY <1>2, <1>5, <1>6 DEF Shape, history
<1>8. Harmless
  <2>1. phase = "done" /\ shown \in Telling => Owns(analyses, req[r].scope, req[r].target)
    BY <1>2 DEF Telling
  <2> QED BY <1>1, <1>2, <1>4, <1>5, <1>6, <2>1, UnchangedShrinks, MovedIsHarmless DEF history
<1> QED BY <1>7, <1>8
\* An analysis is deleted.
LEMMA DropAnalysisStep ==
    ASSUME Shape, Linked, NEW r \in Req, DropAnalysis(r)
    PROVE  Shape' /\ Harmless
<1> DEFINE owns == Owns(analyses, req[r].scope, req[r].target)
           shown == IF owns THEN "204" ELSE "404"
<1>1. req[r].phase \notin {"idle", "done"} /\ req[r].target \in Aid
  BY DEF DropAnalysis, At, Linked
<1>2. /\ analyses' \in [Aid -> Entries \cup {None}]
      /\ Shrinks(analyses', analyses, Aid)
  BY DEF DropAnalysis, Shape, Shrinks
<1>3. Move(r, "done", shown)
  BY DEF DropAnalysis, Done
<1>4. "done" \in Phases \ {"idle"} /\ shown \in Statuses
  BY DEF Phases, Statuses
<1>5. req' \in [Req -> Request] /\ Moved(r, "done", shown)
  BY <1>3, <1>4, MoveMoves
<1>6. UNCHANGED <<now, guests, uploads, cookie, sweep, history>>
  BY DEF DropAnalysis
<1>7. Shape'
  BY <1>2, <1>5, <1>6 DEF Shape, history
<1>8. Harmless
  <2>1. shown \in Telling => Owns(analyses, req[r].scope, req[r].target)
    BY DEF Telling
  <2> QED BY <1>1, <1>2, <1>4, <1>5, <1>6, <2>1, UnchangedShrinks, MovedIsHarmless DEF history
<1> QED BY <1>7, <1>8
\* An upload is deleted.
LEMMA DropUploadStep ==
    ASSUME Shape, Linked, NEW r \in Req, DropUpload(r)
    PROVE  Shape' /\ Harmless
<1> DEFINE owns == Owns(uploads, req[r].scope, req[r].target)
           shown == IF owns THEN "204" ELSE "404"
<1>1. req[r].phase \notin {"idle", "done"} /\ req[r].target \in Uid
  BY DEF DropUpload, At, Linked
<1>2. /\ uploads' \in [Uid -> Entries \cup {None}]
      /\ Shrinks(uploads', uploads, Uid)
  BY DEF DropUpload, Shape, Shrinks
<1>3. Move(r, "done", shown)
  BY DEF DropUpload, Done
<1>4. "done" \in Phases \ {"idle"} /\ shown \in Statuses
  BY DEF Phases, Statuses
<1>5. req' \in [Req -> Request] /\ Moved(r, "done", shown)
  BY <1>3, <1>4, MoveMoves
<1>6. UNCHANGED <<now, guests, analyses, cookie, sweep, history>>
  BY DEF DropUpload
<1>7. Shape'
  BY <1>2, <1>5, <1>6 DEF Shape, history
<1>8. Harmless
  <2>1. shown \in Telling => Owns(uploads, req[r].scope, req[r].target)
    BY DEF Telling
  <2> QED BY <1>1, <1>2, <1>4, <1>5, <1>6, <2>1, UnchangedShrinks, MovedIsHarmless DEF history
<1> QED BY <1>7, <1>8
\* Steps that end requests, pass time or purge.
LEMMA OtherSteps ==
    ASSUME Shape, Linked,
           \/ Tick \/ Sweep \/ SweepLimiter \/ Restart \/ UNCHANGED vars
           \/ \E r \in Req : LoseResponse(r)
    PROVE  Shape' /\ Harmless
<1> USE DEF Shape
<1>1. /\ RemoveExpired(uploads) \in [Uid -> Entries \cup {None}]
      /\ Shrinks(RemoveExpired(uploads), uploads, Uid)
      /\ RemoveExpired(analyses) \in [Aid -> Entries \cup {None}]
      /\ Shrinks(RemoveExpired(analyses), analyses, Aid)
  BY PurgeShrinks
<1>2. Idle \in Request /\ Idle.phase = "idle"
  BY DEF Idle, Request, Phases, Statuses
<1>3. CASE Tick
  <2>1. UNCHANGED <<guests, uploads, analyses, cookie, req, sweep, history>>
    BY <1>3 DEF Tick
  <2>2. now' \in 0 .. Horizon + Drain
    BY <1>3, BoundAssumption DEF Tick
  <2> QED BY <2>1, <2>2, UnchangedShrinks DEF history, Harmless
<1>4. CASE Sweep
  <2>1. LiveGuests \in [Sid -> Nat \cup {None}]
    BY LiveGuestsShape
  <2> QED BY <1>1, <1>4, <2>1 DEF Sweep, history, Harmless, Limiter!DropOwners
<1>5. CASE SweepLimiter
  BY <1>5, UnchangedShrinks DEF SweepLimiter, history, Harmless, Limiter!CleanupExpired
<1>6. CASE Restart
  BY <1>2, <1>6 DEF Restart, history, Harmless, Shrinks
<1>7. CASE UNCHANGED vars
  BY <1>7, UnchangedShrinks DEF vars, history, Harmless
<1>8. ASSUME NEW r \in Req, LoseResponse(r) PROVE Shape' /\ Harmless
  BY <1>2, <1>8, UnchangedShrinks DEF LoseResponse, history, Harmless
<1> QED BY <1>3, <1>4, <1>5, <1>6, <1>7, <1>8

\* A response that brings a cookie brings the scope of its request.
LEMMA RespondStep ==
    ASSUME Shape, Linked, NEW r \in Req, Respond(r)
    PROVE  Shape' /\ Harmless
<1>1. Idle \in Request /\ Idle.phase = "idle"
  BY DEF Idle, Request, Phases, Statuses
<1>2. /\ req[r].phase # "idle" /\ req[r].browser \in Browser /\ req[r].scope \in Sid
      /\ req' = [req EXCEPT ![r] = Idle]
  BY DEF Respond, Linked
<1>3. cookie' = cookie \/ cookie' = [cookie EXCEPT ![req[r].browser] = req[r].scope]
  BY DEF Respond
<1>4. UNCHANGED <<now, guests, uploads, analyses, sweep, history>>
  BY DEF Respond
<1>5. Shape'
  BY <1>1, <1>2, <1>3, <1>4 DEF Shape, history
<1>6. \A b \in Browser : \/ cookie'[b] = cookie[b]
                         \/ b = req[r].browser /\ cookie'[b] = req[r].scope
  BY <1>3, <1>2 DEF Shape
<1>7. \A q \in Req : req'[q].phase # "idle" => req'[q] = req[q]
  BY <1>1, <1>2 DEF Shape
<1>8. Harmless
  BY <1>2, <1>4, <1>6, <1>7, UnchangedShrinks DEF Harmless, history
<1> QED BY <1>5, <1>8

-----------------------------------------------------------------------------
\* Under a harmless step, a scope is used by whoever used it before.
LEMMA HarmlessUses ==
    ASSUME Harmless, NEW s \in Sid, NEW b \in Browser, UsedBy(s, b)'
    PROVE  UsedBy(s, b)
<1>1. CASE cookie'[b] = s
  BY <1>1 DEF Harmless, UsedBy
<1>2. ASSUME NEW r \in Req, req'[r].phase # "idle", req'[r].scope = s, req'[r].browser = b
      PROVE  UsedBy(s, b)
  BY <1>2 DEF Harmless, UsedBy
<1>3. ASSUME NEW u \in Uid, uploads'[u] # None, uploads'[u].owner = s, maker'[u] = b
      PROVE  UsedBy(s, b)
  BY <1>3 DEF Harmless, UsedBy, Shrinks
<1>4. ASSUME NEW a \in Aid, analyses'[a] # None, analyses'[a].owner = s, maker'[a] = b
      PROVE  UsedBy(s, b)
  BY <1>4 DEF Harmless, UsedBy, Shrinks
<1> QED BY <1>1, <1>2, <1>3, <1>4 DEF UsedBy

\* If scopes are used by whom they were used by, they keep their browser.
LEMMA UsesKeepBrowser ==
    ASSUME OneBrowserPerScope, issued' = issued,
           \A s \in Sid, b \in Browser : UsedBy(s, b)' => UsedBy(s, b)
    PROVE  OneBrowserPerScope'
BY DEF OneBrowserPerScope

\* What a scope owns was made by the browser of its requests.
LEMMA OwnersMadeIt ==
    ASSUME Shape, Linked, OneBrowserPerScope, NEW r \in Req, req[r].phase # "idle"
    PROVE  /\ \A u \in Uid : Owns(uploads, req[r].scope, u) => maker[u] = req[r].browser
           /\ \A a \in Aid : Owns(analyses, req[r].scope, a) => maker[a] = req[r].browser
<1>1. req[r].browser \in Browser /\ req[r].scope \in Sid
  BY DEF Linked
<1>2. UsedBy(req[r].scope, req[r].browser)
  BY DEF UsedBy
<1>3. ASSUME NEW u \in Uid, Owns(uploads, req[r].scope, u) PROVE maker[u] = req[r].browser
  <2>1. maker[u] \in Browser /\ UsedBy(req[r].scope, maker[u])
    BY <1>3 DEF Owns, UsedBy, Linked, Made, Shape
  <2> QED BY <1>1, <1>2, <2>1 DEF OneBrowserPerScope
<1>4. ASSUME NEW a \in Aid, Owns(analyses, req[r].scope, a) PROVE maker[a] = req[r].browser
  <2>1. maker[a] \in Browser /\ UsedBy(req[r].scope, maker[a])
    BY <1>4 DEF Owns, UsedBy, Linked, Made, Shape
  <2> QED BY <1>1, <1>2, <2>1 DEF OneBrowserPerScope
<1> QED BY <1>3, <1>4

\* A harmless step leaves every id linked to the request that made it.
LEMMA HarmlessLinked ==
    ASSUME Shape, Linked, OneBrowserPerScope, Harmless
    PROVE  Linked'
<1>1. Made' = Made
  BY DEF Made, Harmless
<1>2. /\ \A u \in Uid : uploads'[u] # None => u \in Made'
      /\ \A a \in Aid : analyses'[a] # None => a \in Made'
      /\ \A a \in Aid : origin'[a] # None => origin'[a] \in Made'
  BY <1>1 DEF Harmless, Linked, Shrinks
<1>3. ASSUME NEW q \in Req, req'[q].phase # "idle"
      PROVE  /\ req'[q].browser \in Browser /\ req'[q].scope \in Sid
             /\ req'[q].target # None => req'[q].target \in Made'
             /\ req'[q].kind \in {"analyze", "dropUpload"} /\ req'[q].phase # "done" =>
                   req'[q].target \in Uid
             /\ req'[q].kind \in {"view", "dropAnalysis"} => req'[q].target \in Aid
             /\ req'[q].kind = "upload" /\ req'[q].phase # "done" => req'[q].target = None
             /\ At(q, "analyze", "loaded")' => maker'[req'[q].target] = req'[q].browser
             /\ At(q, "analyze", "loaded")' /\ uploads'[req'[q].target] # None =>
                   uploads'[req'[q].target].owner = req'[q].scope
  <2>1. /\ req[q].phase # "idle"
        /\ req'[q].kind = req[q].kind /\ req'[q].browser = req[q].browser
        /\ req'[q].scope = req[q].scope /\ req'[q].target = req[q].target
        /\ req[q].phase = "done" => req'[q].phase = "done"
        /\ req'[q].kind = "analyze" /\ req'[q].phase = "loaded" =>
                req[q].phase = "loaded" \/ Owns(uploads, req[q].scope, req[q].target)
    BY <1>3 DEF Harmless
  <2>2. /\ req[q].browser \in Browser /\ req[q].scope \in Sid
        /\ req[q].target # None => req[q].target \in Made
        /\ req[q].kind \in {"analyze", "dropUpload"} /\ req[q].phase # "done" =>
              req[q].target \in Uid
        /\ req[q].kind \in {"view", "dropAnalysis"} => req[q].target \in Aid
        /\ req[q].kind = "upload" /\ req[q].phase # "done" => req[q].target = None
        /\ At(q, "analyze", "loaded") => maker[req[q].target] = req[q].browser
        /\ req[q].kind = "analyze" /\ req[q].phase = "loaded"
              /\ uploads[req[q].target] # None =>
                 uploads[req[q].target].owner = req[q].scope
    BY <2>1 DEF Linked, At
  <2>3. ASSUME req'[q].kind = "analyze", req'[q].phase = "loaded",
               uploads'[req'[q].target] # None
        PROVE  uploads'[req'[q].target].owner = req'[q].scope
    <3>1. req[q].target \in Uid
      BY <2>1, <2>2, <2>3
    <3>2. uploads'[req[q].target] = uploads[req[q].target]
      BY <2>1, <2>3, <3>1 DEF Harmless, Shrinks
    <3>3. CASE req[q].phase = "loaded"
      BY <2>1, <2>2, <2>3, <3>2, <3>3
    <3>4. CASE Owns(uploads, req[q].scope, req[q].target)
      BY <2>1, <3>2, <3>4 DEF Owns
    <3> QED BY <2>1, <2>3, <3>3, <3>4
  <2>4. ASSUME req'[q].kind = "analyze", req'[q].phase = "loaded"
        PROVE  maker'[req'[q].target] = req'[q].browser
    <3>1. req[q].target \in Uid /\ maker' = maker
      BY <2>1, <2>2, <2>4 DEF Harmless
    <3>2. CASE req[q].phase = "loaded"
      BY <2>1, <2>2, <2>4, <3>1, <3>2 DEF At
    <3>3. CASE Owns(uploads, req[q].scope, req[q].target)
      BY <2>1, <3>1, <3>3, OwnersMadeIt
    <3> QED BY <2>1, <2>4, <3>2, <3>3
  <2> QED BY <1>1, <2>1, <2>2, <2>3, <2>4 DEF At
<1> QED BY <1>2, <1>3 DEF Linked

\* A harmless step tells a browser only of what is its own.
LEMMA HarmlessIsolation ==
    ASSUME Shape, Linked, OneBrowserPerScope, Isolation, Harmless
    PROVE  Isolation'
<1> SUFFICES ASSUME NEW q \in Req, req'[q].phase = "done", req'[q].target # None,
                    req'[q].status \in Telling
             PROVE  maker'[req'[q].target] = req'[q].browser
  BY DEF Isolation, Telling
<1>1. /\ req[q].phase # "idle"
      /\ req'[q].browser = req[q].browser /\ req'[q].target = req[q].target
      /\ maker' = maker
      /\ \/ req[q].phase = "done" /\ req'[q].status = req[q].status
         \/ req[q].target = None \/ At(q, "analyze", "loaded")
         \/ req[q].target \in Uid /\ Owns(uploads, req[q].scope, req[q].target)
         \/ req[q].target \in Aid /\ Owns(analyses, req[q].scope, req[q].target)
  BY DEF Harmless
<1>2. CASE req[q].phase = "done" /\ req'[q].status = req[q].status
  BY <1>1, <1>2 DEF Isolation, Telling
<1>3. CASE req[q].target \in Uid /\ Owns(uploads, req[q].scope, req[q].target)
  BY <1>1, <1>3, OwnersMadeIt
<1>4. CASE req[q].target \in Aid /\ Owns(analyses, req[q].scope, req[q].target)
  BY <1>1, <1>4, OwnersMadeIt
<1>5. CASE At(q, "analyze", "loaded")
  BY <1>1, <1>5 DEF Linked
<1> QED BY <1>1, <1>2, <1>3, <1>4, <1>5

\* A harmless step leaves analyses with the scope of their uploads.
LEMMA HarmlessFollows ==
    ASSUME AnalysisFollowsUpload, Harmless
    PROVE  AnalysisFollowsUpload'
BY DEF AnalysisFollowsUpload, Harmless, Shrinks

-----------------------------------------------------------------------------
\* The inductive invariant, the limiter's part of TypeOK aside.
IInv == Shape /\ Linked /\ OneBrowserPerScope /\ Isolation /\ AnalysisFollowsUpload

\* A harmless step keeps the invariant.
LEMMA HarmlessIInv == ASSUME IInv, Shape', Harmless PROVE IInv'
<1>1. OneBrowserPerScope'
  BY HarmlessUses, UsesKeepBrowser DEF IInv, Harmless
<1> QED BY <1>1, HarmlessLinked, HarmlessIsolation, HarmlessFollows DEF IInv

\* A new upload is in the hands of the browser that sent it.
LEMMA StoreUploadStep ==
    ASSUME IInv, NEW r \in Req, StoreUpload(r)
    PROVE  IInv'
<1> USE DEF IInv
<1> DEFINE u == FreshId(Uid, Made)
           e == Entry(req[r].scope, UploadTTL)
           b == req[r].browser
<1>1. u \in Uid /\ u \notin Made
  BY FreshIdIsNew DEF StoreUpload
<1>2. b \in Browser /\ req[r].scope \in Sid /\ req[r].phase = "admitted" /\ req[r].kind = "upload"
  BY DEF StoreUpload, At, Linked
<1>3. e \in Entries /\ e.owner = req[r].scope /\ e # None
  BY <1>2, TTLAssumption, EntryIsEntry
<1>4. RemoveExpired(uploads) \in [Uid -> Entries \cup {None}]
      /\ Shrinks(RemoveExpired(uploads), uploads, Uid)
  BY PurgeShrinks DEF Shape
<1>5. /\ uploads' = [RemoveExpired(uploads) EXCEPT ![u] = e]
      /\ maker' = [maker EXCEPT ![u] = b]
      /\ req' = [req EXCEPT ![r].target = u, ![r].phase = "done", ![r].status = "200"]
      /\ UNCHANGED <<now, guests, analyses, cookie, sweep, issued, origin>>
  BY DEF StoreUpload
<1> HIDE DEF u, e
<1>6. /\ uploads' \in [Uid -> Entries \cup {None}] /\ uploads'[u] = e
      /\ \A v \in Uid \ {u} : uploads'[v] = None \/ uploads'[v] = uploads[v]
  BY <1>1, <1>3, <1>4, <1>5 DEF Shrinks
<1>7. /\ maker' \in [Uid \cup Aid -> Browser \cup {None}] /\ maker'[u] = b
      /\ \A x \in (Uid \cup Aid) \ {u} : maker'[x] = maker[x]
      /\ Made' = Made \cup {u}
  BY <1>1, <1>2, <1>5, NoneAssumption DEF Shape, Made
<1>8. /\ req' \in [Req -> Request]
      /\ \A q \in Req \ {r} : req'[q] = req[q]
      /\ req'[r].kind = "upload" /\ req'[r].browser = b /\ req'[r].scope = req[r].scope
      /\ req'[r].target = u /\ req'[r].phase = "done" /\ req'[r].status = "200"
  BY <1>1, <1>2, <1>5 DEF Shape, Request, Phases, Statuses
<1>9. Shape'
  BY <1>5, <1>6, <1>7, <1>8 DEF Shape
<1>10. Linked'
  <2>1. /\ \A v \in Uid : uploads'[v] # None => v \in Made'
        /\ \A a \in Aid : analyses'[a] # None => a \in Made'
        /\ \A a \in Aid : origin'[a] # None => origin'[a] \in Made'
    BY <1>5, <1>6, <1>7 DEF Linked
  <2>2. ASSUME NEW q \in Req, req'[q].phase # "idle"
        PROVE  /\ req'[q].browser \in Browser /\ req'[q].scope \in Sid
               /\ req'[q].target # None => req'[q].target \in Made'
               /\ req'[q].kind \in {"analyze", "dropUpload"} /\ req'[q].phase # "done" =>
                     req'[q].target \in Uid
               /\ req'[q].kind \in {"view", "dropAnalysis"} => req'[q].target \in Aid
               /\ req'[q].kind = "upload" /\ req'[q].phase # "done" => req'[q].target = None
               /\ At(q, "analyze", "loaded")' => maker'[req'[q].target] = req'[q].browser
               /\ At(q, "analyze", "loaded")' /\ uploads'[req'[q].target] # None =>
                     uploads'[req'[q].target].owner = req'[q].scope
    <3>1. CASE q = r
      BY <1>2, <1>7, <1>8, <3>1 DEF At
    <3>2. CASE q # r
      <4>1. req'[q] = req[q]
        BY <1>8, <3>2
      <4>2. /\ req[q].browser \in Browser /\ req[q].scope \in Sid
            /\ req[q].target # None => req[q].target \in Made
            /\ req[q].kind \in {"analyze", "dropUpload"} /\ req[q].phase # "done" =>
                  req[q].target \in Uid
            /\ req[q].kind \in {"view", "dropAnalysis"} => req[q].target \in Aid
            /\ req[q].kind = "upload" /\ req[q].phase # "done" => req[q].target = None
            /\ At(q, "analyze", "loaded") => maker[req[q].target] = req[q].browser
            /\ At(q, "analyze", "loaded") /\ uploads[req[q].target] # None =>
                  uploads[req[q].target].owner = req[q].scope
        BY <2>2, <4>1 DEF Linked
      <4>3. ASSUME At(q, "analyze", "loaded"), uploads'[req[q].target] # None
            PROVE  uploads'[req[q].target].owner = req[q].scope
        <5>1. req[q].target \in Uid /\ req[q].target \in Made
          BY <4>2, <4>3, NoneAssumption DEF At
        <5>2. uploads'[req[q].target] = uploads[req[q].target]
          BY <1>1, <1>6, <4>3, <5>1
        <5> QED BY <4>2, <4>3, <5>2
      <4>4. ASSUME At(q, "analyze", "loaded") PROVE maker'[req[q].target] = maker[req[q].target]
        <5>1. req[q].target \in Uid /\ req[q].target \in Made
          BY <4>2, <4>4, NoneAssumption DEF At
        <5> QED BY <1>1, <1>7, <5>1
      <4> QED BY <1>7, <4>1, <4>2, <4>3, <4>4 DEF At
    <3> QED BY <3>1, <3>2
  <2> QED BY <2>1, <2>2 DEF Linked
<1>11. OneBrowserPerScope'
  <2>1. ASSUME NEW s \in Sid, NEW c \in Browser, UsedBy(s, c)' PROVE UsedBy(s, c)
    <3>1. CASE cookie'[c] = s
      BY <1>5, <3>1 DEF UsedBy
    <3>2. ASSUME NEW q \in Req, req'[q].phase # "idle", req'[q].scope = s, req'[q].browser = c
          PROVE  UsedBy(s, c)
      BY <1>2, <1>8, <3>2 DEF UsedBy
    <3>3. ASSUME NEW v \in Uid, uploads'[v] # None, uploads'[v].owner = s, maker'[v] = c
          PROVE  UsedBy(s, c)
      <4>1. CASE v = u
        BY <1>2, <1>3, <1>6, <1>7, <3>3, <4>1 DEF UsedBy
      <4>2. CASE v # u
        BY <1>6, <1>7, <3>3, <4>2 DEF UsedBy
      <4> QED BY <4>1, <4>2
    <3>4. ASSUME NEW a \in Aid, analyses'[a] # None, analyses'[a].owner = s, maker'[a] = c
          PROVE  UsedBy(s, c)
      <4>1. a \in Made
        BY <1>5, <3>4 DEF Linked
      <4> QED BY <1>1, <1>5, <1>7, <3>4, <4>1 DEF UsedBy
    <3> QED BY <2>1, <3>1, <3>2, <3>3, <3>4 DEF UsedBy
  <2> QED BY <1>5, <2>1, UsesKeepBrowser
<1>12. Isolation'
  <2> SUFFICES ASSUME NEW q \in Req, req'[q].phase = "done", req'[q].target # None,
                      req'[q].status \in Telling
               PROVE  maker'[req'[q].target] = req'[q].browser
    BY DEF Isolation, Telling
  <2>1. CASE q = r
    BY <1>7, <1>8, <2>1
  <2>2. CASE q # r
    <3>1. req'[q] = req[q] /\ req[q].target \in Made
      BY <1>8, <2>2 DEF Linked
    <3>2. maker[req[q].target] = req[q].browser
      BY <3>1 DEF Isolation, Telling
    <3> QED BY <1>1, <1>7, <3>1, <3>2 DEF Made
  <2> QED BY <2>1, <2>2
<1>13. AnalysisFollowsUpload'
  <2> SUFFICES ASSUME NEW a \in Aid, NEW v \in Uid, analyses[a] # None, uploads'[v] # None,
                      origin[a] = v
               PROVE  analyses[a].owner = uploads'[v].owner
    BY <1>5 DEF AnalysisFollowsUpload
  <2>1. v \in Made
    BY NoneAssumption DEF Linked
  <2>2. uploads'[v] = uploads[v]
    BY <1>1, <1>6, <2>1
  <2> QED BY <2>2 DEF AnalysisFollowsUpload
<1> QED BY <1>9, <1>10, <1>11, <1>12, <1>13

\* A new analysis goes to the scope its upload was loaded under.
LEMMA StoreAnalysisStep ==
    ASSUME IInv, NEW r \in Req, StoreAnalysis(r)
    PROVE  IInv'
<1> USE DEF IInv
<1> DEFINE a == FreshId(Aid, Made)
           e == Entry(req[r].scope, AnalysisTTL)
           b == req[r].browser
           w == req[r].target
<1>1. a \in Aid /\ a \notin Made
  BY FreshIdIsNew DEF StoreAnalysis
<1>2. /\ b \in Browser /\ req[r].scope \in Sid /\ req[r].phase = "loaded"
      /\ req[r].kind = "analyze" /\ w \in Uid /\ w \in Made
      /\ uploads[w] # None => uploads[w].owner = req[r].scope
  BY NoneAssumption DEF StoreAnalysis, At, Linked
<1>3. e \in Entries /\ e.owner = req[r].scope /\ e # None
  BY <1>2, TTLAssumption, EntryIsEntry
<1>4. RemoveExpired(analyses) \in [Aid -> Entries \cup {None}]
      /\ Shrinks(RemoveExpired(analyses), analyses, Aid)
  BY PurgeShrinks DEF Shape
<1>5. /\ analyses' = [RemoveExpired(analyses) EXCEPT ![a] = e]
      /\ maker' = [maker EXCEPT ![a] = b]
      /\ origin' = [origin EXCEPT ![a] = w]
      /\ req' = [req EXCEPT ![r].target = a, ![r].phase = "done", ![r].status = "200"]
      /\ UNCHANGED <<now, guests, uploads, cookie, sweep, issued>>
  BY DEF StoreAnalysis
<1> HIDE DEF a, e
<1>6. /\ analyses' \in [Aid -> Entries \cup {None}] /\ analyses'[a] = e
      /\ \A v \in Aid \ {a} : analyses'[v] = None \/ analyses'[v] = analyses[v]
  BY <1>1, <1>3, <1>4, <1>5 DEF Shrinks
<1>7. /\ maker' \in [Uid \cup Aid -> Browser \cup {None}] /\ maker'[a] = b
      /\ \A x \in (Uid \cup Aid) \ {a} : maker'[x] = maker[x]
      /\ Made' = Made \cup {a}
  BY <1>1, <1>2, <1>5, NoneAssumption DEF Shape, Made
<1>8. /\ req' \in [Req -> Request]
      /\ \A q \in Req \ {r} : req'[q] = req[q]
      /\ req'[r].kind = "analyze" /\ req'[r].browser = b /\ req'[r].scope = req[r].scope
      /\ req'[r].target = a /\ req'[r].phase = "done" /\ req'[r].status = "200"
  BY <1>1, <1>2, <1>5 DEF Shape, Request, Phases, Statuses
<1>9. /\ origin' \in [Aid -> Uid \cup {None}] /\ origin'[a] = w
      /\ \A v \in Aid \ {a} : origin'[v] = origin[v]
  BY <1>1, <1>2, <1>5 DEF Shape
<1>10. Shape'
  BY <1>5, <1>6, <1>7, <1>8, <1>9 DEF Shape
<1>11. Linked'
  <2>1. /\ \A v \in Uid : uploads'[v] # None => v \in Made'
        /\ \A v \in Aid : analyses'[v] # None => v \in Made'
        /\ \A v \in Aid : origin'[v] # None => origin'[v] \in Made'
    BY <1>2, <1>5, <1>6, <1>7, <1>9 DEF Linked
  <2>2. ASSUME NEW q \in Req, req'[q].phase # "idle"
        PROVE  /\ req'[q].browser \in Browser /\ req'[q].scope \in Sid
               /\ req'[q].target # None => req'[q].target \in Made'
               /\ req'[q].kind \in {"analyze", "dropUpload"} /\ req'[q].phase # "done" =>
                     req'[q].target \in Uid
               /\ req'[q].kind \in {"view", "dropAnalysis"} => req'[q].target \in Aid
               /\ req'[q].kind = "upload" /\ req'[q].phase # "done" => req'[q].target = None
               /\ At(q, "analyze", "loaded")' => maker'[req'[q].target] = req'[q].browser
               /\ At(q, "analyze", "loaded")' /\ uploads'[req'[q].target] # None =>
                     uploads'[req'[q].target].owner = req'[q].scope
    <3>1. CASE q = r
      BY <1>2, <1>7, <1>8, <3>1 DEF At
    <3>2. CASE q # r
      <4>1. req'[q] = req[q]
        BY <1>8, <3>2
      <4>2. /\ req[q].browser \in Browser /\ req[q].scope \in Sid
            /\ req[q].target # None => req[q].target \in Made
            /\ req[q].kind \in {"analyze", "dropUpload"} /\ req[q].phase # "done" =>
                  req[q].target \in Uid
            /\ req[q].kind \in {"view", "dropAnalysis"} => req[q].target \in Aid
            /\ req[q].kind = "upload" /\ req[q].phase # "done" => req[q].target = None
            /\ At(q, "analyze", "loaded") => maker[req[q].target] = req[q].browser
            /\ At(q, "analyze", "loaded") /\ uploads[req[q].target] # None =>
                  uploads[req[q].target].owner = req[q].scope
        BY <2>2, <4>1 DEF Linked
      <4>3. uploads' = uploads /\ Made \subseteq Made'
        BY <1>5, <1>7
      <4>4. At(q, "analyze", "loaded")' => At(q, "analyze", "loaded")
        BY <4>1 DEF At
      <4>5. ASSUME At(q, "analyze", "loaded") PROVE maker'[req[q].target] = maker[req[q].target]
        <5>1. req[q].target \in Uid /\ req[q].target \in Made
          BY <4>2, <4>5, NoneAssumption DEF At
        <5> QED BY <1>1, <1>7, <5>1
      <4> QED BY <4>1, <4>2, <4>3, <4>4, <4>5
    <3> QED BY <3>1, <3>2
  <2> QED BY <2>1, <2>2 DEF Linked
<1>12. OneBrowserPerScope'
  <2>1. ASSUME NEW s \in Sid, NEW c \in Browser, UsedBy(s, c)' PROVE UsedBy(s, c)
    <3>1. CASE cookie'[c] = s
      BY <1>5, <3>1 DEF UsedBy
    <3>2. ASSUME NEW q \in Req, req'[q].phase # "idle", req'[q].scope = s, req'[q].browser = c
          PROVE  UsedBy(s, c)
      BY <1>2, <1>8, <3>2 DEF UsedBy
    <3>3. ASSUME NEW v \in Aid, analyses'[v] # None, analyses'[v].owner = s, maker'[v] = c
          PROVE  UsedBy(s, c)
      <4>1. CASE v = a
        BY <1>2, <1>3, <1>6, <1>7, <3>3, <4>1 DEF UsedBy
      <4>2. CASE v # a
        BY <1>6, <1>7, <3>3, <4>2 DEF UsedBy
      <4> QED BY <4>1, <4>2
    <3>4. ASSUME NEW v \in Uid, uploads'[v] # None, uploads'[v].owner = s, maker'[v] = c
          PROVE  UsedBy(s, c)
      <4>1. v \in Made
        BY <1>5, <3>4 DEF Linked
      <4> QED BY <1>1, <1>5, <1>7, <3>4, <4>1 DEF UsedBy
    <3> QED BY <2>1, <3>1, <3>2, <3>3, <3>4 DEF UsedBy
  <2> QED BY <1>5, <2>1, UsesKeepBrowser
<1>13. Isolation'
  <2> SUFFICES ASSUME NEW q \in Req, req'[q].phase = "done", req'[q].target # None,
                      req'[q].status \in Telling
               PROVE  maker'[req'[q].target] = req'[q].browser
    BY DEF Isolation, Telling
  <2>1. CASE q = r
    BY <1>7, <1>8, <2>1
  <2>2. CASE q # r
    <3>1. req'[q] = req[q] /\ req[q].target \in Made
      BY <1>8, <2>2 DEF Linked
    <3>2. maker[req[q].target] = req[q].browser
      BY <3>1 DEF Isolation, Telling
    <3> QED BY <1>1, <1>7, <3>1, <3>2 DEF Made
  <2> QED BY <2>1, <2>2
<1>14. AnalysisFollowsUpload'
  <2> SUFFICES ASSUME NEW v \in Aid, NEW x \in Uid, analyses'[v] # None, uploads[x] # None,
                      origin'[v] = x
               PROVE  analyses'[v].owner = uploads[x].owner
    BY <1>5 DEF AnalysisFollowsUpload
  <2>1. CASE v = a
    BY <1>2, <1>3, <1>6, <1>9, <2>1
  <2>2. CASE v # a
    BY <1>6, <1>9, <2>2 DEF AnalysisFollowsUpload
  <2> QED BY <2>1, <2>2
<1> QED BY <1>10, <1>11, <1>12, <1>13, <1>14

\* A request arrives with the live session of its cookie, or with a new one that
\* nobody has used.
LEMMA ArriveStep ==
    ASSUME IInv, NEW r \in Req, NEW b \in Browser, NEW kind \in Kinds,
           NEW x \in Targets(kind), Arrive(r, b, kind, x)
    PROVE  IInv'
<1> USE DEF IInv
<1>1. PICK scope \in Sid, created \in BOOLEAN :
          /\ Resolve(cookie[b], scope, created)
          /\ req' = [req EXCEPT ![r] =
                [kind |-> kind, browser |-> b, scope |-> scope, created |-> created,
                 target |-> x, phase |-> "resolved", status |-> "none"]]
  BY DEF Arrive
<1>2. /\ req[r].phase = "idle"
      /\ UNCHANGED <<now, uploads, analyses, cookie, sweep, maker, origin>>
      /\ Made' = Made
  BY DEF Arrive, Made
<1>3. /\ x \in Uid \cup Aid \cup {None}
      /\ x # None => x \in Made
      /\ kind \in {"analyze", "dropUpload"} => x \in Uid
      /\ kind \in {"view", "dropAnalysis"} => x \in Aid
      /\ kind = "upload" => x = None
  BY DEF Targets, Kinds
<1>4. /\ req' \in [Req -> Request]
      /\ \A q \in Req \ {r} : req'[q] = req[q]
      /\ req'[r].kind = kind /\ req'[r].browser = b /\ req'[r].scope = scope
      /\ req'[r].target = x /\ req'[r].phase = "resolved" /\ req'[r].status = "none"
  BY <1>1, <1>3 DEF Shape, Request, Phases, Statuses
<1>5. /\ guests' \in [Sid -> Nat \cup {None}]
      /\ \/ issued' = issued /\ scope = cookie[b]
         \/ scope \notin issued /\ issued' = issued \cup {scope}
  <2>1. LiveGuests \in [Sid -> Nat \cup {None}] /\ now + GuestTTL \in Nat
    BY LiveGuestsShape, BoundAssumption, TTLAssumption DEF Shape
  <2>2. CASE cookie[b] # None /\ LiveGuests[cookie[b]] # None
    BY <1>1, <2>1, <2>2 DEF Resolve
  <2>3. CASE ~(cookie[b] # None /\ LiveGuests[cookie[b]] # None)
    <3>1. /\ Sid \ issued # {} /\ scope = FreshId(Sid, issued)
          /\ guests' = [LiveGuests EXCEPT ![scope] = now + GuestTTL]
          /\ issued' = issued \cup {scope}
      BY <1>1, <2>3 DEF Resolve
    <3>2. scope \notin issued
      BY <3>1, FreshIdIsNew
    <3> QED BY <2>1, <3>1, <3>2
  <2> QED BY <2>2, <2>3
<1>6. Shape'
  BY <1>2, <1>4, <1>5 DEF Shape
<1>7. Linked'
  <2>1. /\ \A v \in Uid : uploads'[v] # None => v \in Made'
        /\ \A v \in Aid : analyses'[v] # None => v \in Made'
        /\ \A v \in Aid : origin'[v] # None => origin'[v] \in Made'
    BY <1>2 DEF Linked
  <2>2. ASSUME NEW q \in Req, req'[q].phase # "idle"
        PROVE  /\ req'[q].browser \in Browser /\ req'[q].scope \in Sid
               /\ req'[q].target # None => req'[q].target \in Made'
               /\ req'[q].kind \in {"analyze", "dropUpload"} /\ req'[q].phase # "done" =>
                     req'[q].target \in Uid
               /\ req'[q].kind \in {"view", "dropAnalysis"} => req'[q].target \in Aid
               /\ req'[q].kind = "upload" /\ req'[q].phase # "done" => req'[q].target = None
               /\ At(q, "analyze", "loaded")' => maker'[req'[q].target] = req'[q].browser
               /\ At(q, "analyze", "loaded")' /\ uploads'[req'[q].target] # None =>
                     uploads'[req'[q].target].owner = req'[q].scope
    <3>1. CASE q = r
      BY <1>2, <1>3, <1>4, <3>1 DEF At
    <3>2. CASE q # r
      <4>1. req'[q] = req[q]
        BY <1>4, <3>2
      <4>2. /\ req[q].browser \in Browser /\ req[q].scope \in Sid
            /\ req[q].target # None => req[q].target \in Made
            /\ req[q].kind \in {"analyze", "dropUpload"} /\ req[q].phase # "done" =>
                  req[q].target \in Uid
            /\ req[q].kind \in {"view", "dropAnalysis"} => req[q].target \in Aid
            /\ req[q].kind = "upload" /\ req[q].phase # "done" => req[q].target = None
            /\ At(q, "analyze", "loaded") => maker[req[q].target] = req[q].browser
            /\ At(q, "analyze", "loaded") /\ uploads[req[q].target] # None =>
                  uploads[req[q].target].owner = req[q].scope
        BY <2>2, <4>1 DEF Linked
      <4> QED BY <1>2, <4>1, <4>2 DEF At
    <3> QED BY <3>1, <3>2
  <2> QED BY <2>1, <2>2 DEF Linked
<1>8. ASSUME NEW s \in Sid, NEW c \in Browser, UsedBy(s, c)'
      PROVE  UsedBy(s, c) \/ (s = scope /\ c = b)
  <2>1. CASE cookie'[c] = s
    BY <1>2, <2>1 DEF UsedBy
  <2>2. ASSUME NEW q \in Req, req'[q].phase # "idle", req'[q].scope = s, req'[q].browser = c
        PROVE  UsedBy(s, c) \/ (s = scope /\ c = b)
    BY <1>4, <2>2 DEF UsedBy
  <2>3. ASSUME NEW v \in Uid, uploads'[v] # None, uploads'[v].owner = s, maker'[v] = c
        PROVE  UsedBy(s, c)
    BY <1>2, <2>3 DEF UsedBy
  <2>4. ASSUME NEW v \in Aid, analyses'[v] # None, analyses'[v].owner = s, maker'[v] = c
        PROVE  UsedBy(s, c)
    BY <1>2, <2>4 DEF UsedBy
  <2> QED BY <1>8, <2>1, <2>2, <2>3, <2>4 DEF UsedBy
<1>9. OneBrowserPerScope'
  <2>1. CASE issued' = issued /\ scope = cookie[b]
    <3>1. UsedBy(scope, b)
      BY <2>1 DEF UsedBy
    <3>2. \A s \in Sid, c \in Browser : UsedBy(s, c)' => UsedBy(s, c)
      BY <1>8, <3>1
    <3> QED BY <2>1, <3>2, UsesKeepBrowser
  <2>2. CASE scope \notin issued /\ issued' = issued \cup {scope}
    <3> SUFFICES ASSUME NEW s \in Sid, NEW c \in Browser, UsedBy(s, c)'
                 PROVE  s \in issued' /\ \A d \in Browser : UsedBy(s, d)' => d = c
      BY DEF OneBrowserPerScope
    <3>1. \A d \in Browser : UsedBy(scope, d) => FALSE
      BY <2>2 DEF OneBrowserPerScope
    <3>2. CASE s = scope
      BY <1>8, <2>2, <3>1, <3>2
    <3>3. CASE s # scope
      <4>1. UsedBy(s, c) /\ \A d \in Browser : UsedBy(s, d)' => UsedBy(s, d)
        BY <1>8, <3>3
      <4> QED BY <2>2, <4>1 DEF OneBrowserPerScope
    <3> QED BY <3>2, <3>3
  <2> QED BY <1>5, <2>1, <2>2
<1>10. Isolation'
  <2> SUFFICES ASSUME NEW q \in Req, req'[q].phase = "done", req'[q].target # None,
                      req'[q].status \in Telling
               PROVE  maker'[req'[q].target] = req'[q].browser
    BY DEF Isolation, Telling
  <2>1. q # r /\ req'[q] = req[q]
    BY <1>4
  <2> QED BY <1>2, <2>1 DEF Isolation, Telling
<1>11. AnalysisFollowsUpload'
  BY <1>2 DEF AnalysisFollowsUpload
<1> QED BY <1>6, <1>7, <1>9, <1>10, <1>11

-----------------------------------------------------------------------------
\* Nothing is stored, nobody is there.
LEMMA InitIInv == Init => IInv
<1> SUFFICES ASSUME Init PROVE IInv
  OBVIOUS
<1> USE DEF Init
<1>1. Shape
  BY BoundAssumption DEF Shape, Idle, Request, Phases, Statuses
<1>2. \A r \in Req : req[r].phase = "idle"
  BY DEF Idle
<1>3. Linked /\ Isolation /\ AnalysisFollowsUpload
  BY <1>2 DEF Linked, Isolation, AnalysisFollowsUpload, At
<1>4. OneBrowserPerScope
  BY <1>2, NoneAssumption DEF OneBrowserPerScope, UsedBy
<1> QED BY <1>1, <1>3, <1>4 DEF IInv

\* The invariant is inductive.
LEMMA StepIInv == ASSUME IInv, [Next]_vars PROVE IInv'
<1>0. Shape /\ Linked
  BY DEF IInv
<1>1. ASSUME NEW r \in Req, NEW b \in Browser, NEW kind \in Kinds, NEW x \in Targets(kind),
             Arrive(r, b, kind, x)
      PROVE  IInv'
  BY <1>1, ArriveStep
<1>2. CASE \E r \in Req : StoreUpload(r)
  BY <1>2, StoreUploadStep
<1>3. CASE \E r \in Req : StoreAnalysis(r)
  BY <1>3, StoreAnalysisStep
<1>4. CASE \E r \in Req : AdmitUpload(r) \/ DenyUpload(r) \/ Reject(r) \/ Crash(r)
  BY <1>0, <1>4, AdmitUploadStep, DenyUploadStep, EndedEarly, HarmlessIInv
<1>5. CASE \E r \in Req : LoadUpload(r) \/ ViewAnalysis(r) \/ CheckAnalysis(r)
  BY <1>0, <1>5, LoadUploadStep, ViewAnalysisStep, CheckAnalysisStep, HarmlessIInv
<1>6. CASE \E r \in Req : DropAnalysis(r) \/ DropUpload(r) \/ Respond(r)
  BY <1>0, <1>6, DropAnalysisStep, DropUploadStep, RespondStep, HarmlessIInv
<1>7. CASE \/ Tick \/ Sweep \/ SweepLimiter \/ Restart \/ UNCHANGED vars
           \/ \E r \in Req : LoseResponse(r)
  BY <1>0, <1>7, OtherSteps, HarmlessIInv
<1> QED BY <1>1, <1>2, <1>3, <1>4, <1>5, <1>6, <1>7, Steps

\* The invariant holds of the service.
THEOREM Invariance == Spec => []IInv
BY InitIInv, StepIInv, PTL DEF Spec

\* No browser learns of what another browser's requests made.
THEOREM IsolationHolds == Spec => []Isolation
<1>1. IInv => Isolation
  BY DEF IInv
<1> QED BY <1>1, Invariance, PTL

\* An analysis belongs to the scope its upload belonged to.
THEOREM AnalysisFollowsUploadHolds == Spec => []AnalysisFollowsUpload
<1>1. IInv => AnalysisFollowsUpload
  BY DEF IInv
<1> QED BY <1>1, Invariance, PTL

\* A session that is gone does not come back, whatever browsers present.
THEOREM NoRevivalHolds == Spec => NoRevival
<1> DEFINE Stays == \A s \in issued : guests[s] = None => guests'[s] = None
<1>1. ASSUME IInv, [Next]_vars PROVE Stays
  <2>1. /\ LiveGuests \in [Sid -> Nat \cup {None}]
        /\ \A s \in Sid : guests[s] = None => LiveGuests[s] = None
        /\ issued \subseteq Sid
    <3>1. Shape
      BY <1>1 DEF IInv
    <3> QED BY <3>1, LiveGuestsShape DEF LiveGuests, Shape
  <2>2. ASSUME NEW r \in Req, NEW b \in Browser, NEW kind \in Kinds, NEW x \in Targets(kind),
               Arrive(r, b, kind, x)
        PROVE  Stays
    <3>1. PICK scope \in Sid, created \in BOOLEAN : Resolve(cookie[b], scope, created)
      BY <2>2 DEF Arrive
    <3>2. CASE cookie[b] # None /\ LiveGuests[cookie[b]] # None
      BY <2>1, <3>1, <3>2 DEF Resolve
    <3>3. CASE ~(cookie[b] # None /\ LiveGuests[cookie[b]] # None)
      <4>1. /\ Sid \ issued # {} /\ scope = FreshId(Sid, issued)
            /\ guests' = [LiveGuests EXCEPT ![scope] = now + GuestTTL]
        BY <3>1, <3>3 DEF Resolve
      <4>2. scope \notin issued
        BY <4>1, FreshIdIsNew
      <4> QED BY <2>1, <4>1, <4>2
    <3> QED BY <3>2, <3>3
  <2>3. CASE Sweep
    BY <2>1, <2>3 DEF Sweep
  <2>4. CASE Restart
    BY <2>1, <2>4 DEF Restart
  <2>5. CASE guests' = guests
    BY <2>5
  <2>6. CASE \/ Tick \/ SweepLimiter \/ UNCHANGED vars
             \/ \E r \in Req : \/ AdmitUpload(r) \/ DenyUpload(r) \/ Reject(r) \/ Crash(r)
                               \/ StoreUpload(r) \/ LoadUpload(r) \/ StoreAnalysis(r)
                               \/ ViewAnalysis(r) \/ CheckAnalysis(r) \/ DropAnalysis(r)
                               \/ DropUpload(r) \/ Respond(r) \/ LoseResponse(r)
    BY <2>5, <2>6 DEF Tick, SweepLimiter, vars, AdmitUpload, DenyUpload, Reject, Crash,
         StoreUpload, LoadUpload, StoreAnalysis, ViewAnalysis, CheckAnalysis,
         DropAnalysis, DropUpload, Respond, LoseResponse
  <2> HIDE DEF Stays
  <2> QED BY <1>1, <2>2, <2>3, <2>4, <2>6, Steps
<1> QED BY <1>1, Invariance, PTL DEF Spec, NoRevival

-----------------------------------------------------------------------------
\* RateLimiter's proofs hold of the service's limiter: its clock, which a step of
\* the limiter alone bounds by a horizon of its own, has room to the very end.
Rate == INSTANCE RateLimiterProofs WITH Owner <- Sid, Second <- 1,
                                        Horizon <- Horizon + Drain + Window

LEMMA RateAssumptions ==
    /\ Limit \in Nat \ {0}
    /\ Window \in Nat \ {0}
    /\ 1 \in Nat \ {0}
    /\ Horizon + Drain + Window \in Nat
BY WindowAssumption, BoundAssumption

\* The service calls the limiter that was proved.
LEMMA SameLimiter ==
    /\ \A o \in Sid : Limiter!Admit(o) <=> Rate!Admit(o)
    /\ \A o \in Sid : Limiter!Deny(o) <=> Rate!Deny(o)
    /\ \A gone \in SUBSET Sid : Limiter!DropOwners(gone) <=> Rate!DropOwners(gone)
    /\ Limiter!CleanupExpired <=> Rate!CleanupExpired
    /\ Limiter!TypeOK <=> Rate!TypeOK
BY DEF Limiter!Admit, Rate!Admit, Limiter!Deny, Rate!Deny, Limiter!DropOwners, Rate!DropOwners,
       Limiter!CleanupExpired, Rate!CleanupExpired, Limiter!Stops, Rate!Stops,
       Limiter!Passed, Rate!Passed, Limiter!AfterPops, Rate!AfterPops,
       Limiter!RetryAfter, Rate!RetryAfter, Limiter!TypeOK, Rate!TypeOK

\* Steps that have nothing to do with the limiter.
LEMMA LimiterUntouched ==
    ASSUME \/ \E r \in Req, b \in Browser, kind \in Kinds : \E x \in Targets(kind) :
                 Arrive(r, b, kind, x)
           \/ \E r \in Req : \/ Reject(r) \/ Crash(r) \/ StoreUpload(r) \/ LoadUpload(r)
                             \/ StoreAnalysis(r) \/ ViewAnalysis(r) \/ CheckAnalysis(r)
                             \/ DropAnalysis(r) \/ DropUpload(r) \/ Respond(r)
                             \/ LoseResponse(r)
           \/ UNCHANGED vars
    PROVE  UNCHANGED <<now, scopes, attempts, log, retry>>
BY DEF limiter, vars, Arrive, Reject, Crash, StoreUpload, LoadUpload, StoreAnalysis, ViewAnalysis,
       CheckAnalysis, DropAnalysis, DropUpload, Respond, LoseResponse

\* A step of the limiter is one here, and keeps its invariant.
LEMMA RateSteps ==
    ASSUME Rate!IInv,
           \/ Rate!Tick
           \/ \E o \in Sid : now <= Horizon + Drain /\ (Rate!Admit(o) \/ Rate!Deny(o))
           \/ Rate!CleanupExpired
           \/ UNCHANGED <<now, scopes, attempts, log, retry>>
    PROVE  Rate!IInv'
<1>1. ASSUME NEW o \in Sid, now <= Horizon + Drain PROVE now + Window <= Horizon + Drain + Window
  <2>1. now \in Nat
    BY DEF Rate!IInv, Rate!TypeOK
  <2> QED BY <1>1, <2>1, RateAssumptions, BoundAssumption
<1>2. [Rate!Next]_<<now, scopes, attempts, log, retry>>
  BY <1>1 DEF Rate!Next, Rate!Consume
<1> QED BY <1>2, RateAssumptions, Rate!StepIInv DEF Rate!vars

\* Every step of the service keeps the limiter's invariant, those included that
\* drop several scopes at once: a cleanup, and the end of the process.
LEMMA StepLimiter == ASSUME Shape, Linked, Rate!IInv, [Next]_vars PROVE Rate!IInv'
<1>1. CASE UNCHANGED <<now, scopes, attempts, log, retry>>
  BY <1>1, RateSteps
<1>2. CASE Tick
  <2>1. now \in Int /\ now < Horizon + Drain
    BY <1>2, BoundAssumption DEF Tick, Shape
  <2>2. now < Horizon + Drain + Window
    BY <2>1, BoundAssumption, WindowAssumption
  <2>3. Rate!Tick
    BY <1>2, <2>2 DEF Tick, Rate!Tick, limiter
  <2> QED BY <2>3, RateSteps
<1>3. ASSUME NEW r \in Req, AdmitUpload(r) \/ DenyUpload(r) PROVE Rate!IInv'
  <2>1. Limiter!Admit(req[r].scope) \/ Limiter!Deny(req[r].scope)
    BY <1>3 DEF AdmitUpload, DenyUpload
  <2>2. req[r].scope \in Sid
    BY <1>3 DEF Linked, AdmitUpload, DenyUpload, At
  <2>3. now <= Horizon + Drain
    BY BoundAssumption DEF Shape
  <2> QED BY <2>1, <2>2, <2>3, SameLimiter, RateSteps
<1>4. ASSUME NEW gone \in SUBSET Sid, Limiter!DropOwners(gone) PROVE Rate!IInv'
  BY <1>4, SameLimiter, RateAssumptions, Rate!DropKeepsIInv
<1>5. CASE Sweep
  BY <1>4, <1>5 DEF Sweep, Lapsed
<1>6. CASE SweepLimiter
  BY <1>6, SameLimiter, RateSteps DEF SweepLimiter
<1>7. CASE Restart
  <2>1. scopes \ Sid = {}
    BY DEF Rate!IInv, Rate!TypeOK
  <2>2. Limiter!DropOwners(Sid)
    BY <1>7, <2>1 DEF Restart, Limiter!DropOwners
  <2> QED BY <1>4, <2>2
<1> QED BY <1>1, <1>2, <1>3, <1>5, <1>6, <1>7, LimiterUntouched, Steps

\* The limiter's invariant holds in every behaviour of the service.
THEOREM LimiterInvariance == Spec => []Rate!IInv
<1>1. Init => Rate!IInv
  <2>1. Init => Rate!Init
    BY DEF Init, Rate!Init
  <2> QED BY <2>1, RateAssumptions, Rate!InitIInv
<1>2. IInv /\ Rate!IInv /\ [Next]_vars => Rate!IInv'
  BY StepLimiter DEF IInv
<1> QED BY <1>1, <1>2, Invariance, PTL DEF Spec

\* What the limiter promises on its own it keeps among requests in flight, sessions
\* that end, cleanups and restarts: at most Limit admissions of a scope in any
\* window since it was last dropped, a Retry-After that is long enough, and no
\* key in memory that no cleanup frees (routes.py:131, main.py:35-38).
THEOREM LimiterKeepsItsPromises ==
    Spec => [](Limiter!RollingLimit /\ Limiter!RetrySuffices /\ Limiter!NoEmptyScope)
<1>1. ASSUME Rate!IInv PROVE Limiter!RollingLimit
  BY <1>1 DEF Rate!IInv, Rate!RollingLimit, Limiter!RollingLimit, Rate!Rolling, Limiter!Rolling
<1>2. ASSUME Rate!IInv PROVE Limiter!RetrySuffices
  <2>1. Rate!RetrySuffices
    BY <1>2, RateAssumptions, Rate!CoveredSuffices
  <2> QED BY <2>1 DEF Rate!RetrySuffices, Limiter!RetrySuffices, Rate!Stops, Limiter!Stops,
                      Rate!Passed, Limiter!Passed
<1>3. ASSUME Rate!IInv PROVE Limiter!NoEmptyScope
  BY <1>3 DEF Rate!IInv, Rate!NoEmptyScope, Limiter!NoEmptyScope
<1> QED BY <1>1, <1>2, <1>3, LimiterInvariance, PTL

\* The sessions, stores, requests and the limiter keep their shape.
THEOREM TypeCorrect == Spec => []TypeOK
<1>1. IInv /\ Rate!IInv => TypeOK
  BY SameLimiter DEF IInv, Rate!IInv, Shape, TypeOK, Entries
<1> QED BY <1>1, Invariance, LimiterInvariance, PTL

\* An admission is one more entry of the log of its scope.
LEMMA AdmitLogs ==
    ASSUME Limiter!TypeOK, NEW o \in Sid, Limiter!Admit(o)
    PROVE  \A s \in Sid : Len(log'[s]) >= Len(log[s])
<1>1. log \in [Sid -> Seq(Nat)] /\ now \in Nat /\ log' = [log EXCEPT ![o] = Append(log[o], now)]
  BY DEF Limiter!TypeOK, Limiter!Admit
<1>2. Len(Append(log[o], now)) = Len(log[o]) + 1 /\ \A s \in Sid : Len(log[s]) \in Nat
  BY <1>1
<1> QED BY <1>1, <1>2

\* No step but the end of a session makes its attempts forgotten.
THEOREM LiveScopesKeepCountHolds == Spec => LiveScopesKeepCount
<1> DEFINE Kept == \A s \in Sid :
                guests[s] # None /\ guests[s] > now /\ guests'[s] = guests[s] =>
                    Len(log'[s]) >= Len(log[s])
<1>1. ASSUME TypeOK, IInv, [Next]_vars PROVE Kept
  <2>1. Limiter!TypeOK /\ Shape /\ \A s \in Sid : Len(log[s]) \in Nat
    BY <1>1 DEF TypeOK, IInv, Limiter!TypeOK
  <2>2. CASE log' = log
    BY <2>1, <2>2
  <2>3. CASE Tick
    BY <2>2, <2>3 DEF Tick, limiter
  <2>4. ASSUME NEW r \in Req, AdmitUpload(r) \/ DenyUpload(r) PROVE Kept
    <3>1. req[r].scope \in Sid
      BY <1>1, <2>4 DEF IInv, Linked, AdmitUpload, DenyUpload, At
    <3>2. CASE AdmitUpload(r)
      BY <2>1, <3>1, <3>2, AdmitLogs DEF AdmitUpload
    <3>3. CASE DenyUpload(r)
      BY <2>2, <3>3 DEF DenyUpload, Limiter!Deny
    <3> QED BY <2>4, <3>2, <3>3
  <2>5. CASE Sweep
    <3>1. \A s \in Sid \ Lapsed : log'[s] = log[s]
      BY <2>5 DEF Sweep, Lapsed, Limiter!DropOwners
    <3>2. ASSUME NEW s \in Sid, guests[s] # None, guests[s] > now PROVE s \notin Lapsed
      <4>1. guests[s] \in Nat /\ now \in Int
        BY <2>1, <3>2, BoundAssumption DEF Shape
      <4> QED BY <3>2, <4>1 DEF Lapsed
    <3> QED BY <2>1, <3>1, <3>2
  <2>6. CASE SweepLimiter
    BY <2>2, <2>6 DEF SweepLimiter, Limiter!CleanupExpired
  <2>7. CASE Restart
    BY <2>7 DEF Restart
  <2> HIDE DEF Kept
  <2> QED BY <1>1, <2>2, <2>3, <2>4, <2>5, <2>6, <2>7, LimiterUntouched, Steps
<1> QED BY <1>1, Invariance, TypeCorrect, PTL DEF Spec, LiveScopesKeepCount

-----------------------------------------------------------------------------
\* A deletion that ended in a server error has nothing left to delete.
FailedDeletionsAreDone ==
    \A r \in Req : req[r].status = "500" =>
        /\ req[r].kind # "dropUpload"
        /\ req[r].kind = "dropAnalysis" =>
              req[r].phase = "done" /\ analyses[req[r].target] = None

\* An id that was made and is gone is never stored again.
LEMMA GoneStaysGone ==
    ASSUME IInv, [Next]_vars, NEW a \in Aid, a \in Made, analyses[a] = None
    PROVE  analyses'[a] = None
<1>1. ASSUME Shrinks(analyses', analyses, Aid) PROVE analyses'[a] = None
  BY <1>1 DEF Shrinks
<1>2. Shape /\ Linked
  BY DEF IInv
<1>3. CASE Harmless
  BY <1>1, <1>3 DEF Harmless
<1>4. ASSUME NEW r \in Req, StoreAnalysis(r) PROVE analyses'[a] = None
  <2>1. Aid \ Made # {} /\ analyses' = [RemoveExpired(analyses) EXCEPT
                                          ![FreshId(Aid, Made)] = Entry(req[r].scope, AnalysisTTL)]
    BY <1>4 DEF StoreAnalysis
  <2>2. a # FreshId(Aid, Made)
    BY <2>1, FreshIdIsNew
  <2>3. RemoveExpired(analyses)[a] = None
    BY <1>2 DEF RemoveExpired, Shape
  <2> QED BY <1>2, <2>1, <2>2, <2>3 DEF RemoveExpired, Shape
<1>5. ASSUME NEW r \in Req, StoreUpload(r) PROVE analyses'[a] = None
  BY <1>5 DEF StoreUpload
<1>6. ASSUME NEW r \in Req, NEW b \in Browser, NEW kind \in Kinds, NEW x \in Targets(kind),
             Arrive(r, b, kind, x)
      PROVE  analyses'[a] = None
  BY <1>6 DEF Arrive
<1>7. \/ Harmless
      \/ \E r \in Req : StoreAnalysis(r) \/ StoreUpload(r)
      \/ \E r \in Req, b \in Browser, kind \in Kinds : \E x \in Targets(kind) :
            Arrive(r, b, kind, x)
  BY <1>2, AdmitUploadStep, DenyUploadStep, EndedEarly, LoadUploadStep, ViewAnalysisStep,
     CheckAnalysisStep, DropAnalysisStep, DropUploadStep, RespondStep, OtherSteps, Steps
<1> QED BY <1>3, <1>4, <1>5, <1>6, <1>7

\* A deletion ends in a server error only where the look-up finds the analysis due.
LEMMA DeletionsStayDone ==
    ASSUME IInv, FailedDeletionsAreDone, [Next]_vars
    PROVE  FailedDeletionsAreDone'
<1> DEFINE Fine(q) == req'[q].status = "500" =>
              /\ req'[q].kind # "dropUpload"
              /\ req'[q].kind = "dropAnalysis" =>
                    req'[q].phase = "done" /\ analyses'[req'[q].target] = None
<1>1. Shape /\ Linked /\ IInv'
  BY StepIInv DEF IInv
<1>2. ASSUME NEW q \in Req, req'[q] = req[q] PROVE Fine(q)
  <2>1. CASE req[q].status = "500" /\ req[q].kind = "dropAnalysis"
    <3>1. req[q].phase = "done" /\ analyses[req[q].target] = None
      BY <2>1 DEF FailedDeletionsAreDone
    <3>2. req[q].target \in Aid
      BY <1>1, <2>1, <3>1 DEF Linked
    <3>3. req[q].target \in Made
      BY <1>1, <3>1, <3>2, NoneAssumption DEF Linked
    <3> QED BY <1>2, <2>1, <3>1, <3>2, <3>3, GoneStaysGone
  <2> QED BY <1>2, <2>1 DEF FailedDeletionsAreDone
<1>3. ASSUME NEW r \in Req, \A q \in Req \ {r} : req'[q] = req[q], Fine(r)
      PROVE  FailedDeletionsAreDone'
  <2>1. \A q \in Req : Fine(q)
    BY <1>2, <1>3
  <2> QED BY <2>1 DEF FailedDeletionsAreDone
<1>4. ASSUME NEW r \in Req, NEW phase \in Phases, NEW status \in Statuses,
             Move(r, phase, status),
             status = "500" => req[r].kind \notin {"dropUpload", "dropAnalysis"}
      PROVE  FailedDeletionsAreDone'
  <2>1. Moved(r, phase, status)
    BY <1>1, <1>4, MoveMoves
  <2>2. Fine(r)
    BY <1>4, <2>1 DEF Moved
  <2> QED BY <1>3, <2>1, <2>2 DEF Moved
<1>5. CASE req' = req
  <2>1. \A q \in Req : Fine(q)
    BY <1>2, <1>5
  <2> QED BY <2>1 DEF FailedDeletionsAreDone
<1>6. CASE \E r \in Req : CheckAnalysis(r)
  <2>1. PICK r \in Req : CheckAnalysis(r)
    BY <1>6
  <2> DEFINE status == GetStatus(analyses, req[r].scope, req[r].target)
  <2>2. req[r].kind = "dropAnalysis" /\ req[r].target \in Aid
    BY <1>1, <2>1 DEF CheckAnalysis, At, Linked
  <2>3. status \in {"200", "404", "410"}
    BY DEF GetStatus
  <2>4. CASE status = "200"
    <3>1. Move(r, "checked", "none")
      BY <2>1, <2>4 DEF CheckAnalysis
    <3> QED BY <1>4, <3>1 DEF Phases, Statuses
  <2>5. CASE status = "404"
    <3>1. Move(r, "done", "404")
      BY <2>1, <2>5 DEF CheckAnalysis, Done
    <3> QED BY <1>4, <3>1 DEF Phases, Statuses
  <2>6. CASE status = "410"
    <3>1. Move(r, "done", "500") /\ analyses' = [analyses EXCEPT ![req[r].target] = None]
      BY <2>1, <2>6 DEF CheckAnalysis, AfterGet, Done
    <3>2. Moved(r, "done", "500")
      BY <1>1, <3>1, MoveMoves DEF Phases, Statuses
    <3>3. analyses'[req'[r].target] = None
      BY <1>1, <2>2, <3>1, <3>2 DEF Moved, Shape
    <3>4. Fine(r)
      BY <2>2, <3>2, <3>3 DEF Moved
    <3> QED BY <1>3, <3>2, <3>4 DEF Moved
  <2> QED BY <2>3, <2>4, <2>5, <2>6
<1>7. CASE \E r \in Req : \/ AdmitUpload(r) \/ DenyUpload(r) \/ Reject(r)
                          \/ DropAnalysis(r) \/ DropUpload(r)
  BY <1>4, <1>7 DEF AdmitUpload, DenyUpload, Reject, DropAnalysis, DropUpload, Done,
                    Phases, Statuses
<1>8. ASSUME NEW r \in Req, LoadUpload(r) \/ ViewAnalysis(r) \/ Crash(r)
      PROVE  FailedDeletionsAreDone'
  <2>1. req[r].kind \in {"upload", "analyze", "view"}
    BY <1>8 DEF LoadUpload, ViewAnalysis, Crash, At
  <2>2. \A st, o, x : GetStatus(st, o, x) \in Statuses
    BY DEF GetStatus, Statuses
  <2>3. \E phase \in Phases, status \in Statuses : Move(r, phase, status)
    BY <1>8, <2>2 DEF LoadUpload, ViewAnalysis, Crash, Done, Phases, Statuses
  <2> QED BY <1>4, <2>1, <2>3
<1>9. ASSUME NEW r \in Req, Respond(r) \/ LoseResponse(r)
      PROVE  FailedDeletionsAreDone'
  <2>1. req' = [req EXCEPT ![r] = Idle]
    BY <1>9 DEF Respond, LoseResponse
  <2>2. Fine(r)
    BY <1>1, <2>1 DEF Shape, Idle
  <2> QED BY <1>1, <1>3, <2>1, <2>2 DEF Shape
<1>10. ASSUME NEW r \in Req, StoreUpload(r) \/ StoreAnalysis(r)
       PROVE  FailedDeletionsAreDone'
  <2>1. \E x : req' = [req EXCEPT ![r].target = x, ![r].phase = "done", ![r].status = "200"]
    BY <1>10 DEF StoreUpload, StoreAnalysis
  <2>2. Fine(r) /\ \A q \in Req \ {r} : req'[q] = req[q]
    BY <1>1, <2>1 DEF Shape, Request
  <2> QED BY <1>3, <2>2
<1>11. ASSUME NEW r \in Req, NEW b \in Browser, NEW kind \in Kinds, NEW x \in Targets(kind),
              Arrive(r, b, kind, x)
       PROVE  FailedDeletionsAreDone'
  <2>1. req'[r].status = "none" /\ \A q \in Req \ {r} : req'[q] = req[q]
    BY <1>1, <1>11 DEF Arrive, Shape
  <2>2. Fine(r)
    BY <2>1
  <2> QED BY <1>3, <2>1, <2>2
<1>12. CASE Restart
  BY <1>12 DEF Restart, Idle, FailedDeletionsAreDone
<1>13. CASE Tick \/ Sweep \/ SweepLimiter \/ UNCHANGED vars
  BY <1>5, <1>13 DEF Tick, Sweep, SweepLimiter, vars
<1> QED BY <1>6, <1>7, <1>8, <1>9, <1>10, <1>11, <1>12, <1>13, Steps

\* The deletion of an analysis that finds it expired ends in a server error
\* (routes.py:540-547 catches AnalysisNotFoundError alone), but what the browser is
\* not told is that the analysis is gone, and stays so; the deletion of an upload
\* has no such error.
THEOREM FailedDeletionsAreDoneHolds == Spec => []FailedDeletionsAreDone
<1>1. Init => FailedDeletionsAreDone
  BY DEF Init, Idle, FailedDeletionsAreDone
<1>2. IInv /\ FailedDeletionsAreDone /\ [Next]_vars => FailedDeletionsAreDone'
  BY DeletionsStayDone
<1> QED BY <1>1, <1>2, Invariance, PTL DEF Spec

-----------------------------------------------------------------------------
\* Why an entry of a store may end: it is due, a request of its owner deletes it, or
\* the process stops.
Deletes(kind, o, x) ==
    \E r \in Req : /\ req[r].kind = kind /\ req[r].scope = o /\ req[r].target = x
                   /\ req[r].phase # "done" /\ req'[r].phase = "done" /\ req'[r].status = "204"

EndsForAReason(new, old, S, kind) ==
    \A x \in S : old[x] # None /\ new[x] # old[x] =>
        /\ new[x] = None
        /\ old[x].expires_at <= now \/ Deletes(kind, old[x].owner, x) \/ Restart

NothingIsLost ==
    [][/\ EndsForAReason(uploads', uploads, Uid, "dropUpload")
       /\ EndsForAReason(analyses', analyses, Aid, "dropAnalysis")]_vars

\* A purge and a lookup remove only what is due.
LEMMA OnlyDueGo ==
    ASSUME NEW S, NEW st \in [S -> Entries \cup {None}], NEW x \in S
    PROVE  /\ RemoveExpired(st)[x] # st[x] =>
                  RemoveExpired(st)[x] = None /\ st[x].expires_at <= now
           /\ \A o, y : AfterGet(st, o, y)[x] # st[x] =>
                  AfterGet(st, o, y)[x] = None /\ st[x].expires_at <= now
BY DEF RemoveExpired, AfterGet, GetStatus, Expired

\* Every step takes from the stores for a reason, and changes no entry.
LEMMA StepLoses ==
    ASSUME IInv, [Next]_vars
    PROVE  /\ EndsForAReason(uploads', uploads, Uid, "dropUpload")
           /\ EndsForAReason(analyses', analyses, Aid, "dropAnalysis")
<1> DEFINE U == EndsForAReason(uploads', uploads, Uid, "dropUpload")
           A == EndsForAReason(analyses', analyses, Aid, "dropAnalysis")
<1>1. /\ uploads \in [Uid -> Entries \cup {None}] /\ analyses \in [Aid -> Entries \cup {None}]
      /\ \A u \in Uid : uploads[u] # None => u \in Made
      /\ \A a \in Aid : analyses[a] # None => a \in Made
  BY DEF IInv, Shape, Linked
<1>2. (uploads' = uploads => U) /\ (analyses' = analyses => A)
  BY DEF EndsForAReason
<1>3. (uploads' = RemoveExpired(uploads) => U) /\ (analyses' = RemoveExpired(analyses) => A)
  BY <1>1, OnlyDueGo DEF EndsForAReason
<1>4. ASSUME NEW o, NEW y
      PROVE  /\ uploads' = AfterGet(uploads, o, y) => U
             /\ analyses' = AfterGet(analyses, o, y) => A
  BY <1>1, OnlyDueGo DEF EndsForAReason
<1>5. ASSUME NEW r \in Req, StoreUpload(r) PROVE U /\ A
  <2>1. Uid \ Made # {} /\ analyses' = analyses
        /\ uploads' = [RemoveExpired(uploads) EXCEPT
                          ![FreshId(Uid, Made)] = Entry(req[r].scope, UploadTTL)]
    BY <1>5 DEF StoreUpload
  <2>2. ASSUME NEW u \in Uid, uploads[u] # None, uploads'[u] # uploads[u]
        PROVE  uploads'[u] = None /\ uploads[u].expires_at <= now
    <3>1. u # FreshId(Uid, Made)
      BY <1>1, <2>1, <2>2, FreshIdIsNew
    <3>2. RemoveExpired(uploads) \in [Uid -> Entries \cup {None}]
      BY <1>1, PurgeShrinks
    <3>3. uploads'[u] = RemoveExpired(uploads)[u]
      BY <2>1, <3>1, <3>2
    <3> QED BY <1>1, <2>2, <3>3, OnlyDueGo
  <2>3. U
    BY <2>2 DEF EndsForAReason
  <2> QED BY <1>2, <2>1, <2>3
<1>6. ASSUME NEW r \in Req, StoreAnalysis(r) PROVE U /\ A
  <2>1. Aid \ Made # {} /\ uploads' = uploads
        /\ analyses' = [RemoveExpired(analyses) EXCEPT
                          ![FreshId(Aid, Made)] = Entry(req[r].scope, AnalysisTTL)]
    BY <1>6 DEF StoreAnalysis
  <2>2. ASSUME NEW a \in Aid, analyses[a] # None, analyses'[a] # analyses[a]
        PROVE  analyses'[a] = None /\ analyses[a].expires_at <= now
    <3>1. a # FreshId(Aid, Made)
      BY <1>1, <2>1, <2>2, FreshIdIsNew
    <3>2. RemoveExpired(analyses) \in [Aid -> Entries \cup {None}]
      BY <1>1, PurgeShrinks
    <3>3. analyses'[a] = RemoveExpired(analyses)[a]
      BY <2>1, <3>1, <3>2
    <3> QED BY <1>1, <2>2, <3>3, OnlyDueGo
  <2>3. A
    BY <2>2 DEF EndsForAReason
  <2> QED BY <1>2, <2>1, <2>3
<1>7. ASSUME NEW r \in Req, LoadUpload(r) \/ ViewAnalysis(r) \/ CheckAnalysis(r) PROVE U /\ A
  BY <1>2, <1>4, <1>7 DEF LoadUpload, ViewAnalysis, CheckAnalysis
<1>8. ASSUME NEW r \in Req, DropUpload(r) \/ DropAnalysis(r) PROVE U /\ A
  <2>1. CASE uploads' = uploads /\ analyses' = analyses
    BY <1>2, <2>1
  <2>2. ASSUME Done(r, "204") PROVE req'[r].phase = "done" /\ req'[r].status = "204"
    BY <2>2, MoveMoves DEF IInv, Done, Moved, Phases, Statuses
  <2>3. CASE DropUpload(r) /\ Owns(uploads, req[r].scope, req[r].target)
    <3>1. /\ uploads' = [uploads EXCEPT ![req[r].target] = None] /\ analyses' = analyses
          /\ Done(r, "204") /\ req[r].kind = "dropUpload" /\ req[r].phase # "done"
          /\ uploads[req[r].target].owner = req[r].scope
      BY <2>3 DEF DropUpload, At, Owns
    <3>2. U
      BY <1>1, <2>2, <3>1 DEF EndsForAReason, Deletes
    <3> QED BY <1>2, <3>1, <3>2
  <2>4. CASE DropAnalysis(r) /\ Owns(analyses, req[r].scope, req[r].target)
    <3>1. /\ analyses' = [analyses EXCEPT ![req[r].target] = None] /\ uploads' = uploads
          /\ Done(r, "204") /\ req[r].kind = "dropAnalysis" /\ req[r].phase # "done"
          /\ analyses[req[r].target].owner = req[r].scope
      BY <2>4 DEF DropAnalysis, At, Owns
    <3>2. A
      BY <1>1, <2>2, <3>1 DEF EndsForAReason, Deletes
    <3> QED BY <1>2, <3>1, <3>2
  <2> QED BY <1>8, <2>1, <2>3, <2>4 DEF DropUpload, DropAnalysis
<1>9. CASE Sweep
  BY <1>3, <1>9 DEF Sweep
<1>10. CASE Restart
  BY <1>10 DEF Restart, EndsForAReason
<1>11. CASE uploads' = uploads /\ analyses' = analyses
  BY <1>2, <1>11
<1>12. CASE \/ Tick \/ SweepLimiter \/ UNCHANGED vars
            \/ \E r \in Req, b \in Browser, kind \in Kinds : \E x \in Targets(kind) :
                  Arrive(r, b, kind, x)
            \/ \E r \in Req : \/ AdmitUpload(r) \/ DenyUpload(r) \/ Reject(r) \/ Crash(r)
                              \/ Respond(r) \/ LoseResponse(r)
  BY <1>11, <1>12 DEF Tick, SweepLimiter, vars, Arrive, AdmitUpload, DenyUpload, Reject,
     Crash, Respond, LoseResponse
<1> HIDE DEF U, A
<1> QED BY <1>5, <1>6, <1>7, <1>8, <1>9, <1>10, <1>12, Steps DEF U, A

\* Whatever requests, cleanups and expiries interleave, an upload or an analysis is
\* not lost early, not overwritten by another one and not removed by a stranger.
THEOREM NothingIsLostHolds == Spec => NothingIsLost
BY StepLoses, Invariance, PTL DEF Spec, NothingIsLost
=============================================================================
