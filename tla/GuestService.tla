---------------------------- MODULE GuestService ----------------------------
(***************************************************************************)
(* The API service of api/main.py and api/routes.py: browsers with a guest *)
(* cookie, requests in flight, the guest sessions, the upload and analysis *)
(* stores, the upload rate limiter and the cleanup task.                   *)
(*                                                                         *)
(* A request is resolved to a guest session by the middleware when it      *)
(* arrives and keeps that scope to its end, while other requests, the      *)
(* clock and the cleanup task go on.  Middleware, rate limiting, responses *)
(* and cleanup run on the event loop; the handlers' store calls run in     *)
(* threads and fall between any two steps of the loop.  A store call is    *)
(* one step here: TempStore shows that it may be.                          *)
(***************************************************************************)
EXTENDS Integers, Sequences

CONSTANTS Browser, Sid, Uid, Aid,           \* browsers; session, upload, analysis ids
          Req,                              \* request slots: how many are in flight
          GuestTTL, UploadTTL, AnalysisTTL, \* lifetimes in ticks
          Limit, Window,                    \* upload attempts per window, in ticks
          Horizon,                          \* bound: the last instant with a request
          Drain,                            \* bound: how long the clock runs on after it
          None

ASSUME BoundAssumption == Horizon \in Nat /\ Drain \in Nat
ASSUME TTLAssumption == {GuestTTL, UploadTTL, AnalysisTTL} \subseteq Nat \ {0}
ASSUME WindowAssumption == {Limit, Window} \subseteq Nat \ {0}
ASSUME NoneAssumption ==
    None \notin Browser \cup Sid \cup Uid \cup Aid \cup Nat \cup [owner : Sid, expires_at : Nat]

VARIABLES now,
          guests,     \* guests[s]: when session s expires, or None
          uploads,    \* uploads[u]: owner and deadline, or None
          analyses,   \* analyses[a]: owner and deadline, or None
          scopes, attempts, log, retry,     \* the rate limiter
          cookie,     \* cookie[b]: the session id browser b sends, or None
          req,        \* req[r]: the request in slot r
          sweep,      \* the next part of a cleanup under way, or "asleep"
          issued,     \* history: session ids ever issued
          maker,      \* history: the browser whose request created the id
          origin      \* history: the upload an analysis was derived from

limiter == <<scopes, attempts, log, retry>>
history == <<issued, maker, origin>>
vars == <<now, guests, uploads, analyses, limiter, cookie, req, sweep, history>>

Limiter == INSTANCE RateLimiter WITH Owner <- Sid, Second <- 1

Kinds == {"upload", "analyze", "view", "dropUpload", "dropAnalysis"}
Phases == {"idle", "resolved", "admitted", "loaded", "checked", "done"}
Statuses == {"none", "200", "204", "400", "404", "410", "429", "500"}

Request == [kind : Kinds \cup {"none"}, browser : Browser \cup {None},
            scope : Sid \cup {None}, created : BOOLEAN,
            target : Uid \cup Aid \cup {None},
            phase : Phases, status : Statuses]

Idle == [kind |-> "none", browser |-> None, scope |-> None, created |-> FALSE,
         target |-> None, phase |-> "idle", status |-> "none"]

-----------------------------------------------------------------------------
\* The two stores, as values: upload_store.py and analysis_store.py agree.
Entry(o, ttl) == [owner |-> o, expires_at |-> now + ttl]
Expired(st, x) == st[x] # None /\ st[x].expires_at <= now
RemoveExpired(st) == [x \in DOMAIN st |-> IF Expired(st, x) THEN None ELSE st[x]]

\* (mistake) Whoever knows the id may have it.
OwnsAny(st, o, x) == st[x] # None

Owns(st, o, x) == st[x] # None /\ st[x].owner = o

GetStatus(st, o, x) ==
    IF ~Owns(st, o, x) THEN "404" ELSE IF Expired(st, x) THEN "410" ELSE "200"

AfterGet(st, o, x) ==
    IF GetStatus(st, o, x) = "410" THEN [st EXCEPT ![x] = None] ELSE st

\* Random tokens are fresh and interchangeable.
FreshId(S, used) == CHOOSE x \in S : x \notin used
Made == {x \in Uid \cup Aid : maker[x] # None}

Move(r, phase, status) ==
    req' = [req EXCEPT ![r].phase = phase, ![r].status = status]
Done(r, status) == Move(r, "done", status)

At(r, kind, phase) == req[r].kind = kind /\ req[r].phase = phase
LoopFree == sweep = "asleep"

-----------------------------------------------------------------------------
Init ==
    /\ now = 0
    /\ guests = [s \in Sid |-> None]
    /\ uploads = [u \in Uid |-> None]
    /\ analyses = [a \in Aid |-> None]
    /\ scopes = {}
    /\ attempts = [s \in Sid |-> <<>>]
    /\ log = [s \in Sid |-> <<>>]
    /\ retry = [s \in Sid |-> 0]
    /\ cookie = [b \in Browser |-> None]
    /\ req = [r \in Req |-> Idle]
    /\ sweep = "asleep"
    /\ issued = {}
    /\ maker = [x \in Uid \cup Aid |-> None]
    /\ origin = [a \in Aid |-> None]

Quiet == \A r \in Req : req[r].phase = "idle"

Tick ==
    /\ now < Horizon \/ (Quiet /\ now < Horizon + Drain)
    /\ now' = now + 1
    /\ UNCHANGED <<guests, uploads, analyses, limiter, cookie, req, sweep, history>>

LiveGuests == [s \in Sid |-> IF guests[s] # None /\ guests[s] <= now THEN None ELSE guests[s]]

\* (mistake) A browser that presents an unknown id is given a session of that id.
ResolveReviving(sid, scope, created) ==
    IF sid # None
    THEN /\ scope = sid
         /\ created = (LiveGuests[sid] = None)
         /\ guests' = [LiveGuests EXCEPT ![sid] =
                         IF LiveGuests[sid] = None THEN now + GuestTTL ELSE @]
         /\ UNCHANGED issued
    ELSE /\ created = TRUE
         /\ Sid \ issued # {}
         /\ scope = FreshId(Sid, issued)
         /\ guests' = [LiveGuests EXCEPT ![scope] = now + GuestTTL]
         /\ issued' = issued \cup {scope}

\* guest_session_store.resolve(cookie): the live session, or a new one; its
\* lifetime is fixed when it is created.
Resolve(sid, scope, created) ==
    IF sid # None /\ LiveGuests[sid] # None
    THEN /\ scope = sid
         /\ created = FALSE
         /\ guests' = LiveGuests
         /\ UNCHANGED issued
    ELSE /\ created = TRUE
         /\ Sid \ issued # {}
         /\ scope = FreshId(Sid, issued)
         /\ guests' = [LiveGuests EXCEPT ![scope] = now + GuestTTL]
         /\ issued' = issued \cup {scope}

\* Any id that exists may be asked for, by any browser.
Targets(kind) ==
    CASE kind = "upload" -> {None}
      [] kind \in {"analyze", "dropUpload"} -> Uid \cap Made
      [] kind \in {"view", "dropAnalysis"} -> Aid \cap Made

\* attach_guest_session, up to call_next.  The bound on now leaves time for the
\* session to expire while its requests run.
Arrive(r, b, kind, x) ==
    /\ LoopFree
    /\ req[r].phase = "idle"
    /\ now + GuestTTL <= Horizon
    /\ \E scope \in Sid, created \in BOOLEAN :
          /\ Resolve(cookie[b], scope, created)
          /\ req' = [req EXCEPT ![r] =
                [kind |-> kind, browser |-> b, scope |-> scope, created |-> created,
                 target |-> x, phase |-> "resolved", status |-> "none"]]
    /\ UNCHANGED <<now, uploads, analyses, limiter, cookie, sweep, maker, origin>>

\* preview_upload, once its body is received: count the attempt.
AdmitUpload(r) ==
    /\ LoopFree
    /\ At(r, "upload", "resolved")
    /\ Limiter!Admit(req[r].scope)
    /\ Move(r, "admitted", "none")
    /\ UNCHANGED <<guests, uploads, analyses, cookie, sweep, history>>

DenyUpload(r) ==
    /\ LoopFree
    /\ At(r, "upload", "resolved")
    /\ Limiter!Deny(req[r].scope)
    /\ Done(r, "429")
    /\ UNCHANGED <<guests, uploads, analyses, cookie, sweep, history>>

\* A wrong name, an empty, oversized or unreadable file; a mapping, a quality or
\* a confirmation the analysis pipeline refuses.  "400" is any such refusal.
Reject(r) ==
    /\ At(r, "upload", "admitted") \/ At(r, "analyze", "loaded")
    /\ Done(r, "400")
    /\ UNCHANGED <<now, guests, uploads, analyses, limiter, cookie, sweep, history>>

\* Whatever else the reading of the file or the pipeline raises before anything is
\* stored: nobody catches it.  What fails after the store leaves the browser without
\* cookie and id, as LoseResponse does.
Crash(r) ==
    /\ At(r, "upload", "admitted") \/ At(r, "analyze", "loaded")
    /\ Done(r, "500")
    /\ UNCHANGED <<now, guests, uploads, analyses, limiter, cookie, sweep, history>>

\* _store_csv_preview, in a thread: under the scope the request came with.
StoreUpload(r) ==
    /\ At(r, "upload", "admitted")
    /\ Uid \ Made # {}
    /\ LET u == FreshId(Uid, Made)
       IN  /\ uploads' = [RemoveExpired(uploads) EXCEPT ![u] = Entry(req[r].scope, UploadTTL)]
           /\ maker' = [maker EXCEPT ![u] = req[r].browser]
           /\ req' = [req EXCEPT ![r].target = u, ![r].phase = "done", ![r].status = "200"]
    /\ UNCHANGED <<now, guests, analyses, limiter, cookie, sweep, issued, origin>>

\* _get_temporary_upload.  The read-only endpoints on an upload are this step
\* and an answer: an analyze that is rejected or crashes stands for them.
LoadUpload(r) ==
    /\ At(r, "analyze", "resolved")
    /\ LET status == GetStatus(uploads, req[r].scope, req[r].target)
       IN  /\ uploads' = AfterGet(uploads, req[r].scope, req[r].target)
           /\ IF status = "200" THEN Move(r, "loaded", "none") ELSE Done(r, status)
    /\ UNCHANGED <<now, guests, analyses, limiter, cookie, sweep, history>>

\* (mistake) The analysis goes to whatever session the browser has by now.
StoreUnderCookie(r) ==
    /\ At(r, "analyze", "loaded")
    /\ Aid \ Made # {}
    /\ cookie[req[r].browser] # None
    /\ LET a == FreshId(Aid, Made)
       IN  /\ analyses' = [RemoveExpired(analyses) EXCEPT
                             ![a] = Entry(cookie[req[r].browser], AnalysisTTL)]
           /\ maker' = [maker EXCEPT ![a] = req[r].browser]
           /\ origin' = [origin EXCEPT ![a] = req[r].target]
           /\ req' = [req EXCEPT ![r].target = a, ![r].phase = "done", ![r].status = "200"]
    /\ UNCHANGED <<now, guests, uploads, limiter, cookie, sweep, issued>>

\* analyze_upload_data, after the pipeline: the upload may be gone by now.
StoreAnalysis(r) ==
    /\ At(r, "analyze", "loaded")
    /\ Aid \ Made # {}
    /\ LET a == FreshId(Aid, Made)
       IN  /\ analyses' = [RemoveExpired(analyses) EXCEPT ![a] = Entry(req[r].scope, AnalysisTTL)]
           /\ maker' = [maker EXCEPT ![a] = req[r].browser]
           /\ origin' = [origin EXCEPT ![a] = req[r].target]
           /\ req' = [req EXCEPT ![r].target = a, ![r].phase = "done", ![r].status = "200"]
    /\ UNCHANGED <<now, guests, uploads, limiter, cookie, sweep, issued>>

\* get_analysis, the downloads and the product-demand endpoint, which may find the
\* analysis and refuse the currency or the assumptions, or fail.
ViewAnalysis(r) ==
    /\ At(r, "view", "resolved")
    /\ LET status == GetStatus(analyses, req[r].scope, req[r].target)
       IN  /\ analyses' = AfterGet(analyses, req[r].scope, req[r].target)
           /\ \E answer \in IF status = "200" THEN {"200", "400", "500"} ELSE {status} :
                 Done(r, answer)
    /\ UNCHANGED <<now, guests, uploads, limiter, cookie, sweep, history>>

\* delete_analysis looks before it deletes.  AnalysisExpiredError is not caught.
CheckAnalysis(r) ==
    /\ At(r, "dropAnalysis", "resolved")
    /\ LET status == GetStatus(analyses, req[r].scope, req[r].target)
       IN  /\ analyses' = AfterGet(analyses, req[r].scope, req[r].target)
           /\ CASE status = "200" -> Move(r, "checked", "none")
                [] status = "404" -> Done(r, "404")
                [] status = "410" -> Done(r, "500")
    /\ UNCHANGED <<now, guests, uploads, limiter, cookie, sweep, history>>

DropAnalysis(r) ==
    /\ At(r, "dropAnalysis", "checked")
    /\ IF Owns(analyses, req[r].scope, req[r].target)
       THEN /\ analyses' = [analyses EXCEPT ![req[r].target] = None]
            /\ Done(r, "204")
       ELSE /\ analyses' = analyses
            /\ Done(r, "404")
    /\ UNCHANGED <<now, guests, uploads, limiter, cookie, sweep, history>>

DropUpload(r) ==
    /\ At(r, "dropUpload", "resolved")
    /\ IF Owns(uploads, req[r].scope, req[r].target)
       THEN /\ uploads' = [uploads EXCEPT ![req[r].target] = None]
            /\ Done(r, "204")
       ELSE /\ uploads' = uploads
            /\ Done(r, "404")
    /\ UNCHANGED <<now, guests, analyses, limiter, cookie, sweep, history>>

\* attach_guest_session, after call_next: set_cookie if the session is new.
Respond(r) ==
    /\ LoopFree
    /\ req[r].phase = "done"
    /\ cookie' = IF req[r].created /\ req[r].status # "500"
                 THEN [cookie EXCEPT ![req[r].browser] = req[r].scope]
                 ELSE cookie
    /\ req' = [req EXCEPT ![r] = Idle]
    /\ UNCHANGED <<now, guests, uploads, analyses, limiter, sweep, history>>

\* The connection is gone before the response: no cookie, no id for the browser.
LoseResponse(r) ==
    /\ LoopFree
    /\ req[r].phase = "done"
    /\ req' = [req EXCEPT ![r] = Idle]
    /\ UNCHANGED <<now, guests, uploads, analyses, limiter, cookie, sweep, history>>

-----------------------------------------------------------------------------
Lapsed == {s \in Sid : guests[s] # None /\ guests[s] <= now}

\* (mistake) The analyses are left to be expired by whoever asks for them.
SkipAnalyses ==
    /\ sweep = "asleep"
    /\ sweep' = "limiter"
    /\ uploads' = RemoveExpired(uploads)
    /\ guests' = LiveGuests
    /\ Limiter!DropOwners(Lapsed)
    /\ UNCHANGED <<analyses, cookie, req, history>>

\* (mistake) The attempts of every session are dropped with the expired ones.
DropEveryScope ==
    /\ sweep = "asleep"
    /\ sweep' = "limiter"
    /\ uploads' = RemoveExpired(uploads)
    /\ analyses' = RemoveExpired(analyses)
    /\ guests' = LiveGuests
    /\ Limiter!DropOwners(scopes)
    /\ UNCHANGED <<cookie, req, history>>

\* cleanup_expired_temporary_data, with no await inside: only threads can run
\* between its calls, and none uses two of these stores at once.  Sessions that
\* resolve removed before are not found again by pop_expired.
Sweep ==
    /\ sweep = "asleep"
    /\ sweep' = "limiter"
    /\ uploads' = RemoveExpired(uploads)
    /\ analyses' = RemoveExpired(analyses)
    /\ guests' = LiveGuests
    /\ Limiter!DropOwners(Lapsed)
    /\ UNCHANGED <<cookie, req, history>>

\* The last call of the cleanup: the clock may have moved on.
SweepLimiter ==
    /\ sweep = "limiter"
    /\ sweep' = "asleep"
    /\ Limiter!CleanupExpired
    /\ UNCHANGED <<guests, uploads, analyses, cookie, req, history>>

\* The process stops, by the lifespan's clear() calls or by a crash, and starts
\* again: nothing was persisted, and the browsers keep their cookies.
Restart ==
    /\ guests' = [s \in Sid |-> None]
    /\ uploads' = [u \in Uid |-> None]
    /\ analyses' = [a \in Aid |-> None]
    /\ scopes' = {}
    /\ attempts' = [s \in Sid |-> <<>>]
    /\ log' = [s \in Sid |-> <<>>]
    /\ retry' = [s \in Sid |-> 0]
    /\ req' = [r \in Req |-> Idle]
    /\ sweep' = "asleep"
    /\ UNCHANGED <<now, cookie, history>>

Handle(r) ==
    \/ AdmitUpload(r)
    \/ DenyUpload(r)
    \/ Reject(r)
    \/ Crash(r)
    \/ StoreUpload(r)
    \/ LoadUpload(r)
    \/ StoreAnalysis(r)
    \/ ViewAnalysis(r)
    \/ CheckAnalysis(r)
    \/ DropAnalysis(r)
    \/ DropUpload(r)

Cleanup == Sweep \/ SweepLimiter

Next ==
    \/ Tick
    \/ \E r \in Req, b \in Browser, kind \in Kinds : \E x \in Targets(kind) : Arrive(r, b, kind, x)
    \/ \E r \in Req : Handle(r)
    \/ \E r \in Req : Respond(r)
    \/ \E r \in Req : LoseResponse(r)
    \/ Cleanup
    \/ Restart

Spec == Init /\ [][Next]_vars

\* The clock runs and the cleanup task wakes every minute.  A step on the event
\* loop waits while a cleanup runs, but the loop takes ready callbacks in turn, so
\* one that is ready again and again is run: strong fairness.
Fairness ==
    /\ WF_vars(Tick) /\ WF_vars(Sweep) /\ WF_vars(SweepLimiter)
    /\ \A r \in Req : SF_vars(Handle(r)) /\ SF_vars(Respond(r) \/ LoseResponse(r))

FairSpec == Spec /\ Fairness

-----------------------------------------------------------------------------
\* The stores, sessions and requests keep the shape the code gives them.
TypeOK ==
    /\ now \in 0 .. Horizon + Drain
    /\ guests \in [Sid -> Nat \cup {None}]
    /\ uploads \in [Uid -> [owner : Sid, expires_at : Nat] \cup {None}]
    /\ analyses \in [Aid -> [owner : Sid, expires_at : Nat] \cup {None}]
    /\ Limiter!TypeOK
    /\ cookie \in [Browser -> Sid \cup {None}]
    /\ req \in [Req -> Request]
    /\ sweep \in {"asleep", "limiter"}
    /\ issued \subseteq Sid
    /\ maker \in [Uid \cup Aid -> Browser \cup {None}]
    /\ origin \in [Aid -> Uid \cup {None}]

\* A browser learns nothing of what another browser's requests made, whatever
\* ids it asks for and however cookies and sessions come and go
\* (REFERENCE.md:126-127: "another browser session receives a not-found response").
Isolation ==
    \A r \in Req :
        /\ req[r].phase = "done"
        /\ req[r].target # None
        /\ req[r].status \in {"200", "204", "400", "410", "500"}
        => maker[req[r].target] = req[r].browser

\* An analysis belongs to the scope its upload belonged to, although the session
\* may expire and the browser's cookie change while the pipeline runs.
AnalysisFollowsUpload ==
    \A a \in Aid, u \in Uid :
        analyses[a] # None /\ uploads[u] # None /\ origin[a] = u =>
            analyses[a].owner = uploads[u].owner

\* What makes the two inductive.  A scope belongs to one browser: whoever has its
\* cookie, a request under it or something stored under it is that browser.
UsedBy(s, b) ==
    \/ cookie[b] = s
    \/ \E r \in Req : req[r].phase # "idle" /\ req[r].scope = s /\ req[r].browser = b
    \/ \E u \in Uid : uploads[u] # None /\ uploads[u].owner = s /\ maker[u] = b
    \/ \E a \in Aid : analyses[a] # None /\ analyses[a].owner = s /\ maker[a] = b

OneBrowserPerScope ==
    \A s \in Sid, b \in Browser : UsedBy(s, b) =>
        s \in issued /\ \A c \in Browser : UsedBy(s, c) => c = b

\* Ids that are stored, asked for or derived from were made, so that a fresh id
\* is none of them; an upload under way has none yet; and an analysis under way
\* is of an upload of its own browser, in its own scope while it is there.
Linked ==
    /\ \A u \in Uid : uploads[u] # None => u \in Made
    /\ \A a \in Aid : analyses[a] # None => a \in Made
    /\ \A a \in Aid : origin[a] # None => origin[a] \in Made
    /\ \A r \in Req : req[r].phase # "idle" =>
          /\ req[r].browser \in Browser /\ req[r].scope \in Sid
          /\ req[r].target # None => req[r].target \in Made
          /\ req[r].kind \in {"analyze", "dropUpload"} /\ req[r].phase # "done" =>
                req[r].target \in Uid
          /\ req[r].kind \in {"view", "dropAnalysis"} => req[r].target \in Aid
          /\ req[r].kind = "upload" /\ req[r].phase # "done" => req[r].target = None
          /\ At(r, "analyze", "loaded") => maker[req[r].target] = req[r].browser
          /\ At(r, "analyze", "loaded") /\ uploads[req[r].target] # None =>
                uploads[req[r].target].owner = req[r].scope

\* A session that expired or was cleared never comes back, whoever still sends
\* its cookie (guest_session.py:31-47).
NoRevival ==
    [][\A s \in issued : guests[s] = None => guests'[s] = None]_vars

\* The attempts of a session that is still alive are not forgotten, so no sweep
\* gives a guest a fresh allowance (main.py:35-38).
LiveScopesKeepCount ==
    [][\A s \in Sid :
          guests[s] # None /\ guests[s] > now /\ guests'[s] = guests[s] =>
              Len(log'[s]) >= Len(log[s])]_vars

\* When requests stop, everything a guest left behind is gone one day: sessions,
\* uploads, analyses and rate-limit entries, those of dead scopes included
\* (REFERENCE.md:127: "expired data is cleaned automatically").
NothingStays ==
    <>[](/\ \A s \in Sid : guests[s] = None
         /\ \A u \in Uid : uploads[u] = None
         /\ \A a \in Aid : analyses[a] = None
         /\ scopes = {})

-----------------------------------------------------------------------------
\* DELETE answers 204 or 404 (routes.py:537-547), and frontend/src/api.ts:146-148
\* takes anything else for a failure to remove the session.
DeletionsDoNotFail ==
    \A r \in Req : req[r].kind = "dropAnalysis" => req[r].status # "500"
=============================================================================
