----------------------------- MODULE Workspace -----------------------------
(***************************************************************************)
(* One browser tab: App.tsx and BusinessWorkspace.tsx of the frontend.     *)
(* The handlers of the workspace are asynchronous: each sends a request,   *)
(* and what it does with the answer happens later, to whatever the         *)
(* workspace has become meanwhile.  Buttons are disabled while the         *)
(* workspace is busy; the settings, the rules and the file inputs are not. *)
(* The API is outside: any request may be answered or fail.                *)
(***************************************************************************)
EXTENDS Naturals

CONSTANTS Settings,    \* mode, mapping, dates, currency: what invalidateReview guards
          WithStatus,  \* the settings that map a status column
          Rules,       \* status classes, discounts, tolerances: what clears the validation
          Upload, Analysis,  \* ids the API may still issue
          Slot,        \* bound: how many handlers are in flight
          None

ASSUME StatusAssumption == WithStatus \subseteq Settings
ASSUME ConfigurationAssumption == Settings # {} /\ Rules # {}

VARIABLES view,       \* App's view: "sources" or "workspace"
          saved,      \* sessionStorage["sales-analysis-id"], or None
          ui,         \* the state of the mounted BusinessWorkspace
          task,       \* task[k]: a handler that awaits an answer, or None
          dropped,    \* uploads whose deletion was sent
          discarded,  \* analyses whose deletion was sent
          issued      \* history: ids the API issued

vars == <<view, saved, ui, task, dropped, discarded, issued>>

Review == [upload : Upload, settings : Settings, rules : Rules]
Validation == [of : Review, can_transform : BOOLEAN, requires_confirmation : BOOLEAN]

\* quarantineConfirmed is None for false, and for true the review that was on
\* screen when the box was ticked: a history the code does not keep.
Workspaces ==
    [restoring : BOOLEAN, analysis : Analysis \cup {None}, preview : Upload \cup {None},
     settings : Settings, rules : Rules,
     mappingResult : {"none", "valid", "invalid"},
     distinct : {"idle", "loading", "ready", "error"},
     validation : Validation \cup {None}, quarantineConfirmed : Review \cup {None},
     busy : {"none", "upload", "mapping", "validation", "analysis"}]

\* What a handler holds across its await; the fields it does not capture are None.
BusyKinds == {"sample", "upload", "suggest", "mapping", "distinct", "validation", "analysis"}
FetchKinds == {"restore", "currency"}  \* of a stored analysis
Task == [kind : BusyKinds \cup FetchKinds \cup {"retry"},
         target : Analysis \cup {None},
         review : Review \cup {None},
         consent : Review \cup {None},
         mounted : BOOLEAN]  \* the component that started it is still there

ASSUME NoneAssumption == None \notin Upload \cup Analysis \cup Review \cup Validation \cup Task

Fresh(id) ==
    [restoring |-> id # None, analysis |-> None, preview |-> None,
     settings |-> CHOOSE s \in Settings : TRUE, rules |-> CHOOSE q \in Rules : TRUE,
     mappingResult |-> "none", distinct |-> "idle", validation |-> None,
     quarantineConfirmed |-> None, busy |-> "none"]

Configuration == [upload |-> ui.preview, settings |-> ui.settings, rules |-> ui.rules]

Wizard == view = "workspace" /\ ~ui.restoring /\ ui.analysis = None
Dashboard == view = "workspace" /\ ~ui.restoring /\ ui.analysis # None

\* (mistake) The buttons of the wizard are there before there is a file.
AnyWizard == Wizard

HasFile == Wizard /\ ui.preview # None
StatusValuesReady == ui.settings \in WithStatus => ui.distinct = "ready"

Handler(kind, target, review) ==
    [kind |-> kind, target |-> target, review |-> review,
     consent |-> IF kind = "analysis" THEN ui.quarantineConfirmed ELSE None,
     mounted |-> TRUE]

Starts(k, kind, target, review) ==
    /\ task[k] = None
    /\ task' = [task EXCEPT ![k] = Handler(kind, target, review)]

Awaits(k, kind) == task[k] # None /\ task[k].kind = kind
Ends(k) == task' = [task EXCEPT ![k] = None]
NewId(S) == CHOOSE x \in S : x \notin issued

\* deleteUpload, sent and forgotten; there is nothing to send without a file.
Drop(u) == dropped' = IF u = None THEN dropped ELSE dropped \cup {u}

-----------------------------------------------------------------------------
Init ==
    /\ view = "sources"
    /\ saved = None
    /\ ui = Fresh(None)
    /\ task = [k \in Slot |-> None]
    /\ dropped = {}
    /\ discarded = {}
    /\ issued = {}

\* App: the buttons of the source selection forget the analysis of before.
SelectUpload ==
    /\ view = "sources"
    /\ view' = "workspace"
    /\ saved' = None
    /\ ui' = Fresh(None)
    /\ UNCHANGED <<task, dropped, discarded, issued>>

SelectSample(k) ==
    /\ view = "sources"
    /\ view' = "workspace"
    /\ saved' = None
    /\ ui' = [Fresh(None) EXCEPT !.busy = "upload"]
    /\ Starts(k, "sample", None, None)
    /\ UNCHANGED <<dropped, discarded, issued>>

\* The component is unmounted.  Of the handlers in flight only an analysis has
\* effects outside of it: it goes on.
Back ==
    /\ Wizard \/ Dashboard
    /\ view' = "sources"
    /\ ui' = Fresh(None)
    /\ task' = [k \in Slot |-> IF Awaits(k, "analysis")
                               THEN [task[k] EXCEPT !.mounted = FALSE] ELSE None]
    /\ UNCHANGED <<saved, dropped, discarded, issued>>

\* The page is loaded again: no handler survives, sessionStorage does.
Reload ==
    /\ ui' = Fresh(saved)
    /\ IF saved = None
       THEN view' = "sources" /\ task' = [k \in Slot |-> None]
       ELSE /\ view' = "workspace"
            /\ \E k \in Slot :
                  task' = [j \in Slot |->
                             IF j = k THEN Handler("restore", saved, None) ELSE None]
    /\ UNCHANGED <<saved, dropped, discarded, issued>>

RestoreAnswered(k, ok) ==
    /\ Awaits(k, "restore")
    /\ Ends(k)
    /\ ui' = [ui EXCEPT !.restoring = FALSE, !.analysis = IF ok THEN task[k].target ELSE @]
    /\ saved' = IF ok THEN saved ELSE None
    /\ UNCHANGED <<view, dropped, discarded, issued>>

-----------------------------------------------------------------------------
\* handleFile.  The file inputs are never disabled for long: a file can be
\* dropped, or replaced, whatever is in flight.
ChooseFile(k) ==
    /\ Wizard
    /\ ui' = [ui EXCEPT !.busy = "upload"]
    /\ Drop(ui.preview)
    /\ Starts(k, "upload", None, None)
    /\ UNCHANGED <<view, saved, discarded, issued>>

\* The sample arrives, and handleFile is called with it.
SampleArrives(k) ==
    /\ Awaits(k, "sample")
    /\ ui' = [ui EXCEPT !.busy = "upload"]
    /\ Drop(ui.preview)
    /\ task' = [task EXCEPT ![k].kind = "upload"]
    /\ UNCHANGED <<view, saved, discarded, issued>>

\* The new file is on screen, the review of the old one is still there.
UploadAnswered(k, s) ==
    /\ Awaits(k, "upload")
    /\ Upload \ issued # {}
    /\ LET u == NewId(Upload)
       IN  /\ issued' = issued \cup {u}
           /\ ui' = [ui EXCEPT !.preview = u, !.settings = s]
           /\ task' = [task EXCEPT ![k].kind = "suggest"]
    /\ UNCHANGED <<view, saved, dropped, discarded>>

SuggestionsAnswered(k, s, q) ==
    /\ Awaits(k, "suggest")
    /\ Ends(k)
    /\ ui' = [ui EXCEPT !.mappingResult = "none", !.validation = None, !.quarantineConfirmed = None,
                        !.distinct = "idle", !.settings = s, !.rules = q, !.busy = "none"]
    /\ UNCHANGED <<view, saved, dropped, discarded, issued>>

\* (mistake) The spinner is cleared after the try block, not in its finally.
FailBusily(k) ==
    /\ task[k] # None
    /\ task[k].kind \in {"sample", "upload", "suggest", "validation"}
    /\ Ends(k)
    /\ UNCHANGED <<view, saved, ui, dropped, discarded, issued>>

\* A handler that leaves everything but busy as it is when its request fails.
Fail(k) ==
    /\ task[k] # None
    /\ task[k].kind \in {"sample", "upload", "suggest", "mapping", "validation"}
    /\ Ends(k)
    /\ ui' = [ui EXCEPT !.busy = "none"]
    /\ UNCHANGED <<view, saved, dropped, discarded, issued>>

-----------------------------------------------------------------------------
\* A change of mode, mapping, dates or currency: invalidateReview.  Unmapping a
\* status or a discount column resets rules as well.
EditSettings(s, q) ==
    /\ HasFile
    /\ s # ui.settings
    /\ ui' = [ui EXCEPT !.settings = s, !.rules = q, !.mappingResult = "none",
                        !.validation = None, !.quarantineConfirmed = None, !.distinct = "idle"]
    /\ UNCHANGED <<view, saved, task, dropped, discarded, issued>>

\* A change in the rules panel clears the validation, not the confirmation.
EditRules(q) ==
    /\ HasFile
    /\ ui.mappingResult = "valid"
    /\ q # ui.rules
    /\ ui' = [ui EXCEPT !.rules = q, !.validation = None]
    /\ UNCHANGED <<view, saved, task, dropped, discarded, issued>>

CheckMapping(k) ==
    /\ HasFile
    /\ ui.busy = "none"
    /\ ui' = [ui EXCEPT !.busy = "mapping"]
    /\ Starts(k, "mapping", None, Configuration)
    /\ UNCHANGED <<view, saved, dropped, discarded, issued>>

\* With status columns mapped at the click, their values are fetched next.
MappingAnswered(k, valid) ==
    /\ Awaits(k, "mapping")
    /\ LET more == valid /\ task[k].review.settings \in WithStatus
       IN  /\ ui' = [ui EXCEPT !.mappingResult = IF valid THEN "valid" ELSE "invalid",
                               !.validation = None,
                               !.distinct = IF more THEN "loading" ELSE "idle",
                               !.busy = IF more THEN @ ELSE "none"]
           /\ task' = [task EXCEPT ![k] = IF more THEN [@ EXCEPT !.kind = "distinct"] ELSE None]
    /\ UNCHANGED <<view, saved, dropped, discarded, issued>>

RetryDistinct(k) ==
    /\ HasFile
    /\ ui.mappingResult = "valid" /\ ui.settings \in WithStatus /\ ui.distinct = "error"
    /\ ui' = [ui EXCEPT !.distinct = "loading"]
    /\ Starts(k, "retry", None, Configuration)
    /\ UNCHANGED <<view, saved, dropped, discarded, issued>>

\* loadDistinctStatusValues; a retry does not make the workspace busy.
DistinctAnswered(k, ok) ==
    /\ Awaits(k, "distinct") \/ Awaits(k, "retry")
    /\ Ends(k)
    /\ ui' = [ui EXCEPT !.distinct = IF ok THEN "ready" ELSE "error",
                        !.busy = IF task[k].kind = "distinct" THEN "none" ELSE @]
    /\ UNCHANGED <<view, saved, dropped, discarded, issued>>

CheckRows(k) ==
    /\ HasFile
    /\ ui.busy = "none"
    /\ ui.mappingResult = "valid" /\ ui.validation = None /\ StatusValuesReady
    /\ ui' = [ui EXCEPT !.busy = "validation"]
    /\ Starts(k, "validation", None, Configuration)
    /\ UNCHANGED <<view, saved, dropped, discarded, issued>>

\* (mistake) A new validation leaves the box as it was.
KeepTick(k, can, asks) ==
    /\ Awaits(k, "validation")
    /\ asks => can
    /\ Ends(k)
    /\ ui' = [ui EXCEPT !.busy = "none",
                        !.validation = [of |-> task[k].review, can_transform |-> can,
                                        requires_confirmation |-> asks]]
    /\ UNCHANGED <<view, saved, dropped, discarded, issued>>

RowsAnswered(k, can, asks) ==
    /\ Awaits(k, "validation")
    /\ asks => can
    /\ Ends(k)
    /\ ui' = [ui EXCEPT !.busy = "none", !.quarantineConfirmed = None,
                        !.validation = [of |-> task[k].review, can_transform |-> can,
                                        requires_confirmation |-> asks]]
    /\ UNCHANGED <<view, saved, dropped, discarded, issued>>

Confirm ==
    /\ HasFile
    /\ ui.mappingResult = "valid" /\ ui.validation # None
    /\ ui.validation.requires_confirmation
    /\ ui' = [ui EXCEPT !.quarantineConfirmed = IF @ = None THEN ui.validation.of ELSE None]
    /\ UNCHANGED <<view, saved, task, dropped, discarded, issued>>

\* handleAnalyze sends the configuration and the tick of the moment.
Analyze(k) ==
    /\ HasFile
    /\ ui.busy = "none"
    /\ ui.mappingResult = "valid" /\ ui.validation # None
    /\ ui.validation.can_transform
    /\ ui.validation.requires_confirmation => ui.quarantineConfirmed # None
    /\ ui' = [ui EXCEPT !.busy = "analysis"]
    /\ Starts(k, "analysis", None, Configuration)
    /\ UNCHANGED <<view, saved, dropped, discarded, issued>>

\* sessionStorage is written and the upload deleted even if nobody looks any more.
AnalysisAnswered(k) ==
    /\ Awaits(k, "analysis")
    /\ Analysis \ issued # {}
    /\ Ends(k)
    /\ LET a == NewId(Analysis)
       IN  /\ issued' = issued \cup {a}
           /\ saved' = a
           /\ ui' = IF task[k].mounted
                    THEN [ui EXCEPT !.analysis = a, !.busy = "none"] ELSE ui
    /\ Drop(task[k].review.upload)
    /\ UNCHANGED <<view, discarded>>

AnalysisFails(k) ==
    /\ Awaits(k, "analysis")
    /\ Ends(k)
    /\ ui' = IF task[k].mounted THEN [ui EXCEPT !.busy = "none"] ELSE ui
    /\ UNCHANGED <<view, saved, dropped, discarded, issued>>

\* (mistake) The dashboard stays on screen while the currency is switched.
SwitchInPlace(k) ==
    /\ Dashboard
    /\ Starts(k, "currency", ui.analysis, None)
    /\ UNCHANGED <<view, saved, ui, dropped, discarded, issued>>

SwitchCurrency(k) ==
    /\ Dashboard
    /\ ui' = [ui EXCEPT !.restoring = TRUE]
    /\ Starts(k, "currency", ui.analysis, None)
    /\ UNCHANGED <<view, saved, dropped, discarded, issued>>

CurrencyAnswered(k, ok) ==
    /\ Awaits(k, "currency")
    /\ Ends(k)
    /\ ui' = [ui EXCEPT !.restoring = FALSE, !.analysis = IF ok THEN task[k].target ELSE @]
    /\ UNCHANGED <<view, saved, dropped, discarded, issued>>

\* resetWorkspace: the analysis is forgotten, and deleted without waiting.
NewDataset ==
    /\ Dashboard
    /\ saved' = None
    /\ discarded' = discarded \cup {ui.analysis}
    /\ \E s \in Settings, q \in Rules :
          ui' = [ui EXCEPT !.analysis = None, !.preview = None, !.mappingResult = "none",
                           !.validation = None, !.quarantineConfirmed = None, !.distinct = "idle",
                           !.settings = s, !.rules = q]
    /\ UNCHANGED <<view, task, dropped, issued>>

Answered(k) ==
    \/ \E ok \in BOOLEAN : RestoreAnswered(k, ok) \/ DistinctAnswered(k, ok) \/ CurrencyAnswered(k, ok)
    \/ SampleArrives(k)
    \/ \E s \in Settings : UploadAnswered(k, s)
    \/ \E s \in Settings, q \in Rules : SuggestionsAnswered(k, s, q)
    \/ \E valid \in BOOLEAN : MappingAnswered(k, valid)
    \/ \E can, asks \in BOOLEAN : RowsAnswered(k, can, asks)
    \/ AnalysisAnswered(k)
    \/ Fail(k)
    \/ AnalysisFails(k)

Clicks(k) ==
    \/ SelectSample(k)
    \/ ChooseFile(k)
    \/ CheckMapping(k)
    \/ RetryDistinct(k)
    \/ CheckRows(k)
    \/ Analyze(k)
    \/ SwitchCurrency(k)

Next ==
    \/ SelectUpload
    \/ Back
    \/ Reload
    \/ \E s \in Settings, q \in Rules : EditSettings(s, q)
    \/ \E q \in Rules : EditRules(q)
    \/ Confirm
    \/ NewDataset
    \/ \E k \in Slot : Clicks(k)
    \/ \E k \in Slot : Answered(k)

Spec == Init /\ [][Next]_vars

-----------------------------------------------------------------------------
\* The workspace, the handlers and the storage keep their shape.
TypeOK ==
    /\ view \in {"sources", "workspace"}
    /\ saved \in Analysis \cup {None}
    /\ ui \in Workspaces
    /\ task \in [Slot -> Task \cup {None}]
    /\ dropped \subseteq Upload
    /\ discarded \subseteq Analysis
    /\ issued \subseteq Upload \cup Analysis

\* A tick that is still set beside a validation was made on that very validation,
\* although changed rules do not take it back (BusinessWorkspace.tsx:383-384).
TickIsForThisReview ==
    ui.quarantineConfirmed # None /\ ui.validation # None =>
        ui.quarantineConfirmed = ui.validation.of

InFlight(kinds) == \E k \in Slot : task[k] # None /\ task[k].mounted /\ task[k].kind \in kinds

\* Whatever fails and in whatever order answers come, the workspace never waits
\* for an answer that no handler awaits (the finally blocks, :282-389).
NoStuckSpinner ==
    /\ ui.busy # "none" => InFlight(BusyKinds)
    /\ ui.restoring => InFlight(FetchKinds)
    /\ ui.distinct = "loading" => InFlight({"distinct", "retry"})

\* An analysis the user replaced is neither shown nor restored again, whatever
\* answers come late (:287-297, 416-434).
NothingDiscardedReturns == saved \notin discarded /\ ui.analysis \notin discarded

-----------------------------------------------------------------------------
\* What makes the invariants above inductive: a handler holds what its kind of
\* request needs; only an analysis outlives its component; while an analysis is
\* fetched, by one handler, nothing else of the dashboard can be used, so that
\* what is fetched is not deleted meanwhile; ids come from the API.
Linked ==
    /\ discarded \subseteq issued
    /\ saved # None => saved \in issued
    /\ ui.analysis # None => ui.analysis \in issued
    /\ \A k \in Slot : task[k] # None =>
          /\ task[k].kind \in {"mapping", "distinct", "retry", "validation", "analysis"} =>
                task[k].review # None
          /\ task[k].kind # "analysis" => task[k].mounted /\ view = "workspace"
          /\ task[k].kind \in FetchKinds =>
                ui.restoring /\ task[k].target \in issued \ discarded
    /\ \A j, k \in Slot :
          /\ task[j] # None /\ task[j].kind \in FetchKinds
          /\ task[k] # None /\ task[k].kind \in FetchKinds
          => j = k

-----------------------------------------------------------------------------
\* Rows are quarantined only with consent: the configuration that is analysed is
\* the one whose review the user agreed to.
ConsentCoversAnalysis ==
    \A k \in Slot :
        Awaits(k, "analysis") /\ task[k].consent # None => task[k].consent = task[k].review
=============================================================================
