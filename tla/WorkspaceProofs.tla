-------------------------- MODULE WorkspaceProofs --------------------------
(***************************************************************************)
(* Workspace, proved for any number of handlers in flight, settings, rules *)
(* and ids.                                                                *)
(***************************************************************************)
EXTENDS Workspace, TLAPS

\* The steps of Next, one disjunct per handler or answer.
LEMMA Steps ==
    ASSUME [Next]_vars
    PROVE  \/ SelectUpload
           \/ \E k \in Slot : SelectSample(k)
           \/ Back
           \/ Reload
           \/ \E k \in Slot, ok \in BOOLEAN : RestoreAnswered(k, ok)
           \/ \E k \in Slot : ChooseFile(k)
           \/ \E k \in Slot : SampleArrives(k)
           \/ \E k \in Slot, s \in Settings : UploadAnswered(k, s)
           \/ \E k \in Slot, s \in Settings, q \in Rules : SuggestionsAnswered(k, s, q)
           \/ \E k \in Slot : Fail(k)
           \/ \E s \in Settings, q \in Rules : EditSettings(s, q)
           \/ \E q \in Rules : EditRules(q)
           \/ \E k \in Slot : CheckMapping(k)
           \/ \E k \in Slot, valid \in BOOLEAN : MappingAnswered(k, valid)
           \/ \E k \in Slot : RetryDistinct(k)
           \/ \E k \in Slot, ok \in BOOLEAN : DistinctAnswered(k, ok)
           \/ \E k \in Slot : CheckRows(k)
           \/ \E k \in Slot, can, asks \in BOOLEAN : RowsAnswered(k, can, asks)
           \/ Confirm
           \/ \E k \in Slot : Analyze(k)
           \/ \E k \in Slot : AnalysisAnswered(k)
           \/ \E k \in Slot : AnalysisFails(k)
           \/ \E k \in Slot : SwitchCurrency(k)
           \/ \E k \in Slot, ok \in BOOLEAN : CurrencyAnswered(k, ok)
           \/ NewDataset
           \/ UNCHANGED vars
BY DEF Next, Answered, Clicks

\* The API issues an id it has not issued before.
LEMMA NewIdIsNew ==
    ASSUME NEW S, S \ issued # {}
    PROVE  NewId(S) \in S /\ NewId(S) \notin issued
BY DEF NewId

\* A component is mounted in a proper state.
LEMMA FreshIsWorkspace == \A id : Fresh(id) \in Workspaces
BY ConfigurationAssumption DEF Fresh, Workspaces

\* A handler starts with a proper closure.
LEMMA HandlerIsTask ==
    ASSUME TypeOK,
           NEW kind \in BusyKinds \cup FetchKinds \cup {"retry"},
           NEW target \in Analysis \cup {None}, NEW review \in Review \cup {None}
    PROVE  Handler(kind, target, review) \in Task
BY DEF TypeOK, Workspaces, Handler, Task

\* With a file on screen there is a configuration to send.
LEMMA ConfigurationIsReview == TypeOK /\ HasFile => Configuration \in Review
BY DEF TypeOK, Workspaces, HasFile, Configuration, Review

-----------------------------------------------------------------------------
\* Leaving the component keeps a closure proper.
LEMMA UnmountedIsTask == \A t \in Task : [t EXCEPT !.mounted = FALSE] \in Task
<1> TAKE t \in Task
<1> QED BY DEF Task

\* The source selection is in shape.
LEMMA InitTypeOK == Init => TypeOK
BY FreshIsWorkspace DEF Init, TypeOK

\* Every handler and every answer keeps the shape; what a validation or an analysis
\* stores has the shape of a review because its handler captured one (Linked).
LEMMA StepTypeOK == ASSUME TypeOK, Linked, [Next]_vars PROVE TypeOK'
<1> USE NoneAssumption DEF TypeOK, Workspaces, BusyKinds, FetchKinds
<1>1. CASE SelectUpload
  BY <1>1, FreshIsWorkspace DEF SelectUpload
<1>2. CASE \E k \in Slot : SelectSample(k)
  BY <1>2, FreshIsWorkspace, HandlerIsTask DEF SelectSample, Starts
<1>3. ASSUME Back PROVE TypeOK'
  <2>1. ui' \in Workspaces
    BY <1>3, FreshIsWorkspace DEF Back, Awaits, Task
  <2>2. \A k \in Slot : task[k] # None => [task[k] EXCEPT !.mounted = FALSE] \in Task
    BY UnmountedIsTask
  <2>3. task' \in [Slot -> Task \cup {None}]
    BY <1>3, <2>2 DEF Back, Awaits
  <2> QED
    BY <1>3, <2>1, <2>3 DEF Back
<1>4. CASE Reload
  BY <1>4, FreshIsWorkspace, HandlerIsTask DEF Reload
<1>5. ASSUME NEW k \in Slot, NEW ok \in BOOLEAN, RestoreAnswered(k, ok) PROVE TypeOK'
  <2>1. ui' \in Workspaces
    BY <1>5 DEF RestoreAnswered, Ends, Awaits, Task
  <2>2. task' \in [Slot -> Task \cup {None}]
    BY <1>5 DEF RestoreAnswered, Ends, Awaits, Task
  <2> QED
    BY <1>5, <2>1, <2>2 DEF RestoreAnswered, Ends, Awaits, Task
<1>6. CASE \E k \in Slot : ChooseFile(k)
  BY <1>6, HandlerIsTask DEF ChooseFile, Starts, Drop, HasFile, Wizard
<1>7. CASE \E k \in Slot : SampleArrives(k)
  BY <1>7 DEF SampleArrives, Drop, Awaits, Task
<1>8. ASSUME NEW k \in Slot, NEW s \in Settings, UploadAnswered(k, s) PROVE TypeOK'
  <2>1. ui' \in Workspaces
    BY <1>8, NewIdIsNew DEF UploadAnswered, Awaits, Task
  <2>2. task' \in [Slot -> Task \cup {None}]
    BY <1>8, NewIdIsNew DEF UploadAnswered, Awaits, Task
  <2> QED
    BY <1>8, NewIdIsNew, <2>1, <2>2 DEF UploadAnswered, Awaits, Task
<1>9. ASSUME NEW k \in Slot, NEW s \in Settings, NEW q \in Rules, SuggestionsAnswered(k, s, q)
      PROVE  TypeOK'
  <2>1. ui' \in Workspaces
    BY <1>9 DEF SuggestionsAnswered, Ends
  <2>2. task' \in [Slot -> Task \cup {None}]
    BY <1>9 DEF SuggestionsAnswered, Ends
  <2> QED
    BY <1>9, <2>1, <2>2 DEF SuggestionsAnswered, Ends
<1>10. CASE \E k \in Slot : Fail(k)
  BY <1>10 DEF Fail, Ends
<1>11. ASSUME NEW s \in Settings, NEW q \in Rules, EditSettings(s, q) PROVE TypeOK'
  <2>1. ui' \in Workspaces
    BY <1>11 DEF EditSettings
  <2>2. task' \in [Slot -> Task \cup {None}]
    BY <1>11 DEF EditSettings
  <2> QED
    BY <1>11, <2>1, <2>2 DEF EditSettings
<1>12. CASE \E q \in Rules : EditRules(q)
  BY <1>12 DEF EditRules
<1>13. CASE \E k \in Slot : CheckMapping(k)
  BY <1>13, HandlerIsTask, ConfigurationIsReview DEF CheckMapping, Starts
<1>14. ASSUME NEW k \in Slot, NEW valid \in BOOLEAN, MappingAnswered(k, valid) PROVE TypeOK'
  <2>1. ui' \in Workspaces
    BY <1>14 DEF MappingAnswered, Awaits, Task
  <2>2. task' \in [Slot -> Task \cup {None}]
    BY <1>14 DEF MappingAnswered, Awaits, Task
  <2> QED
    BY <1>14, <2>1, <2>2 DEF MappingAnswered, Awaits, Task
<1>15. CASE \E k \in Slot : RetryDistinct(k)
  BY <1>15, HandlerIsTask, ConfigurationIsReview DEF RetryDistinct, Starts
<1>16. ASSUME NEW k \in Slot, NEW ok \in BOOLEAN, DistinctAnswered(k, ok) PROVE TypeOK'
  <2>1. ui' \in Workspaces
    BY <1>16 DEF DistinctAnswered, Ends
  <2>2. task' \in [Slot -> Task \cup {None}]
    BY <1>16 DEF DistinctAnswered, Ends
  <2> QED
    BY <1>16, <2>1, <2>2 DEF DistinctAnswered, Ends
<1>17. CASE \E k \in Slot : CheckRows(k)
  BY <1>17, HandlerIsTask, ConfigurationIsReview DEF CheckRows, Starts
<1>18. ASSUME NEW k \in Slot, NEW can \in BOOLEAN, NEW asks \in BOOLEAN, RowsAnswered(k, can, asks)
      PROVE  TypeOK'
  <2>1. ui' \in Workspaces
    BY <1>18 DEF RowsAnswered, Ends, Awaits, Task, Linked, Validation
  <2>2. task' \in [Slot -> Task \cup {None}]
    BY <1>18 DEF RowsAnswered, Ends, Awaits, Task, Linked, Validation
  <2> QED
    BY <1>18, <2>1, <2>2 DEF RowsAnswered, Ends, Awaits, Task, Linked, Validation
<1>19. CASE Confirm
  BY <1>19 DEF Confirm, Validation
<1>20. CASE \E k \in Slot : Analyze(k)
  BY <1>20, HandlerIsTask, ConfigurationIsReview DEF Analyze, Starts
<1>21. ASSUME NEW k \in Slot, AnalysisAnswered(k) PROVE TypeOK'
  <2>1. ui' \in Workspaces
    BY <1>21, NewIdIsNew DEF AnalysisAnswered, Ends, Awaits, Drop, Task, Linked, Review
  <2>2. task' \in [Slot -> Task \cup {None}]
    BY <1>21, NewIdIsNew DEF AnalysisAnswered, Ends, Awaits, Drop, Task, Linked, Review
  <2> QED
    BY <1>21, NewIdIsNew, <2>1, <2>2 DEF AnalysisAnswered, Ends, Awaits, Drop, Task, Linked,
       Review
<1>22. CASE \E k \in Slot : AnalysisFails(k)
  BY <1>22 DEF AnalysisFails, Ends
<1>23. ASSUME NEW k \in Slot, SwitchCurrency(k) PROVE TypeOK'
  <2>1. ui' \in Workspaces
    BY <1>23, HandlerIsTask DEF SwitchCurrency, Starts, Dashboard
  <2>2. task' \in [Slot -> Task \cup {None}]
    BY <1>23, HandlerIsTask DEF SwitchCurrency, Starts, Dashboard
  <2> QED
    BY <1>23, HandlerIsTask, <2>1, <2>2 DEF SwitchCurrency, Starts, Dashboard
<1>24. ASSUME NEW k \in Slot, NEW ok \in BOOLEAN, CurrencyAnswered(k, ok) PROVE TypeOK'
  <2>1. ui' \in Workspaces
    BY <1>24 DEF CurrencyAnswered, Ends, Awaits, Task
  <2>2. task' \in [Slot -> Task \cup {None}]
    BY <1>24 DEF CurrencyAnswered, Ends, Awaits, Task
  <2> QED
    BY <1>24, <2>1, <2>2 DEF CurrencyAnswered, Ends, Awaits, Task
<1>25. ASSUME NewDataset PROVE TypeOK'
  <2>1. PICK s \in Settings, q \in Rules : ui' = [ui EXCEPT !.analysis = None, !.preview = None, !.mappingResult = "none",
                           !.validation = None, !.quarantineConfirmed = None, !.distinct = "idle",
                           !.settings = s, !.rules = q]
    BY <1>25 DEF NewDataset
  <2>2. ui' \in Workspaces
    BY <2>1
  <2>3. task' \in [Slot -> Task \cup {None}]
    BY <1>25 DEF NewDataset, Dashboard
  <2> QED
    BY <1>25, <2>2, <2>3 DEF NewDataset, Dashboard
<1>26. CASE UNCHANGED vars
  BY <1>26 DEF vars
<1> QED BY <1>1, <1>2, <1>3, <1>4, <1>5, <1>6, <1>7, <1>8, <1>9, <1>10, <1>11, <1>12, <1>13,
   <1>14, <1>15, <1>16, <1>17, <1>18, <1>19, <1>20, <1>21, <1>22, <1>23, <1>24, <1>25,
   <1>26, Steps

-----------------------------------------------------------------------------
\* Handlers keep what they need and what they fetch, step by step.
LEMMA StepLinked == ASSUME TypeOK, Linked, NothingDiscardedReturns, [Next]_vars PROVE Linked'
<1> USE NoneAssumption DEF TypeOK, Linked, NothingDiscardedReturns, BusyKinds, FetchKinds
<1>1. ASSUME SelectUpload PROVE Linked'
  BY <1>1 DEF SelectUpload, Fresh
<1>2. ASSUME NEW k \in Slot, SelectSample(k) PROVE Linked'
  BY <1>2 DEF SelectSample, Fresh, Starts, Handler
<1>3. ASSUME Back PROVE Linked'
  BY <1>3 DEF Back, Fresh, Awaits
<1>4. ASSUME Reload PROVE Linked'
  <2>1. /\ UNCHANGED <<discarded, issued, saved>>
        /\ ui'.analysis = None /\ (ui'.restoring <=> saved # None)
    BY <1>4 DEF Reload, Fresh
  <2>2. CASE saved = None
    BY <1>4, <2>1, <2>2 DEF Reload
  <2>3. CASE saved # None
    <3>1. PICK k \in Slot : task' = [j \in Slot |->
                            IF j = k THEN Handler("restore", saved, None) ELSE None]
      BY <1>4, <2>3 DEF Reload
    <3>2. /\ Handler("restore", saved, None).target = saved
          /\ Handler("restore", saved, None).mounted
          /\ Handler("restore", saved, None).kind = "restore"
      BY DEF Handler
    <3>3. view' = "workspace" /\ saved \in issued \ discarded
      BY <1>4, <2>3 DEF Reload
    <3> QED BY <2>1, <2>3, <3>1, <3>2, <3>3
  <2> QED BY <2>2, <2>3
<1>5. ASSUME NEW k \in Slot, NEW ok \in BOOLEAN, RestoreAnswered(k, ok) PROVE Linked'
  BY <1>5 DEF RestoreAnswered, Ends, Awaits
<1>6. ASSUME NEW k \in Slot, ChooseFile(k) PROVE Linked'
  BY <1>6 DEF ChooseFile, Starts, Handler, Drop, Wizard
<1>7. ASSUME NEW k \in Slot, SampleArrives(k) PROVE Linked'
  BY <1>7 DEF SampleArrives, Awaits
<1>8. ASSUME NEW k \in Slot, NEW s \in Settings, UploadAnswered(k, s) PROVE Linked'
  BY <1>8, NewIdIsNew DEF UploadAnswered, Awaits
<1>9. ASSUME NEW k \in Slot, NEW s \in Settings, NEW q \in Rules, SuggestionsAnswered(k, s, q)
      PROVE  Linked'
  BY <1>9 DEF SuggestionsAnswered, Awaits, Ends
<1>10. ASSUME NEW k \in Slot, Fail(k) PROVE Linked'
  BY <1>10 DEF Fail, Ends
<1>11. ASSUME NEW s \in Settings, NEW q \in Rules, EditSettings(s, q) PROVE Linked'
  BY <1>11 DEF EditSettings
<1>12. ASSUME NEW q \in Rules, EditRules(q) PROVE Linked'
  BY <1>12 DEF EditRules
<1>13. ASSUME NEW k \in Slot, CheckMapping(k) PROVE Linked'
  BY <1>13, ConfigurationIsReview DEF CheckMapping, Starts, Handler, HasFile, Wizard
<1>14. ASSUME NEW k \in Slot, NEW valid \in BOOLEAN, MappingAnswered(k, valid) PROVE Linked'
  BY <1>14 DEF MappingAnswered, Awaits
<1>15. ASSUME NEW k \in Slot, RetryDistinct(k) PROVE Linked'
  BY <1>15, ConfigurationIsReview DEF RetryDistinct, Starts, Handler, HasFile, Wizard
<1>16. ASSUME NEW k \in Slot, NEW ok \in BOOLEAN, DistinctAnswered(k, ok) PROVE Linked'
  BY <1>16 DEF DistinctAnswered, Ends, Awaits
<1>17. ASSUME NEW k \in Slot, CheckRows(k) PROVE Linked'
  BY <1>17, ConfigurationIsReview DEF CheckRows, Starts, Handler, HasFile, Wizard
<1>18. ASSUME NEW k \in Slot, NEW can \in BOOLEAN, NEW asks \in BOOLEAN, RowsAnswered(k, can, asks)
      PROVE  Linked'
  BY <1>18 DEF RowsAnswered, Ends
<1>19. ASSUME Confirm PROVE Linked'
  BY <1>19 DEF Confirm
<1>20. ASSUME NEW k \in Slot, Analyze(k) PROVE Linked'
  BY <1>20, ConfigurationIsReview DEF Analyze, Starts, Handler, HasFile, Wizard
<1>21. ASSUME NEW k \in Slot, AnalysisAnswered(k) PROVE Linked'
  BY <1>21, NewIdIsNew DEF AnalysisAnswered, Ends, Awaits
<1>22. ASSUME NEW k \in Slot, AnalysisFails(k) PROVE Linked'
  BY <1>22 DEF AnalysisFails, Ends
<1>23. ASSUME NEW k \in Slot, SwitchCurrency(k) PROVE Linked'
  BY <1>23 DEF SwitchCurrency, Starts, Handler, Dashboard, Workspaces
<1>24. ASSUME NEW k \in Slot, NEW ok \in BOOLEAN, CurrencyAnswered(k, ok) PROVE Linked'
  BY <1>24 DEF CurrencyAnswered, Ends, Awaits
<1>25. ASSUME NewDataset PROVE Linked'
  BY <1>25 DEF NewDataset, Dashboard
<1>26. CASE UNCHANGED vars
  BY <1>26 DEF vars
<1> QED
  BY <1>1, <1>2, <1>3, <1>4, <1>5, <1>6, <1>7, <1>8, <1>9, <1>10, <1>11, <1>12, <1>13,
     <1>14, <1>15, <1>16, <1>17, <1>18, <1>19, <1>20, <1>21, <1>22, <1>23, <1>24, <1>25,
     <1>26, Steps

\* Only Confirm sets the tick, and a new validation takes it back.
LEMMA StepTick == ASSUME TypeOK, TickIsForThisReview, [Next]_vars PROVE TickIsForThisReview'
<1> USE NoneAssumption DEF TypeOK, Workspaces, TickIsForThisReview
<1>1. ASSUME SelectUpload PROVE TickIsForThisReview'
  BY <1>1 DEF SelectUpload, Fresh
<1>2. ASSUME NEW k \in Slot, SelectSample(k) PROVE TickIsForThisReview'
  BY <1>2 DEF SelectSample, Fresh, Starts, Handler
<1>3. ASSUME Back PROVE TickIsForThisReview'
  BY <1>3 DEF Back, Fresh, Awaits
<1>4. ASSUME Reload PROVE TickIsForThisReview'
  BY <1>4 DEF Reload, Fresh, Handler
<1>5. ASSUME NEW k \in Slot, NEW ok \in BOOLEAN, RestoreAnswered(k, ok)
      PROVE  TickIsForThisReview'
  BY <1>5 DEF RestoreAnswered, Ends, Awaits
<1>6. ASSUME NEW k \in Slot, ChooseFile(k) PROVE TickIsForThisReview'
  BY <1>6 DEF ChooseFile, Starts, Handler, Drop, Wizard
<1>7. ASSUME NEW k \in Slot, SampleArrives(k) PROVE TickIsForThisReview'
  BY <1>7 DEF SampleArrives, Awaits
<1>8. ASSUME NEW k \in Slot, NEW s \in Settings, UploadAnswered(k, s)
      PROVE  TickIsForThisReview'
  BY <1>8 DEF UploadAnswered, Awaits
<1>9. ASSUME NEW k \in Slot, NEW s \in Settings, NEW q \in Rules, SuggestionsAnswered(k, s, q)
      PROVE  TickIsForThisReview'
  BY <1>9 DEF SuggestionsAnswered, Awaits, Ends
<1>10. ASSUME NEW k \in Slot, Fail(k) PROVE TickIsForThisReview'
  BY <1>10 DEF Fail, Ends
<1>11. ASSUME NEW s \in Settings, NEW q \in Rules, EditSettings(s, q)
      PROVE  TickIsForThisReview'
  BY <1>11 DEF EditSettings
<1>12. ASSUME NEW q \in Rules, EditRules(q) PROVE TickIsForThisReview'
  BY <1>12 DEF EditRules
<1>13. ASSUME NEW k \in Slot, CheckMapping(k) PROVE TickIsForThisReview'
  BY <1>13 DEF CheckMapping, Starts, Handler, HasFile, Wizard
<1>14. ASSUME NEW k \in Slot, NEW valid \in BOOLEAN, MappingAnswered(k, valid)
      PROVE  TickIsForThisReview'
  BY <1>14 DEF MappingAnswered, Awaits
<1>15. ASSUME NEW k \in Slot, RetryDistinct(k) PROVE TickIsForThisReview'
  BY <1>15 DEF RetryDistinct, Starts, Handler, HasFile, Wizard
<1>16. ASSUME NEW k \in Slot, NEW ok \in BOOLEAN, DistinctAnswered(k, ok)
      PROVE  TickIsForThisReview'
  BY <1>16 DEF DistinctAnswered, Ends, Awaits
<1>17. ASSUME NEW k \in Slot, CheckRows(k) PROVE TickIsForThisReview'
  BY <1>17 DEF CheckRows, Starts, Handler, HasFile, Wizard
<1>18. ASSUME NEW k \in Slot, NEW can \in BOOLEAN, NEW asks \in BOOLEAN, RowsAnswered(k, can, asks)
      PROVE  TickIsForThisReview'
  BY <1>18 DEF RowsAnswered, Ends
<1>19. ASSUME Confirm PROVE TickIsForThisReview'
  BY <1>19 DEF Confirm
<1>20. ASSUME NEW k \in Slot, Analyze(k) PROVE TickIsForThisReview'
  BY <1>20 DEF Analyze, Starts, Handler, HasFile, Wizard
<1>21. ASSUME NEW k \in Slot, AnalysisAnswered(k) PROVE TickIsForThisReview'
  BY <1>21 DEF AnalysisAnswered, Ends, Awaits
<1>22. ASSUME NEW k \in Slot, AnalysisFails(k) PROVE TickIsForThisReview'
  BY <1>22 DEF AnalysisFails, Ends
<1>23. ASSUME NEW k \in Slot, SwitchCurrency(k) PROVE TickIsForThisReview'
  BY <1>23 DEF SwitchCurrency, Starts, Handler, Dashboard
<1>24. ASSUME NEW k \in Slot, NEW ok \in BOOLEAN, CurrencyAnswered(k, ok)
      PROVE  TickIsForThisReview'
  BY <1>24 DEF CurrencyAnswered, Ends, Awaits
<1>25. ASSUME NewDataset PROVE TickIsForThisReview'
  BY <1>25 DEF NewDataset, Dashboard
<1>26. CASE UNCHANGED vars
  BY <1>26 DEF vars
<1> QED
  BY <1>1, <1>2, <1>3, <1>4, <1>5, <1>6, <1>7, <1>8, <1>9, <1>10, <1>11, <1>12, <1>13,
     <1>14, <1>15, <1>16, <1>17, <1>18, <1>19, <1>20, <1>21, <1>22, <1>23, <1>24, <1>25,
     <1>26, Steps

\* A handler that starts is in flight, and leaves the others in flight.
LEMMA StartsInFlight ==
    ASSUME TypeOK, NEW k \in Slot, NEW kind \in BusyKinds \cup FetchKinds \cup {"retry"},
           NEW target \in Analysis \cup {None}, NEW review \in Review \cup {None},
           Starts(k, kind, target, review), NEW kinds
    PROVE  /\ kind \in kinds => InFlight(kinds)'
           /\ InFlight(kinds) => InFlight(kinds)'
<1>1. /\ Handler(kind, target, review) # None
      /\ Handler(kind, target, review).mounted /\ Handler(kind, target, review).kind = kind
  BY HandlerIsTask, NoneAssumption DEF Handler
<1>2. task'[k] = Handler(kind, target, review) /\ task[k] = None
  BY DEF TypeOK, Starts
<1>3. \A j \in Slot \ {k} : task'[j] = task[j]
  BY DEF TypeOK, Starts
<1> QED BY <1>1, <1>2, <1>3 DEF InFlight

\* A handler of other kinds, or whose component is gone, can end or change.
LEMMA OthersStayInFlight ==
    ASSUME NEW k \in Slot, \A j \in Slot \ {k} : task'[j] = task[j],
           NEW kinds, InFlight(kinds), ~(task[k].mounted /\ task[k].kind \in kinds)
    PROVE  InFlight(kinds)'
BY DEF InFlight

\* A flag that says the workspace waits is set with the handler that clears it.
LEMMA StepSpinner == ASSUME TypeOK, Linked, NoStuckSpinner, [Next]_vars PROVE NoStuckSpinner'
<1> USE NoneAssumption
<1>1. ASSUME SelectUpload PROVE NoStuckSpinner'
  BY <1>1 DEF SelectUpload, Fresh, TypeOK, Workspaces, Linked, NoStuckSpinner, InFlight,
     BusyKinds, FetchKinds
<1>2. ASSUME NEW k \in Slot, SelectSample(k) PROVE NoStuckSpinner'
  <2>1. /\ InFlight(BusyKinds)'
        /\ InFlight(FetchKinds) => InFlight(FetchKinds)'
        /\ InFlight({"distinct", "retry"}) => InFlight({"distinct", "retry"})'
    BY <1>2, StartsInFlight DEF SelectSample, BusyKinds, FetchKinds
  <2>2. ~ui'.restoring /\ ui'.distinct = "idle"
    BY <1>2 DEF SelectSample, TypeOK, Workspaces, Fresh
  <2> QED BY <2>1, <2>2 DEF NoStuckSpinner
<1>3. ASSUME Back PROVE NoStuckSpinner'
  BY <1>3 DEF Back, Fresh, Awaits, TypeOK, Workspaces, Linked, NoStuckSpinner, InFlight,
     BusyKinds, FetchKinds
<1>4. ASSUME Reload PROVE NoStuckSpinner'
  <2>1. /\ ui'.busy = "none" /\ ui'.distinct = "idle"
        /\ ui'.restoring <=> saved # None
    BY <1>4 DEF Reload, Fresh
  <2>2. CASE saved = None
    BY <2>1, <2>2 DEF NoStuckSpinner
  <2>3. CASE saved # None
    <3>1. PICK k \in Slot : task' = [j \in Slot |->
                            IF j = k THEN Handler("restore", saved, None) ELSE None]
      BY <1>4, <2>3 DEF Reload
    <3>2. /\ Handler("restore", saved, None) # None
          /\ Handler("restore", saved, None).mounted
          /\ Handler("restore", saved, None).kind = "restore"
      <4>1. Handler("restore", saved, None) \in Task
        BY HandlerIsTask DEF TypeOK, FetchKinds
      <4> QED BY <4>1, NoneAssumption DEF Handler
    <3>3. InFlight(FetchKinds)'
      BY <3>1, <3>2 DEF InFlight, FetchKinds
    <3> QED BY <2>1, <3>3 DEF NoStuckSpinner
  <2> QED BY <2>2, <2>3
<1>5. ASSUME NEW k \in Slot, NEW ok \in BOOLEAN, RestoreAnswered(k, ok)
      PROVE  NoStuckSpinner'
  BY <1>5 DEF RestoreAnswered, Ends, Awaits, TypeOK, Workspaces, Linked, NoStuckSpinner,
     InFlight, BusyKinds, FetchKinds
<1>6. ASSUME NEW k \in Slot, ChooseFile(k) PROVE NoStuckSpinner'
  <2>1. /\ InFlight(BusyKinds)'
        /\ InFlight(FetchKinds) => InFlight(FetchKinds)'
        /\ InFlight({"distinct", "retry"}) => InFlight({"distinct", "retry"})'
    BY <1>6, StartsInFlight DEF ChooseFile, BusyKinds, FetchKinds
  <2>2. ui'.restoring = ui.restoring /\ ui'.distinct = ui.distinct
    BY <1>6 DEF ChooseFile, TypeOK, Workspaces
  <2> QED BY <2>1, <2>2 DEF NoStuckSpinner
<1>7. ASSUME NEW k \in Slot, SampleArrives(k) PROVE NoStuckSpinner'
  <2>1. task[k] \in Task /\ task[k].kind = "sample" /\ task[k].mounted
    BY <1>7 DEF SampleArrives, Awaits, TypeOK, Linked
  <2>2. task' = [task EXCEPT ![k] = [task[k] EXCEPT !.kind = "upload"]]
    BY <1>7 DEF SampleArrives
  <2>3. [task[k] EXCEPT !.kind = "upload"] \in Task
    BY <2>1 DEF Task, BusyKinds
  <2>4. /\ task'[k] \in Task /\ task'[k].kind = "upload" /\ task'[k].mounted
        /\ \A j \in Slot \ {k} : task'[j] = task[j]
    BY <2>1, <2>2, <2>3 DEF TypeOK, Task
  <2>5. InFlight(BusyKinds)'
    BY <2>4, NoneAssumption DEF InFlight, BusyKinds
  <2>6. /\ InFlight(FetchKinds) => InFlight(FetchKinds)'
        /\ InFlight({"distinct", "retry"}) => InFlight({"distinct", "retry"})'
    BY <2>1, <2>4, OthersStayInFlight DEF FetchKinds
  <2>7. ui'.restoring = ui.restoring /\ ui'.distinct = ui.distinct
    BY <1>7 DEF SampleArrives, TypeOK, Workspaces
  <2> QED BY <2>5, <2>6, <2>7 DEF NoStuckSpinner
<1>8. ASSUME NEW k \in Slot, NEW s \in Settings, UploadAnswered(k, s) PROVE NoStuckSpinner'
  <2>1. task[k] \in Task /\ task[k].kind = "upload" /\ task[k].mounted
    BY <1>8 DEF UploadAnswered, Awaits, TypeOK, Linked
  <2>2. task' = [task EXCEPT ![k] = [task[k] EXCEPT !.kind = "suggest"]]
    BY <1>8 DEF UploadAnswered
  <2>3. [task[k] EXCEPT !.kind = "suggest"] \in Task
    BY <2>1 DEF Task, BusyKinds
  <2>4. /\ task'[k] \in Task /\ task'[k].kind = "suggest" /\ task'[k].mounted
        /\ \A j \in Slot \ {k} : task'[j] = task[j]
    BY <2>1, <2>2, <2>3 DEF TypeOK, Task
  <2>5. InFlight(BusyKinds)'
    BY <2>4, NoneAssumption DEF InFlight, BusyKinds
  <2>6. /\ InFlight(FetchKinds) => InFlight(FetchKinds)'
        /\ InFlight({"distinct", "retry"}) => InFlight({"distinct", "retry"})'
    BY <2>1, <2>4, OthersStayInFlight DEF FetchKinds
  <2>7. ui'.restoring = ui.restoring /\ ui'.distinct = ui.distinct
    BY <1>8 DEF UploadAnswered, TypeOK, Workspaces
  <2> QED BY <2>5, <2>6, <2>7 DEF NoStuckSpinner
<1>9. ASSUME NEW k \in Slot, NEW s \in Settings, NEW q \in Rules, SuggestionsAnswered(k, s, q)
      PROVE  NoStuckSpinner'
  BY <1>9 DEF SuggestionsAnswered, Awaits, Ends, TypeOK, Workspaces, Linked, NoStuckSpinner,
     InFlight, BusyKinds, FetchKinds
<1>10. ASSUME NEW k \in Slot, Fail(k) PROVE NoStuckSpinner'
  BY <1>10 DEF Fail, Ends, TypeOK, Workspaces, Linked, NoStuckSpinner, InFlight, BusyKinds,
     FetchKinds
<1>11. ASSUME NEW s \in Settings, NEW q \in Rules, EditSettings(s, q) PROVE NoStuckSpinner'
  BY <1>11 DEF EditSettings, TypeOK, Workspaces, Linked, NoStuckSpinner, InFlight,
     BusyKinds, FetchKinds
<1>12. ASSUME NEW q \in Rules, EditRules(q) PROVE NoStuckSpinner'
  BY <1>12 DEF EditRules, TypeOK, Workspaces, Linked, NoStuckSpinner, InFlight, BusyKinds,
     FetchKinds
<1>13. ASSUME NEW k \in Slot, CheckMapping(k) PROVE NoStuckSpinner'
  <2>1. /\ InFlight(BusyKinds)'
        /\ InFlight(FetchKinds) => InFlight(FetchKinds)'
        /\ InFlight({"distinct", "retry"}) => InFlight({"distinct", "retry"})'
    BY <1>13, StartsInFlight, ConfigurationIsReview DEF CheckMapping, BusyKinds, FetchKinds
  <2>2. ui'.restoring = ui.restoring /\ ui'.distinct = ui.distinct
    BY <1>13 DEF CheckMapping, TypeOK, Workspaces
  <2> QED BY <2>1, <2>2 DEF NoStuckSpinner
<1>14. ASSUME NEW k \in Slot, NEW valid \in BOOLEAN, MappingAnswered(k, valid)
      PROVE  NoStuckSpinner'
  <2> DEFINE more == valid /\ task[k].review.settings \in WithStatus
  <2>1. task[k] \in Task /\ task[k].kind = "mapping" /\ task[k].mounted
    BY <1>14 DEF MappingAnswered, Awaits, TypeOK, Linked
  <2>2. /\ ui'.busy = IF more THEN ui.busy ELSE "none"
        /\ ui'.restoring = ui.restoring
        /\ ui'.distinct = IF more THEN "loading" ELSE "idle"
    BY <1>14 DEF MappingAnswered, TypeOK, Workspaces
  <2>3. \A j \in Slot \ {k} : task'[j] = task[j]
    BY <1>14 DEF MappingAnswered, TypeOK
  <2>4. InFlight(FetchKinds) => InFlight(FetchKinds)'
    BY <2>1, <2>3, OthersStayInFlight DEF FetchKinds
  <2>5. ASSUME more PROVE InFlight(BusyKinds)' /\ InFlight({"distinct", "retry"})'
    <3>1. task' = [task EXCEPT ![k] = [task[k] EXCEPT !.kind = "distinct"]]
      BY <1>14, <2>5 DEF MappingAnswered
    <3>2. [task[k] EXCEPT !.kind = "distinct"] \in Task
      BY <2>1 DEF Task, BusyKinds
    <3>3. task'[k] \in Task /\ task'[k].kind = "distinct" /\ task'[k].mounted
      BY <2>1, <3>1, <3>2 DEF TypeOK, Task
    <3> QED BY <3>3, NoneAssumption DEF InFlight, BusyKinds
  <2> QED BY <2>2, <2>4, <2>5 DEF NoStuckSpinner
<1>15. ASSUME NEW k \in Slot, RetryDistinct(k) PROVE NoStuckSpinner'
  <2>1. /\ InFlight({"distinct", "retry"})'
        /\ InFlight(BusyKinds) => InFlight(BusyKinds)'
        /\ InFlight(FetchKinds) => InFlight(FetchKinds)'
    BY <1>15, StartsInFlight, ConfigurationIsReview DEF RetryDistinct, BusyKinds, FetchKinds
  <2>2. ui'.busy = ui.busy /\ ui'.restoring = ui.restoring
    BY <1>15 DEF RetryDistinct, TypeOK, Workspaces
  <2> QED BY <2>1, <2>2 DEF NoStuckSpinner
<1>16. ASSUME NEW k \in Slot, NEW ok \in BOOLEAN, DistinctAnswered(k, ok)
      PROVE  NoStuckSpinner'
  BY <1>16 DEF DistinctAnswered, Ends, Awaits, TypeOK, Workspaces, Linked, NoStuckSpinner,
     InFlight, BusyKinds, FetchKinds
<1>17. ASSUME NEW k \in Slot, CheckRows(k) PROVE NoStuckSpinner'
  <2>1. /\ InFlight(BusyKinds)'
        /\ InFlight(FetchKinds) => InFlight(FetchKinds)'
        /\ InFlight({"distinct", "retry"}) => InFlight({"distinct", "retry"})'
    BY <1>17, StartsInFlight, ConfigurationIsReview DEF CheckRows, BusyKinds, FetchKinds
  <2>2. ui'.restoring = ui.restoring /\ ui'.distinct = ui.distinct
    BY <1>17 DEF CheckRows, TypeOK, Workspaces
  <2> QED BY <2>1, <2>2 DEF NoStuckSpinner
<1>18. ASSUME NEW k \in Slot, NEW can \in BOOLEAN, NEW asks \in BOOLEAN,
             RowsAnswered(k, can, asks)
      PROVE  NoStuckSpinner'
  <2>1. task[k].kind = "validation" /\ \A j \in Slot \ {k} : task'[j] = task[j]
    BY <1>18 DEF RowsAnswered, Awaits, Ends, TypeOK
  <2>2. /\ InFlight(FetchKinds) => InFlight(FetchKinds)'
        /\ InFlight({"distinct", "retry"}) => InFlight({"distinct", "retry"})'
    BY <2>1, OthersStayInFlight DEF FetchKinds
  <2>3. ui'.busy = "none" /\ ui'.restoring = ui.restoring /\ ui'.distinct = ui.distinct
    BY <1>18 DEF RowsAnswered, TypeOK, Workspaces
  <2> QED BY <2>2, <2>3 DEF NoStuckSpinner
<1>19. ASSUME Confirm PROVE NoStuckSpinner'
  BY <1>19 DEF Confirm, TypeOK, Workspaces, Linked, NoStuckSpinner, InFlight, BusyKinds,
     FetchKinds
<1>20. ASSUME NEW k \in Slot, Analyze(k) PROVE NoStuckSpinner'
  <2>1. /\ InFlight(BusyKinds)'
        /\ InFlight(FetchKinds) => InFlight(FetchKinds)'
        /\ InFlight({"distinct", "retry"}) => InFlight({"distinct", "retry"})'
    BY <1>20, StartsInFlight, ConfigurationIsReview DEF Analyze, BusyKinds, FetchKinds
  <2>2. ui'.restoring = ui.restoring /\ ui'.distinct = ui.distinct
    BY <1>20 DEF Analyze, TypeOK, Workspaces
  <2> QED BY <2>1, <2>2 DEF NoStuckSpinner
<1>21. ASSUME NEW k \in Slot, AnalysisAnswered(k) PROVE NoStuckSpinner'
  BY <1>21 DEF AnalysisAnswered, Ends, Awaits, TypeOK, Workspaces, Linked, NoStuckSpinner,
     InFlight, BusyKinds, FetchKinds
<1>22. ASSUME NEW k \in Slot, AnalysisFails(k) PROVE NoStuckSpinner'
  <2>1. task[k].kind = "analysis" /\ \A j \in Slot \ {k} : task'[j] = task[j]
    BY <1>22 DEF AnalysisFails, Awaits, Ends, TypeOK
  <2>2. /\ InFlight(FetchKinds) => InFlight(FetchKinds)'
        /\ InFlight({"distinct", "retry"}) => InFlight({"distinct", "retry"})'
        /\ ~task[k].mounted /\ InFlight(BusyKinds) => InFlight(BusyKinds)'
    BY <2>1, OthersStayInFlight DEF FetchKinds
  <2>3. /\ ui'.busy = IF task[k].mounted THEN "none" ELSE ui.busy
        /\ ui'.restoring = ui.restoring /\ ui'.distinct = ui.distinct
    BY <1>22 DEF AnalysisFails, TypeOK, Workspaces
  <2> QED BY <2>2, <2>3 DEF NoStuckSpinner
<1>23. ASSUME NEW k \in Slot, SwitchCurrency(k) PROVE NoStuckSpinner'
  <2>0. ui.analysis \in Analysis \cup {None}
    BY DEF TypeOK, Workspaces
  <2>1. /\ InFlight(FetchKinds)'
        /\ InFlight(BusyKinds) => InFlight(BusyKinds)'
        /\ InFlight({"distinct", "retry"}) => InFlight({"distinct", "retry"})'
    BY <1>23, <2>0, StartsInFlight DEF SwitchCurrency, BusyKinds, FetchKinds
  <2>2. ui'.busy = ui.busy /\ ui'.distinct = ui.distinct
    BY <1>23 DEF SwitchCurrency, TypeOK, Workspaces
  <2> QED BY <2>1, <2>2 DEF NoStuckSpinner
<1>24. ASSUME NEW k \in Slot, NEW ok \in BOOLEAN, CurrencyAnswered(k, ok)
      PROVE  NoStuckSpinner'
  BY <1>24 DEF CurrencyAnswered, Ends, Awaits, TypeOK, Workspaces, Linked, NoStuckSpinner,
     InFlight, BusyKinds, FetchKinds
<1>25. ASSUME NewDataset PROVE NoStuckSpinner'
  BY <1>25 DEF NewDataset, Dashboard, TypeOK, Workspaces, Linked, NoStuckSpinner, InFlight,
     BusyKinds, FetchKinds
<1>26. CASE UNCHANGED vars
  BY <1>26 DEF vars, TypeOK, Workspaces, Linked, NoStuckSpinner, InFlight, BusyKinds,
     FetchKinds
<1> QED
  BY <1>1, <1>2, <1>3, <1>4, <1>5, <1>6, <1>7, <1>8, <1>9, <1>10, <1>11, <1>12, <1>13,
     <1>14, <1>15, <1>16, <1>17, <1>18, <1>19, <1>20, <1>21, <1>22, <1>23, <1>24, <1>25,
     <1>26, Steps

\* Only NewDataset discards, and not while an analysis is being fetched.
LEMMA StepDiscarded == ASSUME TypeOK, Linked, NothingDiscardedReturns, [Next]_vars PROVE NothingDiscardedReturns'
<1> USE NoneAssumption DEF TypeOK, Workspaces, Linked, NothingDiscardedReturns, BusyKinds, FetchKinds
<1>1. ASSUME SelectUpload PROVE NothingDiscardedReturns'
  BY <1>1 DEF SelectUpload, Fresh
<1>2. ASSUME NEW k \in Slot, SelectSample(k) PROVE NothingDiscardedReturns'
  BY <1>2 DEF SelectSample, Fresh, Starts, Handler
<1>3. ASSUME Back PROVE NothingDiscardedReturns'
  BY <1>3 DEF Back, Fresh, Awaits
<1>4. ASSUME Reload PROVE NothingDiscardedReturns'
  BY <1>4 DEF Reload, Fresh, Handler
<1>5. ASSUME NEW k \in Slot, NEW ok \in BOOLEAN, RestoreAnswered(k, ok)
      PROVE  NothingDiscardedReturns'
  BY <1>5 DEF RestoreAnswered, Ends, Awaits
<1>6. ASSUME NEW k \in Slot, ChooseFile(k) PROVE NothingDiscardedReturns'
  BY <1>6 DEF ChooseFile, Starts, Handler, Drop, Wizard
<1>7. ASSUME NEW k \in Slot, SampleArrives(k) PROVE NothingDiscardedReturns'
  BY <1>7 DEF SampleArrives, Awaits
<1>8. ASSUME NEW k \in Slot, NEW s \in Settings, UploadAnswered(k, s)
      PROVE  NothingDiscardedReturns'
  BY <1>8, NewIdIsNew DEF UploadAnswered, Awaits
<1>9. ASSUME NEW k \in Slot, NEW s \in Settings, NEW q \in Rules, SuggestionsAnswered(k, s, q)
      PROVE  NothingDiscardedReturns'
  BY <1>9 DEF SuggestionsAnswered, Awaits, Ends
<1>10. ASSUME NEW k \in Slot, Fail(k) PROVE NothingDiscardedReturns'
  BY <1>10 DEF Fail, Ends
<1>11. ASSUME NEW s \in Settings, NEW q \in Rules, EditSettings(s, q)
      PROVE  NothingDiscardedReturns'
  BY <1>11 DEF EditSettings
<1>12. ASSUME NEW q \in Rules, EditRules(q) PROVE NothingDiscardedReturns'
  BY <1>12 DEF EditRules
<1>13. ASSUME NEW k \in Slot, CheckMapping(k) PROVE NothingDiscardedReturns'
  BY <1>13, ConfigurationIsReview DEF CheckMapping, Starts, Handler, HasFile, Wizard
<1>14. ASSUME NEW k \in Slot, NEW valid \in BOOLEAN, MappingAnswered(k, valid)
      PROVE  NothingDiscardedReturns'
  BY <1>14 DEF MappingAnswered, Awaits
<1>15. ASSUME NEW k \in Slot, RetryDistinct(k) PROVE NothingDiscardedReturns'
  BY <1>15, ConfigurationIsReview DEF RetryDistinct, Starts, Handler, HasFile, Wizard
<1>16. ASSUME NEW k \in Slot, NEW ok \in BOOLEAN, DistinctAnswered(k, ok)
      PROVE  NothingDiscardedReturns'
  BY <1>16 DEF DistinctAnswered, Ends, Awaits
<1>17. ASSUME NEW k \in Slot, CheckRows(k) PROVE NothingDiscardedReturns'
  BY <1>17, ConfigurationIsReview DEF CheckRows, Starts, Handler, HasFile, Wizard
<1>18. ASSUME NEW k \in Slot, NEW can \in BOOLEAN, NEW asks \in BOOLEAN, RowsAnswered(k, can, asks)
      PROVE  NothingDiscardedReturns'
  BY <1>18 DEF RowsAnswered, Ends
<1>19. ASSUME Confirm PROVE NothingDiscardedReturns'
  BY <1>19 DEF Confirm
<1>20. ASSUME NEW k \in Slot, Analyze(k) PROVE NothingDiscardedReturns'
  BY <1>20, ConfigurationIsReview DEF Analyze, Starts, Handler, HasFile, Wizard
<1>21. ASSUME NEW k \in Slot, AnalysisAnswered(k) PROVE NothingDiscardedReturns'
  BY <1>21, NewIdIsNew DEF AnalysisAnswered, Ends, Awaits
<1>22. ASSUME NEW k \in Slot, AnalysisFails(k) PROVE NothingDiscardedReturns'
  BY <1>22 DEF AnalysisFails, Ends
<1>23. ASSUME NEW k \in Slot, SwitchCurrency(k) PROVE NothingDiscardedReturns'
  BY <1>23 DEF SwitchCurrency, Starts, Handler, Dashboard
<1>24. ASSUME NEW k \in Slot, NEW ok \in BOOLEAN, CurrencyAnswered(k, ok)
      PROVE  NothingDiscardedReturns'
  BY <1>24 DEF CurrencyAnswered, Ends, Awaits
<1>25. ASSUME NewDataset PROVE NothingDiscardedReturns'
  BY <1>25 DEF NewDataset, Dashboard
<1>26. CASE UNCHANGED vars
  BY <1>26 DEF vars
<1> QED
  BY <1>1, <1>2, <1>3, <1>4, <1>5, <1>6, <1>7, <1>8, <1>9, <1>10, <1>11, <1>12, <1>13,
     <1>14, <1>15, <1>16, <1>17, <1>18, <1>19, <1>20, <1>21, <1>22, <1>23, <1>24, <1>25,
     <1>26, Steps

-----------------------------------------------------------------------------
\* The inductive invariant.
IInv == TypeOK /\ Linked /\ TickIsForThisReview /\ NoStuckSpinner /\ NothingDiscardedReturns

\* Nothing has happened yet.
LEMMA InitIInv == Init => IInv
<1> SUFFICES ASSUME Init PROVE IInv
  OBVIOUS
<1>1. TypeOK
  BY InitTypeOK
<1>2. /\ ui.analysis = None /\ ui.quarantineConfirmed = None /\ ui.busy = "none"
      /\ ~ui.restoring /\ ui.distinct = "idle"
  BY DEF Init, Fresh
<1>3. Linked
  BY <1>2 DEF Init, Linked
<1>4. TickIsForThisReview /\ NoStuckSpinner
  BY <1>2 DEF TickIsForThisReview, NoStuckSpinner
<1>5. NothingDiscardedReturns
  BY <1>2 DEF Init, NothingDiscardedReturns
<1> QED BY <1>1, <1>3, <1>4, <1>5 DEF IInv

\* The invariant is inductive.
LEMMA StepIInv == IInv /\ [Next]_vars => IInv'
BY StepTypeOK, StepLinked, StepTick, StepSpinner, StepDiscarded DEF IInv

\* The invariant holds of the workspace.
THEOREM Invariance == Spec => []IInv
BY InitIInv, StepIInv, PTL DEF Spec

\* The workspace, its handlers and the storage keep their shape.
THEOREM TypeCorrect == Spec => []TypeOK
<1>1. IInv => TypeOK
  BY DEF IInv
<1> QED BY <1>1, Invariance, PTL

\* A tick beside a review was made on that review, in whatever order answers come
\* and whatever is edited meanwhile.
THEOREM TickIsForThisReviewHolds == Spec => []TickIsForThisReview
<1>1. IInv => TickIsForThisReview
  BY DEF IInv
<1> QED BY <1>1, Invariance, PTL

\* Whatever fails, the workspace never waits for an answer no handler awaits.
THEOREM NoStuckSpinnerHolds == Spec => []NoStuckSpinner
<1>1. IInv => NoStuckSpinner
  BY DEF IInv
<1> QED BY <1>1, Invariance, PTL

\* No late answer brings back an analysis the user replaced.
THEOREM NothingDiscardedReturnsHolds == Spec => []NothingDiscardedReturns
<1>1. IInv => NothingDiscardedReturns
  BY DEF IInv
<1> QED BY <1>1, Invariance, PTL

-----------------------------------------------------------------------------
(***************************************************************************)
(* ConsentCoversAnalysis does not hold of the code.  What follows names the *)
(* only two ways in which it is lost: the settings, the rules or the file   *)
(* are changed while an answer is awaited, for their inputs are not         *)
(* disabled as the buttons are; or a new file is on screen when the request *)
(* for its suggestions fails, for handleFile then leaves the review and the *)
(* tick of the file before (BusinessWorkspace.tsx:256-279).                 *)
(***************************************************************************)
Edits ==
    \/ \E s \in Settings, q \in Rules : EditSettings(s, q)
    \/ \E q \in Rules : EditRules(q)
    \/ \E k \in Slot : ChooseFile(k)

LosesSuggestions == \E k \in Slot : Awaits(k, "suggest") /\ Fail(k)

Careful ==
    /\ Edits => ui.busy = "none"
    /\ LosesSuggestions => ui.validation = None

CarefulSpec == Spec /\ [][Careful]_vars

\* A handler that made the workspace busy, and what it made it busy with.
Working(k) == task[k] # None /\ task[k].mounted /\ task[k].kind \in BusyKinds

BusyOf(kind) ==
    IF kind \in {"sample", "upload", "suggest"} THEN "upload"
    ELSE IF kind = "distinct" THEN "mapping" ELSE kind

OneAtWork ==
    /\ \A j, k \in Slot : Working(j) /\ Working(k) => j = k
    /\ \A k \in Slot : Working(k) =>
          /\ ui.busy = BusyOf(task[k].kind)
          /\ view = "workspace" /\ ~ui.restoring /\ ui.analysis = None

\* What is validated, and what was, is what is on screen, but for the moment in
\* which a new file has come and its suggestions have not.
ReviewIsCurrent ==
    /\ \A k \in Slot : Awaits(k, "validation") => task[k].review = Configuration
    /\ ui.validation # None =>
          ui.validation.of = Configuration \/ \E k \in Slot : Awaits(k, "suggest")

\* With careful use one handler at a time makes the workspace busy.
LEMMA StepOneAtWork ==
    ASSUME TypeOK, Linked, OneAtWork, Careful, [Next]_vars PROVE OneAtWork'
<1> USE NoneAssumption DEF TypeOK, Workspaces, Task, Linked, OneAtWork, Working, BusyOf,
                           BusyKinds, FetchKinds
<1>1. ASSUME SelectUpload PROVE OneAtWork'
  BY <1>1 DEF SelectUpload, Fresh
<1>2. ASSUME NEW k \in Slot, SelectSample(k) PROVE OneAtWork'
  <2>1. \A j \in Slot : ~Working(j)
    BY <1>2 DEF SelectSample
  <2>2. \A j \in Slot \ {k} : task'[j] = task[j]
    BY <1>2 DEF SelectSample, Starts
  <2>3. \A j \in Slot \ {k} : ~Working(j)'
    BY <2>1, <2>2
  <2> QED BY <1>2, <2>3 DEF SelectSample, Fresh, Starts, Handler
<1>3. ASSUME Back PROVE OneAtWork'
  BY <1>3 DEF Back, Fresh, Awaits
<1>4. ASSUME Reload PROVE OneAtWork'
  BY <1>4 DEF Reload, Fresh, Handler
<1>5. ASSUME NEW k \in Slot, NEW ok \in BOOLEAN, RestoreAnswered(k, ok) PROVE OneAtWork'
  BY <1>5 DEF RestoreAnswered, Ends, Awaits
<1>6. ASSUME NEW k \in Slot, ChooseFile(k) PROVE OneAtWork'
  <2>1. ui.busy = "none"
    BY <1>6 DEF Careful, Edits
  <2>2. \A j \in Slot : ~Working(j)
    BY <2>1
  <2>3. \A j \in Slot \ {k} : task'[j] = task[j]
    BY <1>6 DEF ChooseFile, Starts
  <2>4. \A j \in Slot \ {k} : ~Working(j)'
    BY <2>2, <2>3
  <2> QED BY <1>6, <2>4 DEF ChooseFile, Starts, Handler, Wizard
<1>7. ASSUME NEW k \in Slot, SampleArrives(k) PROVE OneAtWork'
  BY <1>7 DEF SampleArrives, Awaits
<1>8. ASSUME NEW k \in Slot, NEW s \in Settings, UploadAnswered(k, s) PROVE OneAtWork'
  BY <1>8 DEF UploadAnswered, Awaits
<1>9. ASSUME NEW k \in Slot, NEW s \in Settings, NEW q \in Rules, SuggestionsAnswered(k, s, q)
      PROVE  OneAtWork'
  BY <1>9 DEF SuggestionsAnswered, Awaits, Ends
<1>10. ASSUME NEW k \in Slot, Fail(k) PROVE OneAtWork'
  BY <1>10 DEF Fail, Ends
<1>11. ASSUME NEW s \in Settings, NEW q \in Rules, EditSettings(s, q) PROVE OneAtWork'
  BY <1>11 DEF EditSettings, HasFile, Wizard
<1>12. ASSUME NEW q \in Rules, EditRules(q) PROVE OneAtWork'
  BY <1>12 DEF EditRules, HasFile, Wizard
<1>13. ASSUME NEW k \in Slot, CheckMapping(k) PROVE OneAtWork'
  BY <1>13 DEF CheckMapping, Starts, Handler, HasFile, Wizard
<1>14. ASSUME NEW k \in Slot, NEW valid \in BOOLEAN, MappingAnswered(k, valid) PROVE OneAtWork'
  BY <1>14 DEF MappingAnswered, Awaits
<1>15. ASSUME NEW k \in Slot, RetryDistinct(k) PROVE OneAtWork'
  BY <1>15 DEF RetryDistinct, Starts, Handler, HasFile, Wizard
<1>16. ASSUME NEW k \in Slot, NEW ok \in BOOLEAN, DistinctAnswered(k, ok) PROVE OneAtWork'
  BY <1>16 DEF DistinctAnswered, Ends, Awaits
<1>17. ASSUME NEW k \in Slot, CheckRows(k) PROVE OneAtWork'
  BY <1>17 DEF CheckRows, Starts, Handler, HasFile, Wizard
<1>18. ASSUME NEW k \in Slot, NEW can \in BOOLEAN, NEW asks \in BOOLEAN, RowsAnswered(k, can, asks)
      PROVE  OneAtWork'
  BY <1>18 DEF RowsAnswered, Ends, Awaits
<1>19. ASSUME Confirm PROVE OneAtWork'
  BY <1>19 DEF Confirm
<1>20. ASSUME NEW k \in Slot, Analyze(k) PROVE OneAtWork'
  BY <1>20 DEF Analyze, Starts, Handler, HasFile, Wizard
<1>21. ASSUME NEW k \in Slot, AnalysisAnswered(k) PROVE OneAtWork'
  BY <1>21 DEF AnalysisAnswered, Ends, Awaits
<1>22. ASSUME NEW k \in Slot, AnalysisFails(k) PROVE OneAtWork'
  BY <1>22 DEF AnalysisFails, Ends, Awaits
<1>23. ASSUME NEW k \in Slot, SwitchCurrency(k) PROVE OneAtWork'
  BY <1>23 DEF SwitchCurrency, Starts, Handler, Dashboard
<1>24. ASSUME NEW k \in Slot, NEW ok \in BOOLEAN, CurrencyAnswered(k, ok) PROVE OneAtWork'
  BY <1>24 DEF CurrencyAnswered, Ends, Awaits
<1>25. ASSUME NewDataset PROVE OneAtWork'
  BY <1>25 DEF NewDataset, Dashboard
<1>26. CASE UNCHANGED vars
  BY <1>26 DEF vars
<1> QED
  BY <1>1, <1>2, <1>3, <1>4, <1>5, <1>6, <1>7, <1>8, <1>9, <1>10, <1>11, <1>12, <1>13,
     <1>14, <1>15, <1>16, <1>17, <1>18, <1>19, <1>20, <1>21, <1>22, <1>23, <1>24, <1>25,
     <1>26, Steps

\* With careful use the review on screen is the review of what is on screen.
LEMMA StepReviewIsCurrent ==
    ASSUME TypeOK, Linked, OneAtWork, ReviewIsCurrent, Careful, [Next]_vars
    PROVE  ReviewIsCurrent'
<1> USE NoneAssumption DEF TypeOK, Workspaces, Task, Linked, OneAtWork, Working, BusyOf,
                           BusyKinds, FetchKinds, ReviewIsCurrent, Configuration, Awaits
<1>1. ASSUME SelectUpload PROVE ReviewIsCurrent'
  BY <1>1 DEF SelectUpload, Fresh
<1>2. ASSUME NEW k \in Slot, SelectSample(k) PROVE ReviewIsCurrent'
  BY <1>2 DEF SelectSample, Fresh, Starts, Handler
<1>3. ASSUME Back PROVE ReviewIsCurrent'
  BY <1>3 DEF Back, Fresh
<1>4. ASSUME Reload PROVE ReviewIsCurrent'
  BY <1>4 DEF Reload, Fresh, Handler
<1>5. ASSUME NEW k \in Slot, NEW ok \in BOOLEAN, RestoreAnswered(k, ok)
      PROVE  ReviewIsCurrent'
  BY <1>5 DEF RestoreAnswered, Ends
<1>6. ASSUME NEW k \in Slot, ChooseFile(k) PROVE ReviewIsCurrent'
  BY <1>6 DEF ChooseFile, Starts, Handler, Drop, Wizard, Careful, Edits
<1>7. ASSUME NEW k \in Slot, SampleArrives(k) PROVE ReviewIsCurrent'
  BY <1>7 DEF SampleArrives
<1>8. ASSUME NEW k \in Slot, NEW s \in Settings, UploadAnswered(k, s) PROVE ReviewIsCurrent'
  BY <1>8 DEF UploadAnswered
<1>9. ASSUME NEW k \in Slot, NEW s \in Settings, NEW q \in Rules, SuggestionsAnswered(k, s, q)
      PROVE  ReviewIsCurrent'
  BY <1>9 DEF SuggestionsAnswered, Awaits, Ends
<1>10. ASSUME NEW k \in Slot, Fail(k) PROVE ReviewIsCurrent'
  BY <1>10 DEF Fail, Ends, Careful, LosesSuggestions
<1>11. ASSUME NEW s \in Settings, NEW q \in Rules, EditSettings(s, q) PROVE ReviewIsCurrent'
  BY <1>11 DEF EditSettings, HasFile, Wizard, Careful, Edits
<1>12. ASSUME NEW q \in Rules, EditRules(q) PROVE ReviewIsCurrent'
  BY <1>12 DEF EditRules, HasFile, Wizard, Careful, Edits
<1>13. ASSUME NEW k \in Slot, CheckMapping(k) PROVE ReviewIsCurrent'
  BY <1>13 DEF CheckMapping, Starts, Handler, HasFile, Wizard
<1>14. ASSUME NEW k \in Slot, NEW valid \in BOOLEAN, MappingAnswered(k, valid)
      PROVE  ReviewIsCurrent'
  BY <1>14 DEF MappingAnswered
<1>15. ASSUME NEW k \in Slot, RetryDistinct(k) PROVE ReviewIsCurrent'
  BY <1>15 DEF RetryDistinct, Starts, Handler, HasFile, Wizard
<1>16. ASSUME NEW k \in Slot, NEW ok \in BOOLEAN, DistinctAnswered(k, ok)
      PROVE  ReviewIsCurrent'
  BY <1>16 DEF DistinctAnswered, Ends
<1>17. ASSUME NEW k \in Slot, CheckRows(k) PROVE ReviewIsCurrent'
  BY <1>17 DEF CheckRows, Starts, Handler, HasFile, Wizard
<1>18. ASSUME NEW k \in Slot, NEW can \in BOOLEAN, NEW asks \in BOOLEAN, RowsAnswered(k, can, asks)
      PROVE  ReviewIsCurrent'
  BY <1>18 DEF RowsAnswered, Ends
<1>19. ASSUME Confirm PROVE ReviewIsCurrent'
  BY <1>19 DEF Confirm
<1>20. ASSUME NEW k \in Slot, Analyze(k) PROVE ReviewIsCurrent'
  BY <1>20 DEF Analyze, Starts, Handler, HasFile, Wizard
<1>21. ASSUME NEW k \in Slot, AnalysisAnswered(k) PROVE ReviewIsCurrent'
  BY <1>21 DEF AnalysisAnswered, Ends
<1>22. ASSUME NEW k \in Slot, AnalysisFails(k) PROVE ReviewIsCurrent'
  BY <1>22 DEF AnalysisFails, Ends
<1>23. ASSUME NEW k \in Slot, SwitchCurrency(k) PROVE ReviewIsCurrent'
  BY <1>23 DEF SwitchCurrency, Starts, Handler, Dashboard
<1>24. ASSUME NEW k \in Slot, NEW ok \in BOOLEAN, CurrencyAnswered(k, ok)
      PROVE  ReviewIsCurrent'
  BY <1>24 DEF CurrencyAnswered, Ends
<1>25. ASSUME NewDataset PROVE ReviewIsCurrent'
  BY <1>25 DEF NewDataset, Dashboard
<1>26. CASE UNCHANGED vars
  BY <1>26 DEF vars
<1> QED
  BY <1>1, <1>2, <1>3, <1>4, <1>5, <1>6, <1>7, <1>8, <1>9, <1>10, <1>11, <1>12, <1>13,
     <1>14, <1>15, <1>16, <1>17, <1>18, <1>19, <1>20, <1>21, <1>22, <1>23, <1>24, <1>25,
     <1>26, Steps

\* Only Analyze sends a tick: that of the validation on screen.
LEMMA StepConsent ==
    ASSUME TypeOK, Linked, TickIsForThisReview, OneAtWork, ReviewIsCurrent,
           ConsentCoversAnalysis, [Next]_vars
    PROVE  ConsentCoversAnalysis'
<1> USE NoneAssumption DEF TypeOK, Workspaces, Task, ConsentCoversAnalysis, Awaits
<1>1. ASSUME SelectUpload PROVE ConsentCoversAnalysis'
  BY <1>1 DEF SelectUpload, Fresh
<1>2. ASSUME NEW k \in Slot, SelectSample(k) PROVE ConsentCoversAnalysis'
  BY <1>2 DEF SelectSample, Fresh, Starts, Handler
<1>3. ASSUME Back PROVE ConsentCoversAnalysis'
  BY <1>3 DEF Back, Fresh
<1>4. ASSUME Reload PROVE ConsentCoversAnalysis'
  BY <1>4 DEF Reload, Fresh, Handler
<1>5. ASSUME NEW k \in Slot, NEW ok \in BOOLEAN, RestoreAnswered(k, ok)
      PROVE  ConsentCoversAnalysis'
  BY <1>5 DEF RestoreAnswered, Ends
<1>6. ASSUME NEW k \in Slot, ChooseFile(k) PROVE ConsentCoversAnalysis'
  BY <1>6 DEF ChooseFile, Starts, Handler, Drop, Wizard
<1>7. ASSUME NEW k \in Slot, SampleArrives(k) PROVE ConsentCoversAnalysis'
  BY <1>7 DEF SampleArrives
<1>8. ASSUME NEW k \in Slot, NEW s \in Settings, UploadAnswered(k, s)
      PROVE  ConsentCoversAnalysis'
  BY <1>8 DEF UploadAnswered
<1>9. ASSUME NEW k \in Slot, NEW s \in Settings, NEW q \in Rules, SuggestionsAnswered(k, s, q)
      PROVE  ConsentCoversAnalysis'
  BY <1>9 DEF SuggestionsAnswered, Awaits, Ends
<1>10. ASSUME NEW k \in Slot, Fail(k) PROVE ConsentCoversAnalysis'
  BY <1>10 DEF Fail, Ends
<1>11. ASSUME NEW s \in Settings, NEW q \in Rules, EditSettings(s, q)
      PROVE  ConsentCoversAnalysis'
  BY <1>11 DEF EditSettings, HasFile, Wizard
<1>12. ASSUME NEW q \in Rules, EditRules(q) PROVE ConsentCoversAnalysis'
  BY <1>12 DEF EditRules, HasFile, Wizard
<1>13. ASSUME NEW k \in Slot, CheckMapping(k) PROVE ConsentCoversAnalysis'
  BY <1>13 DEF CheckMapping, Starts, Handler, HasFile, Wizard
<1>14. ASSUME NEW k \in Slot, NEW valid \in BOOLEAN, MappingAnswered(k, valid)
      PROVE  ConsentCoversAnalysis'
  BY <1>14 DEF MappingAnswered
<1>15. ASSUME NEW k \in Slot, RetryDistinct(k) PROVE ConsentCoversAnalysis'
  BY <1>15 DEF RetryDistinct, Starts, Handler, HasFile, Wizard
<1>16. ASSUME NEW k \in Slot, NEW ok \in BOOLEAN, DistinctAnswered(k, ok)
      PROVE  ConsentCoversAnalysis'
  BY <1>16 DEF DistinctAnswered, Ends
<1>17. ASSUME NEW k \in Slot, CheckRows(k) PROVE ConsentCoversAnalysis'
  BY <1>17 DEF CheckRows, Starts, Handler, HasFile, Wizard
<1>18. ASSUME NEW k \in Slot, NEW can \in BOOLEAN, NEW asks \in BOOLEAN, RowsAnswered(k, can, asks)
      PROVE  ConsentCoversAnalysis'
  BY <1>18 DEF RowsAnswered, Ends
<1>19. ASSUME Confirm PROVE ConsentCoversAnalysis'
  BY <1>19 DEF Confirm
<1>20. ASSUME NEW k \in Slot, Analyze(k) PROVE ConsentCoversAnalysis'
  BY <1>20 DEF Analyze, Starts, Handler, HasFile, Wizard, TickIsForThisReview, ReviewIsCurrent,
                Configuration, OneAtWork, Working, BusyKinds, BusyOf, Linked
<1>21. ASSUME NEW k \in Slot, AnalysisAnswered(k) PROVE ConsentCoversAnalysis'
  BY <1>21 DEF AnalysisAnswered, Ends
<1>22. ASSUME NEW k \in Slot, AnalysisFails(k) PROVE ConsentCoversAnalysis'
  BY <1>22 DEF AnalysisFails, Ends
<1>23. ASSUME NEW k \in Slot, SwitchCurrency(k) PROVE ConsentCoversAnalysis'
  BY <1>23 DEF SwitchCurrency, Starts, Handler, Dashboard
<1>24. ASSUME NEW k \in Slot, NEW ok \in BOOLEAN, CurrencyAnswered(k, ok)
      PROVE  ConsentCoversAnalysis'
  BY <1>24 DEF CurrencyAnswered, Ends
<1>25. ASSUME NewDataset PROVE ConsentCoversAnalysis'
  BY <1>25 DEF NewDataset, Dashboard
<1>26. CASE UNCHANGED vars
  BY <1>26 DEF vars
<1> QED
  BY <1>1, <1>2, <1>3, <1>4, <1>5, <1>6, <1>7, <1>8, <1>9, <1>10, <1>11, <1>12, <1>13,
     <1>14, <1>15, <1>16, <1>17, <1>18, <1>19, <1>20, <1>21, <1>22, <1>23, <1>24, <1>25,
     <1>26, Steps

CarefulInv == IInv /\ OneAtWork /\ ReviewIsCurrent /\ ConsentCoversAnalysis

\* The careful user's invariant is inductive.
LEMMA CarefulInitially == Init => CarefulInv
<1> SUFFICES ASSUME Init PROVE CarefulInv
  OBVIOUS
<1>1. ui.validation = None /\ \A k \in Slot : task[k] = None
  BY DEF Init, Fresh
<1> QED BY <1>1, InitIInv
        DEF CarefulInv, OneAtWork, Working, ReviewIsCurrent, ConsentCoversAnalysis, Awaits

LEMMA CarefulStep == CarefulInv /\ [Next]_vars /\ [Careful]_vars => CarefulInv'
<1> SUFFICES ASSUME CarefulInv, [Next]_vars, [Careful]_vars PROVE CarefulInv'
  OBVIOUS
<1>1. IInv'
  BY StepIInv DEF CarefulInv
<1>2. CASE Careful
  BY <1>1, <1>2, StepOneAtWork, StepReviewIsCurrent, StepConsent DEF CarefulInv, IInv
<1>3. CASE UNCHANGED vars
  BY <1>1, <1>3 DEF vars, CarefulInv, OneAtWork, Working, ReviewIsCurrent, Configuration,
     ConsentCoversAnalysis, Awaits
<1> QED BY <1>2, <1>3

\* If nothing were edited while the workspace is busy, and no suggestions got lost
\* behind an old review, what is analysed would be what the user agreed to.
THEOREM ConsentCoversCarefulUse == CarefulSpec => []ConsentCoversAnalysis
<1>1. CarefulInv => ConsentCoversAnalysis
  BY DEF CarefulInv
<1> QED BY <1>1, CarefulInitially, CarefulStep, PTL DEF CarefulSpec, Spec
=============================================================================
