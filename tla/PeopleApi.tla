------------------------------ MODULE PeopleApi ------------------------------
(*****************************************************************************)
(* People: persons and their contracts, payroll, absences, time entries,     *)
(* projects.                                                                 *)
(*****************************************************************************)
EXTENDS HttpSteps

Trade == INSTANCE TradeApi
Flow == INSTANCE WorkflowApi

----------------------------------------------------------------------------
(* internal/hr *)

CreateContract ==
  In("hr", May({"ErrInvalidContract", "ErrInvalidPerson"}) \o InTx(Member
    \o Owner \o May({"ErrPersonNotFound"}) \o Put({"contracts"}) \o Audit))
ListContracts == In("hr", InTx(Member))
CreatePerson ==
  In("hr", May({"ErrInvalidPerson"}) \o InTx(Member \o Owner
    \o Put({"people"}) \o Audit))
UpdatePerson ==
  In("hr", May({"ErrInvalidPerson"}) \o InTx(Member \o Owner
    \o Put({"people"}) \o May({"ErrPersonNotFound"}) \o Audit))
ListPeople == In("hr", InTx(Member))
GetPerson == In("hr", InTx(Member \o May({"ErrPersonNotFound"})))
writeHRError ==
  Answers("hr", 404, {"ErrFirmNotFound", "ErrPersonNotFound"}) @@
    Answers("hr", 403, {"ErrNotOwner"}) @@
    Answers("hr", 400, {"ErrInvalidPerson", "ErrInvalidContract"})
handleListPeople ==
  Handler(Inputs({"firmID"}) \o User \o ListPeople, writeHRError, 200)
handleCreatePerson ==
  Handler(Inputs({"firmID", "body"}) \o User \o CreatePerson, writeHRError,
    201)
handleGetPerson ==
  Handler(Inputs({"firmID", "personID"}) \o User \o GetPerson, writeHRError,
    200)
handleUpdatePerson ==
  Handler(Inputs({"firmID", "personID", "body"}) \o User \o UpdatePerson,
    writeHRError, 200)
handleListContracts ==
  Handler(Inputs({"firmID", "personID"}) \o User \o ListContracts,
    writeHRError, 200)
handleCreateContract ==
  Handler(Inputs({"firmID", "personID", "body"}) \o User \o CreateContract,
    writeHRError, 201)

----------------------------------------------------------------------------
(* internal/payroll *)

ClosePeriod ==
  In("payroll", InTx(Member \o Owner \o May({"ErrPeriodNotFound",
    "ErrPeriodAlreadyClosed"}) \o Maybe(Trade!PostJournalEntryTx)
    \o Put({"payroll_periods"}) \o Audit))
payrollCreateEntry ==
  In("payroll", May({"ErrInvalidEntry"}) \o InTx(Member \o Owner
    \o May({"ErrPeriodNotFound", "ErrPeriodNotOpen", "ErrInvalidEntry"})
    \o Put({"payroll_entries"}) \o Audit))
payrollListEntries == In("payroll", InTx(Member))
payrollGetEntry == In("payroll", InTx(Member \o May({"ErrEntryNotFound"})))
payrollUpdateEntry ==
  In("payroll", May({"ErrInvalidEntry"}) \o InTx(Member \o Owner
    \o May({"ErrEntryNotFound", "ErrPeriodNotOpen"})
    \o Put({"payroll_entries"}) \o Audit))
CreatePeriod ==
  In("payroll", May({"ErrInvalidPeriod"}) \o InTx(Member \o Owner
    \o Put({"payroll_periods"}) \o Audit))
ListPeriods == In("payroll", InTx(Member))
GetPeriod == In("payroll", InTx(Member \o May({"ErrPeriodNotFound"})))
UpdatePeriod ==
  In("payroll", InTx(Member \o Owner \o May({"ErrPeriodNotFound",
    "ErrPeriodNotOpen", "ErrInvalidPeriod"}) \o Put({"payroll_periods"})
    \o Audit))
writePayrollError ==
  Answers("payroll", 404, {"ErrFirmNotFound", "ErrPeriodNotFound",
    "ErrEntryNotFound"}) @@
    Answers("payroll", 403, {"ErrNotOwner"}) @@
    Answers("payroll", 400, {"ErrInvalidPeriod", "ErrInvalidEntry",
    "ErrPeriodNotOpen"}) @@
    Answers("payroll", 409, {"ErrPeriodAlreadyClosed"})
handleListPeriods == Handler(LooseCaller \o ListPeriods, writePayrollError, 200)
handleCreatePeriod ==
  Handler(LooseCaller \o Inputs({"body"}) \o CreatePeriod, writePayrollError,
    201)
handleGetPeriod ==
  Handler(LooseCaller \o Inputs({"periodID"}) \o GetPeriod, writePayrollError,
    200)
handleUpdatePeriod ==
  Handler(LooseCaller \o Inputs({"periodID", "body"}) \o UpdatePeriod,
    writePayrollError, 200)
handleClosePeriod ==
  Handler(LooseCaller \o Inputs({"periodID"}) \o ClosePeriod,
    writePayrollError, 200)
payrollHandleListEntries ==
  Handler(LooseCaller \o Inputs({"periodID"}) \o payrollListEntries,
    writePayrollError, 200)
payrollHandleCreateEntry ==
  Handler(LooseCaller \o Inputs({"periodID", "body"}) \o payrollCreateEntry,
    writePayrollError, 201)
payrollHandleGetEntry ==
  Handler(LooseCaller \o Inputs({"entryID"}) \o payrollGetEntry,
    writePayrollError, 200)
payrollHandleUpdateEntry ==
  Handler(LooseCaller \o Inputs({"entryID", "body"}) \o payrollUpdateEntry,
    writePayrollError, 200)

----------------------------------------------------------------------------
(* internal/absence *)

CreateAbsence ==
  In("absence", May({"ErrInvalidAbsence"}) \o InTx(Member
    \o May({"ErrInvalidAbsence"}) \o Put({"absences"}) \o Audit)
    \o Flow!LookupDefinitionByKey \o Flow!CreateInstance
    \o InTx(Put({"absences"})) \o Flow!createPendingApprovalAndNotify)
ListAbsences == In("absence", InTx(Member))
GetAbsence == In("absence", InTx(Member \o May({"ErrAbsenceNotFound"})))
UpdateAbsence ==
  In("absence", InTx(Member \o May({"ErrAbsenceNotFound",
    "ErrAbsenceNotPending"}) \o MineOr("ErrNotAbsenceOwner")
    \o May({"ErrInvalidAbsence"}) \o Put({"absences"}) \o Audit))
DeleteAbsence ==
  In("absence", InTx(Member \o May({"ErrAbsenceNotFound",
    "ErrAbsenceNotPending"}) \o MineOr("ErrNotAbsenceOwner")
    \o Put({"absences"}) \o Audit))
resolveAbsence(runWorkflowSideEffect) ==
  In("absence", InTx(Member \o Owner \o May({"ErrAbsenceNotFound",
    "ErrAbsenceNotPending", "ErrNoPendingApproval"}))
    \o InTx(May({"ErrNoPendingApproval"})) \o runWorkflowSideEffect
    \o InTx(Put({"absences"}) \o Audit))
Approve == In("absence", resolveAbsence(Flow!Approve))
Reject == In("absence", resolveAbsence(Flow!Reject \o Flow!ExecuteTransition))
writeAbsenceError ==
  Answers("absence", 404, {"ErrFirmNotFound", "ErrAbsenceNotFound",
    "ErrNoPendingApproval"}) @@
    Answers("absence", 403, {"ErrNotOwner", "ErrNotAbsenceOwner"}) @@
    Answers("workflow", 403, {"ErrPermissionDenied"}) @@
    Answers("absence", 400, {"ErrInvalidAbsence", "ErrAbsenceNotPending"})
handleListAbsences ==
  Handler(LooseCaller \o ListAbsences, writeAbsenceError, 200)
handleCreateAbsence ==
  Handler(LooseCaller \o Inputs({"body", "personId"}) \o CreateAbsence,
    writeAbsenceError, 201)
handleGetAbsence ==
  Handler(LooseCaller \o Inputs({"absenceID"}) \o GetAbsence,
    writeAbsenceError, 200)
handleUpdateAbsence ==
  Handler(LooseCaller \o Inputs({"absenceID", "body"}) \o UpdateAbsence,
    writeAbsenceError, 200)
handleDeleteAbsence ==
  Handler(LooseCaller \o Inputs({"absenceID"}) \o DeleteAbsence,
    writeAbsenceError, 204)
handleApproveAbsence ==
  Handler(LooseCaller \o Inputs({"absenceID"}) \o Approve, writeAbsenceError,
    200)
handleRejectAbsence ==
  Handler(LooseCaller \o Inputs({"absenceID"}) \o Reject, writeAbsenceError,
    200)

----------------------------------------------------------------------------
(* internal/timetracking *)

timetrackingCreateEntry ==
  In("timetracking", May({"ErrInvalidEntry"}) \o InTx(Member
    \o May({"ErrInvalidEntry"}) \o Put({"time_entries"}) \o Audit))
timetrackingListEntries == In("timetracking", InTx(Member))
timetrackingGetEntry ==
  In("timetracking", InTx(Member \o May({"ErrEntryNotFound"})))
timetrackingUpdateEntry ==
  In("timetracking", May({"ErrInvalidEntry"}) \o InTx(Member
    \o May({"ErrEntryNotFound"}) \o MineOr("ErrNotEntryOwner")
    \o Put({"time_entries"}) \o Audit))
DeleteEntry ==
  In("timetracking", InTx(Member \o May({"ErrEntryNotFound"})
    \o MineOr("ErrNotEntryOwner") \o Put({"time_entries"}) \o Audit))
Summary == In("timetracking", InTx(Member))
writeTimeTrackingError ==
  Answers("timetracking", 404, {"ErrFirmNotFound", "ErrEntryNotFound"}) @@
    Answers("timetracking", 403, {"ErrNotEntryOwner"}) @@
    Answers("timetracking", 400, {"ErrInvalidEntry"})
timetrackingHandleListEntries ==
  Handler(LooseCaller \o timetrackingListEntries, writeTimeTrackingError, 200)
timetrackingHandleCreateEntry ==
  Handler(LooseCaller \o Inputs({"body", "personId"})
    \o timetrackingCreateEntry, writeTimeTrackingError, 201)
timetrackingHandleGetEntry ==
  Handler(LooseCaller \o Inputs({"entryID"}) \o timetrackingGetEntry,
    writeTimeTrackingError, 200)
timetrackingHandleUpdateEntry ==
  Handler(LooseCaller \o Inputs({"entryID", "body"})
    \o timetrackingUpdateEntry, writeTimeTrackingError, 200)
handleDeleteEntry ==
  Handler(LooseCaller \o Inputs({"entryID"}) \o DeleteEntry,
    writeTimeTrackingError, 204)
handleSummary == Handler(LooseCaller \o Summary, writeTimeTrackingError, 200)

----------------------------------------------------------------------------
(* internal/project *)

CreateProject ==
  In("project", May({"ErrInvalidProject"}) \o InTx(Member \o Owner
    \o Put({"projects"}) \o Audit))
ListProjects == In("project", InTx(Member))
GetProject == In("project", InTx(Member \o May({"ErrProjectNotFound"})))
UpdateProject ==
  In("project", May({"ErrInvalidProject"}) \o InTx(Member \o Owner
    \o Put({"projects"}) \o May({"ErrProjectNotFound"}) \o Audit))
GetProjectSummary == In("project", InTx(Member \o May({"ErrProjectNotFound"})))
writeProjectError ==
  Answers("project", 404, {"ErrFirmNotFound", "ErrProjectNotFound"}) @@
    Answers("project", 403, {"ErrNotOwner"}) @@
    Answers("project", 400, {"ErrInvalidProject"})
handleListProjects == Handler(Caller \o ListProjects, writeProjectError, 200)
handleCreateProject ==
  Handler(Caller \o Inputs({"body"}) \o CreateProject, writeProjectError, 201)
handleGetProject ==
  Handler(Caller \o Inputs({"projectID"}) \o GetProject, writeProjectError,
    200)
handleUpdateProject ==
  Handler(Caller \o Inputs({"projectID", "body"}) \o UpdateProject,
    writeProjectError, 200)
handleGetProjectSummary ==
  Handler(Caller \o Inputs({"projectID"}) \o GetProjectSummary,
    writeProjectError, 200)

----------------------------------------------------------------------------
(* RegisterRoutes of each package. *)

hrRoutes ==
  Of("hr", [handleListPeople |-> handleListPeople,
    handleCreatePerson |-> handleCreatePerson,
    handleGetPerson |-> handleGetPerson,
    handleUpdatePerson |-> handleUpdatePerson,
    handleListContracts |-> handleListContracts,
    handleCreateContract |-> handleCreateContract])
payrollRoutes ==
  Of("payroll", [handleListPeriods |-> handleListPeriods,
    handleCreatePeriod |-> handleCreatePeriod,
    handleGetPeriod |-> handleGetPeriod,
    handleUpdatePeriod |-> handleUpdatePeriod,
    handleClosePeriod |-> handleClosePeriod,
    payrollHandleListEntries |-> payrollHandleListEntries,
    payrollHandleCreateEntry |-> payrollHandleCreateEntry,
    payrollHandleGetEntry |-> payrollHandleGetEntry,
    payrollHandleUpdateEntry |-> payrollHandleUpdateEntry])
absenceRoutes ==
  Of("absence", [handleListAbsences |-> handleListAbsences,
    handleCreateAbsence |-> handleCreateAbsence,
    handleGetAbsence |-> handleGetAbsence,
    handleUpdateAbsence |-> handleUpdateAbsence,
    handleDeleteAbsence |-> handleDeleteAbsence,
    handleApproveAbsence |-> handleApproveAbsence,
    handleRejectAbsence |-> handleRejectAbsence])
timetrackingRoutes ==
  Of("timetracking",
    [timetrackingHandleListEntries |-> timetrackingHandleListEntries,
    timetrackingHandleCreateEntry |-> timetrackingHandleCreateEntry,
    timetrackingHandleGetEntry |-> timetrackingHandleGetEntry,
    timetrackingHandleUpdateEntry |-> timetrackingHandleUpdateEntry,
    handleDeleteEntry |-> handleDeleteEntry, handleSummary |-> handleSummary])
projectRoutes ==
  Of("project", [handleListProjects |-> handleListProjects,
    handleCreateProject |-> handleCreateProject,
    handleGetProject |-> handleGetProject,
    handleUpdateProject |-> handleUpdateProject,
    handleGetProjectSummary |-> handleGetProjectSummary])
Routes ==
  hrRoutes @@
    payrollRoutes @@
    absenceRoutes @@
    timetrackingRoutes @@
    projectRoutes
==============================================================================
