-------------------------- MODULE SystemManagers --------------------------
(***************************************************************************)
(* What belongs to the system as a whole: alarms, tasks and their triggers, *)
(* logs, updates, settings, certificates, webhooks and subscriptions.      *)
(* The scripts of their managers, method by method.                        *)
(***************************************************************************)
EXTENDS Scripts

\* AlarmManager, alarms.py
AlarmLists ==
    [list |-> Lists, list_critical |-> Lists, list_errors |-> Lists, list_warnings |-> Lists,
     list_by_owner_type |-> Lists]
AlarmActions ==
    [get |-> KeyOnly, snooze |-> One(<<"validate">> \o PutGet), snooze_to |-> One(<<"validate">> \o PutGet),
     unsnooze |-> One(PutGet), resolve |-> One(<<"get", "check", "act">>)]
AlarmHistory == [list_history |-> Lists, get_history |-> One(ByKey), get_summary |-> Lists]

\* ResourceManager, base.py
ResourceManagerCalls ==
    [list |-> Lists, get |-> KeyOrName, create |-> One(PostAnswer), update |-> One(PutAnswer),
     delete |-> Deletes, action |-> Acts]

\* BillingManager, billing.py
BillingReads == [list |-> Lists, get |-> KeyOnly, get_latest |-> One(<<"last">>)]
BillingOthers == [generate |-> One(<<"post">>), get_summary |-> Lists]

\* CertificateManager, certificates.py
CertificateLists ==
    [list |-> Lists, list_valid |-> Lists, list_by_type |-> Lists, list_expiring |-> Lists,
     list_expired |-> Lists]
CertificateCreate ==
    [get |-> KeyOrName \cup {<<"peek", "stop if found", "find">>},
     create |-> One(<<"validate">> \o PostGetOrAnswer)]
CertificateWrites ==
    [update |-> {ByKey, PutAnswer}, delete |-> Deletes,
     renew |-> {<<"get", "check">>, <<"get", "check">> \o PutGet}, refresh |-> One(<<"get", "check">> \o PutGet)]

\* SystemDiagnosticManager, diagnostics.py
DiagnosticCalls ==
    [list |-> Lists, get |-> KeyOrName, create |-> One(PostGetOrAnswer), wait |-> One(<<"wait">>),
     send_to_support |-> Acts]

\* LogManager, logs.py
LogLists == [list |-> Lists]
LogReads ==
    [list_errors |-> Lists, list_by_level |-> Lists, list_by_object_type |-> Lists, list_by_user |-> Lists,
     search |-> Lists, get |-> KeyOnly]

\* SettingsManager, system.py
Settings == [list |-> Lists, get |-> KeyOnly, list_modified |-> Lists]
SettingWrites ==
    [update |-> {Invalid, <<"get", "put", "get">>}, reset |-> {ByKey, <<"get", "get", "put", "get">>}]

\* LicenseManager, system.py
Licenses ==
    [list |-> Lists, get |-> KeyOrName, generate_payload |-> One(<<"write aside">>), add |-> One(PostGetOrAnswer)]

\* SystemDiagnosticManager, system.py
SystemDiagnosticReads == [list |-> Lists, get |-> One(ByKey), build |-> One(PostGetOrAnswer)]
SystemDiagnosticWrites ==
    [send_to_support |-> One(<<"get", "check", "act">>), delete |-> Deletes, update |-> PutIfAny,
     get_download_url |-> {<<"get", "check">>, <<"get", "check", "read aside">>}]

\* RootCertificateManager, system.py
RootCertificates ==
    [list |-> Lists, get |-> One(ByKey), get_by_subject |-> One(ByName), get_by_fingerprint |-> One(ByName),
     create |-> One(PostGetOrAnswer), delete |-> Deletes]

\* SystemManager, system.py
SystemReads == [statistics |-> One(<<"read aside">>), inventory |-> One(<<"expand">>)]

\* TaskEventManager, task_events.py
TaskEventReads == [list |-> Lists, get |-> KeyOnly]
TaskEventWrites ==
    [create |-> One(PostGetOrAnswer), update |-> PutIfAny, delete |-> Deletes, trigger |-> Acts,
     list_for_task |-> Lists, list_for_owner |-> Lists, list_by_table |-> Lists]

\* TaskScheduleTriggerManager, task_schedule_triggers.py
TaskScheduleTriggers ==
    [list |-> Lists, get |-> KeyOnly, create |-> One(PostGetOrAnswer), delete |-> Deletes, trigger |-> Acts,
     list_for_task |-> Lists, list_for_schedule |-> Lists]

\* TaskScheduleManager, task_schedules.py
TaskScheduleReads == [list |-> Lists, get |-> KeyOrName]
TaskScheduleCreate == [create |-> One(PostGetOrAnswer)]
TaskScheduleWrites ==
    [update |-> PutIfAny, delete |-> Deletes, enable |-> One(PutGet), disable |-> One(PutGet),
     get_schedule |-> Acts, list_enabled |-> Lists, list_disabled |-> Lists]

\* TaskScriptManager, task_scripts.py
TaskScriptReads == [list |-> Lists, get |-> KeyOrName]
TaskScriptWrites ==
    [create |-> One(PostGetOrAnswer), update |-> PutIfAny, delete |-> Deletes, run |-> Acts]

\* TaskManager, tasks.py
TaskReads ==
    [list |-> Lists, list_running |-> Lists, list_idle |-> Lists, list_enabled |-> Lists, list_disabled |-> Lists, get |-> KeyOrName]
TaskWait ==
    [wait |-> One(<<"wait">>), enable |-> One(PutGet), disable |-> One(PutGet), execute |-> ActGet, cancel |-> ActGet]
TaskWrites ==
    [create |-> One(PostGetOrAnswer), update |-> PutIfAny, delete |-> Deletes, list_by_owner |-> Lists, list_by_action |-> Lists]

\* UpdateLogManager, updates.py
UpdateLogs == [list |-> Lists, get |-> KeyOnly, list_errors |-> Lists, list_warnings |-> Lists]

\* UpdateBranchManager, updates.py
UpdateBranches == [list |-> Lists, get |-> KeyOrName]

\* UpdateSourceStatusManager, updates.py
UpdateSourceStatus == [list |-> Lists, get |-> KeyOnly, get_for_source |-> One(<<"first">>)]

\* UpdateSourcePackageManager, updates.py
UpdateSourcePackages ==
    [list |-> Lists, get |-> KeyOrName, list_pending |-> Lists, list_downloaded |-> Lists]

\* UpdateSourceManager, updates.py
UpdateSourceReads == [list |-> Lists, get |-> KeyOrName]
UpdateSourceWrites ==
    [create |-> One(PostGetOrFind), update |-> PutIfAny, delete |-> Deletes, action |-> Acts,
     get_status |-> One(<<"first">>)]

\* UpdatePackageManager, updates.py
UpdatePackages == [list |-> Lists, get |-> KeyOnly]

\* UpdateSettingsManager, updates.py
UpdateSettingsWrites == [get |-> One(ByKey), update |-> PutIfAny]
UpdateSettingsActions ==
    [check |-> One(SettingsAction), download |-> One(SettingsAction), install |-> One(SettingsAction),
     update_all |-> One(SettingsAction)]

\* WebhookManager, webhooks.py
WebhookReads == [list |-> Lists, get |-> KeyOrName]
WebhookWrites ==
    [create |-> One(PostGetOrAnswer), update |-> {ByKey, PutAnswer}, delete |-> Deletes, send |-> Acts]
WebhookHistories ==
    [history |-> Lists \cup {<<"resolve", "list">>}, get_history |-> One(ByKey), list_pending |-> Lists,
     list_failed |-> Lists]

\* SystemDiagnostic, system.py
SystemDiagnosticObject ==
    [refresh |-> OnObject(One(ByKey)), send_to_support |-> OnObject(One(<<"check", "get", "check", "act">>)),
     wait_for_completion |-> OnObject(One(<<"wait">>)), delete |-> OnObject(Deletes)]

\* UpdateDashboardManager, updates.py
UpdateDashboards == [get |-> One(<<"look up">>)]

-----------------------------------------------------------------------------
\* Managers that work within one parent, and those that do not.
SystemCalls ==
    Within({
        ResourceManagerCalls, TaskEventReads, TaskEventWrites, TaskScheduleTriggers,
        UpdateSourceStatus, UpdateSourcePackages, UpdatePackages, WebhookHistories})
    \cup Free({
        AlarmLists, AlarmActions, AlarmHistory, ResourceManagerCalls, BillingReads,
        BillingOthers, CertificateLists, CertificateCreate, CertificateWrites, DiagnosticCalls,
        LogLists, LogReads, Settings, SettingWrites, Licenses, SystemDiagnosticReads,
        SystemDiagnosticWrites, RootCertificates, SystemReads, TaskEventReads, TaskEventWrites,
        TaskScheduleTriggers, TaskScheduleReads, TaskScheduleCreate, TaskScheduleWrites,
        TaskScriptReads, TaskScriptWrites, TaskReads, TaskWait, TaskWrites, UpdateLogs,
        UpdateBranches, UpdateSourceStatus, UpdateSourcePackages, UpdateSourceReads,
        UpdateSourceWrites, UpdatePackages, UpdateSettingsWrites, UpdateSettingsActions,
        WebhookReads, WebhookWrites, WebhookHistories, SystemDiagnosticObject, UpdateDashboards})
=============================================================================
