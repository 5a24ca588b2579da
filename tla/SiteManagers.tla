--------------------------- MODULE SiteManagers ---------------------------
(***************************************************************************)
(* Cloud snapshots, their profiles, sites and the replication between them. *)
(* The scripts of their managers, method by method.                        *)
(***************************************************************************)
EXTENDS Scripts

\* CloudSnapshotVMManager, cloud_snapshots.py
CloudSnapshotVMs == [list |-> Lists, get |-> {<<"get here">>, ByName, Invalid}]

\* CloudSnapshotTenantManager, cloud_snapshots.py
CloudSnapshotTenants == [list |-> Lists, get |-> {<<"get here">>, ByName, Invalid}]

\* CloudSnapshotManager, cloud_snapshots.py
CloudSnapshotReads ==
    [list |-> Lists \cup {<<"list", "expand">>},
     get |-> KeyOrName \cup {<<"get", "expand">>, <<"find", "expand">>}]
CloudSnapshotWrites ==
    [create |-> {PostGetOrAnswer, <<"post", "need answer", "wait task", "get if keyed">>}, delete |-> Deletes]
CloudSnapshotRestores ==
    [restore_vm |-> {Invalid, <<"resolve", "find", "act">>, <<"resolve", "act">>, <<"resolve", "invalid">>, <<"act">>},
     restore_tenant |-> {Invalid, <<"resolve", "find", "act">>, <<"resolve", "act">>, <<"resolve", "invalid">>, <<"act">>}]

\* SiteSyncOutgoingManager, site_syncs.py
OutgoingReads ==
    [list |-> Lists \cup {<<"resolve", "list">>}, list_enabled |-> Lists, list_disabled |-> Lists, list_for_site |-> Lists \cup {<<"resolve", "list">>},
     get |-> KeyOrName \cup {<<"resolve", "find">>}]
OutgoingActions ==
    [enable |-> ActGet, disable |-> ActGet, start |-> ActGet, stop |-> ActGet,
     add_to_queue |-> One(<<"validate", "act">>), invoke |-> Acts]
OutgoingCreate == [create |-> One(PostGetOrFind)]
OutgoingWrites ==
    [update |-> PutIfAny, delete |-> Deletes, set_throttle |-> ActGet, disable_throttle |-> ActGet,
     refresh_remote_snapshots |-> ActGet]

\* SiteSyncIncomingManager, site_syncs.py
IncomingReads ==
    [list |-> Lists \cup {<<"resolve", "list">>}, list_for_site |-> Lists \cup {<<"resolve", "list">>},
     get |-> KeyOrName \cup {<<"resolve", "find">>}]
IncomingWrites == [create |-> One(PostGetOrFind), update |-> PutIfAny, delete |-> Deletes]
IncomingActions == [enable |-> ActGet, disable |-> ActGet]

\* SiteSyncScheduleManager, site_syncs.py
SyncSchedules ==
    [list |-> Lists \cup {<<"resolve", "list">>}, list_for_sync |-> Lists \cup {<<"resolve", "list">>}, get |-> One(ByKey)]
SyncScheduleWrites == [create |-> One(<<"validate">> \o PostGetOrAnswer), delete |-> Deletes]

\* SiteSyncStatsManager, site_syncs.py
SyncStats == [get |-> One(<<"peek any">>), list |-> Lists, history |-> Lists]

\* SiteSyncQueueManager, site_syncs.py
SyncQueueLists ==
    [list |-> Lists, list_queued |-> Lists, list_syncing |-> Lists, list_complete |-> Lists, list_errors |-> Lists]
SyncQueueOthers == [get |-> One(ByKey), delete |-> Deletes, count |-> Lists, count_pending |-> Lists]

\* SiteSyncRemoteSnapManager, site_syncs.py
RemoteSnaps == [list |-> Lists, get |-> KeyOrName, request_sync_back |-> Acts, set_retention |-> Acts]

\* SiteSyncIncomingVerifiedManager, site_syncs.py
IncomingVerified ==
    [get |-> One(<<"peek any">>), list_remote_snapshots |-> Acts, request_snapshot |-> Acts, set_retention |-> Acts]

\* SiteSyncOutgoingLogManager, site_syncs.py
OutgoingLogs == [list |-> Lists, list_errors |-> Lists, list_warnings |-> Lists]

\* SiteSyncIncomingLogManager, site_syncs.py
IncomingLogs == [list |-> Lists, list_errors |-> Lists, list_warnings |-> Lists]

\* SiteManager, sites.py
SiteReads ==
    [list |-> Lists, list_enabled |-> Lists, list_disabled |-> Lists, list_by_status |-> Lists, get |-> KeyOrName]
SiteCreate == [create |-> One(<<"validate">> \o PostGetOrAnswer)]
SiteWrites == [update |-> PutIfAny, delete |-> Deletes, enable |-> One(PutGet), disable |-> One(PutGet)]
SiteActions == [reauthenticate |-> ActGet, refresh_site |-> ActGet, refresh_settings |-> ActGet]

\* SnapshotProfilePeriodManager, snapshot_profiles.py
ProfilePeriodReads == [list |-> Lists, get |-> {<<"get here">>, ByName, Invalid}]
ProfilePeriodWrites ==
    [create |-> One(<<"validate">> \o PostGetOrAnswer),
     update |-> After(<<"validate">>, {<<"get here">>, <<"put", "get here">>}), delete |-> Deletes]

\* SnapshotProfileManager, snapshot_profiles.py
SnapshotProfileReads ==
    [list |-> Lists \cup {<<"list", "expand">>},
     get |-> KeyOrName \cup {<<"get", "expand">>, <<"find", "read aside">>}]
SnapshotProfileWrites ==
    [create |-> One(<<"validate">> \o PostGetOrAnswer), update |-> One(PutGet), delete |-> Acts]

\* CloudSnapshot, cloud_snapshots.py
CloudSnapshotObject ==
    [get_vms |-> OnObject(One(<<"read aside">>)), get_tenants |-> OnObject(One(<<"read aside">>)), delete |-> OnObject(One(<<"check", "delete">>))]

-----------------------------------------------------------------------------
\* Managers that work within one parent, and those that do not.
SiteCalls ==
    Within({
        CloudSnapshotVMs, CloudSnapshotTenants, SyncStats, SyncQueueLists, SyncQueueOthers,
        RemoteSnaps, IncomingVerified, OutgoingLogs, IncomingLogs, ProfilePeriodReads,
        ProfilePeriodWrites})
    \cup Free({
        CloudSnapshotReads, CloudSnapshotWrites, CloudSnapshotRestores, OutgoingReads,
        OutgoingActions, OutgoingCreate, OutgoingWrites, IncomingReads, IncomingWrites,
        IncomingActions, SyncSchedules, SyncScheduleWrites, SiteReads, SiteCreate, SiteWrites,
        SiteActions, SnapshotProfileReads, SnapshotProfileWrites, CloudSnapshotObject})
=============================================================================
