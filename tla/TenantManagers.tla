-------------------------- MODULE TenantManagers --------------------------
(***************************************************************************)
(* Tenants with their nodes, storage, addresses, networks, snapshots and recipes. *)
(* The scripts of their managers, method by method.                        *)
(***************************************************************************)
EXTENDS Scripts

\* TenantExternalIPManager, tenant_external_ips.py
TenantIPReads == [list |-> Lists, get |-> KeyOrName]
TenantIPWrites ==
    [create |-> {<<"validate", "post", "pause", "find">>, <<"validate", "look up", "post", "pause", "find">>},
     delete |-> Deletes, delete_by_ip |-> One(<<"find", "delete">>)]

\* TenantLayer2Manager, tenant_layer2.py
TenantLayer2Reads == [list |-> Lists, get |-> KeyOrName]
TenantLayer2Create ==
    [create |-> After(<<"validate">>, {<<"post", "get if keyed", "pause", "find if keyless">>,
     <<"look up", "post", "get if keyed", "pause", "find if keyless">>})]
TenantLayer2Writes ==
    [update |-> One(PutGet), delete |-> Deletes, delete_by_network |-> One(<<"find", "delete">>)]

\* TenantManager, tenant_manager.py
TenantReads ==
    [list |-> Lists, get |-> KeyOrName, list_running |-> Lists, list_stopped |-> Lists, list_by_status |-> Lists,
     create |-> One(PostGet)]
TenantPower ==
    [update |-> One(PutGet), power_on |-> Acts, power_off |-> Acts, reset |-> Acts, restart |-> Acts, clone |-> Acts]
TenantManagers ==
    [snapshots |-> One(ByKey), storage |-> One(ByKey), nodes |-> One(ByKey), network_blocks |-> One(ByKey),
     external_ips |-> One(ByKey), l2_networks |-> One(ByKey),
     connect_context |-> After(<<"validate">>, {<<"get", "check">>, <<"find", "check">>}), shared_objects |-> One(<<"read aside">>)]
TenantOthers ==
    [send_file |-> Acts, create_crash_cart |-> One(<<"get", "validate", "look up", "write aside">>), enable_isolation |-> Acts,
     delete_crash_cart |-> One(<<"get", "validate", "look up", "write aside">>), disable_isolation |-> Acts]

\* TenantNetworkBlockManager, tenant_network_blocks.py
NetworkBlockReads == [list |-> Lists, get |-> KeyOrName]
NetworkBlockWrites ==
    [create |-> {<<"validate", "post", "pause", "find">>, <<"validate", "look up", "post", "pause", "find">>},
     delete |-> Deletes, delete_by_cidr |-> One(<<"find", "delete">>)]

\* TenantNodeManager, tenant_nodes.py
TenantNodeReads == [list |-> Lists, get |-> KeyOrName]
TenantNodeWrites ==
    [create |-> One(<<"validate", "post", "get if keyed", "pause", "last if keyless">>), update |-> One(PutGet),
     delete |-> Deletes]

\* TenantRecipeManager, tenant_recipes.py
TenantRecipeReads == [list |-> Lists \cup {<<"resolve or ignore", "list">>}, get |-> KeyOrName]
TenantRecipeWrites ==
    [update |-> PutIfAny, delete |-> Deletes, download |-> Acts, deploy |-> One(PostGetOrFind)]

\* TenantRecipeInstanceManager, tenant_recipes.py
TenantRecipeInstances ==
    [list |-> Lists, get |-> KeyOrName, create |-> One(PostGetOrFind), delete |-> Deletes]

\* TenantRecipeLogManager, tenant_recipes.py
TenantRecipeLogs == [list |-> Lists, get |-> KeyOnly, list_errors |-> Lists, list_warnings |-> Lists]

\* TenantSnapshotManager, tenant_snapshots.py
TenantSnapshotReads == [list |-> Lists, get |-> KeyOrName]
TenantSnapshotWrites ==
    [create |-> One(<<"validate", "post", "pause", "find">>), delete |-> Deletes,
     restore |-> One(<<"get parent", "check parent", "act on parent">>)]

\* TenantStatsManager, tenant_stats.py
TenantStats == [get |-> One(<<"first">>), history_short |-> Lists, history_long |-> Lists]

\* TenantLogManager, tenant_stats.py
TenantLogs == [list |-> Lists, get |-> KeyOnly]

\* TenantStorageManager, tenant_storage.py
TenantStorageReads == [list |-> Lists, get |-> KeyOrName]
TenantStorageWrites ==
    [create |-> One(<<"validate", "look up", "post", "pause", "find">>), update |-> One(PutGet),
     update_by_tier |-> One(<<"validate", "find", "put", "get">>), delete |-> Deletes,
     delete_by_tier |-> One(<<"find", "delete">>)]

\* SharedObjectManager, shared_objects.py
SharedObjectReads == [list |-> Lists, get |-> KeyOrName]
SharedObjectWrites ==
    [import_object |-> Acts, refresh_object |-> Acts, delete |-> Deletes, list_for_tenant |-> Lists]

\* Tenant, tenant_manager.py
TenantObjectPower ==
    [power_on |-> OnObject(One(<<"validate", "act">>)), power_off |-> OnObject(One(<<"validate", "act">>)),
     reset |-> OnObject(One(<<"validate", "act">>)), clone |-> OnObject(One(<<"validate", "act">>)),
     refresh |-> OnObject(One(ByKey)), save |-> OnObject(One(PutGet))]
TenantObjectAccess ==
    [set_ui_ip |-> OnObject(One(<<"validate", "look up", "write aside">>)),
     send_file |-> OnObject(One(<<"validate", "act">>)),
     create_crash_cart |-> OnObject(One(<<"validate", "look up", "write aside">>)),
     delete_crash_cart |-> OnObject(One(<<"validate", "look up", "write aside">>))]
TenantObjectIsolation ==
    [enable_isolation |-> OnObject(One(<<"validate", "check", "act">>)),
     disable_isolation |-> OnObject(One(<<"validate", "check", "act">>)),
     connect |-> OnObject(One(<<"validate", "check", "validate">>))]

\* TenantDashboardManager, tenant_stats.py
TenantDashboards == [get |-> One(<<"read aside">>)]

-----------------------------------------------------------------------------
\* Managers that work within one parent, and those that do not.
TenantCalls ==
    Within({
        TenantIPReads, TenantIPWrites, TenantLayer2Reads, TenantLayer2Create,
        TenantLayer2Writes, NetworkBlockReads, NetworkBlockWrites, TenantNodeReads,
        TenantNodeWrites, TenantRecipeInstances, TenantRecipeLogs, TenantSnapshotReads,
        TenantSnapshotWrites, TenantStats, TenantLogs, TenantStorageReads, TenantStorageWrites})
    \cup Free({
        TenantReads, TenantPower, TenantManagers, TenantOthers, TenantRecipeReads,
        TenantRecipeWrites, TenantRecipeInstances, TenantRecipeLogs, SharedObjectReads,
        SharedObjectWrites, TenantObjectPower, TenantObjectAccess, TenantObjectIsolation,
        TenantDashboards})
=============================================================================
