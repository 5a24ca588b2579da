------------------------- MODULE ComputeManagers --------------------------
(***************************************************************************)
(* Virtual machines with their drives, interfaces, devices and snapshots, and the *)
(* recipes, catalogs, imports and exports they come from and go to.        *)
(* The scripts of their managers, method by method.                        *)
(***************************************************************************)
EXTENDS Scripts

\* CatalogRepositoryStatusManager, catalogs.py
RepositoryStatus == [list |-> Lists, get |-> KeyOnly, get_for_repository |-> One(<<"first">>)]

\* CatalogRepositoryLogManager, catalogs.py
RepositoryLogs ==
    [list |-> Lists, get |-> KeyOnly, list_errors |-> One(<<"list loose">>), list_warnings |-> Lists]

\* CatalogLogManager, catalogs.py
CatalogLogs ==
    [list |-> Lists, get |-> KeyOnly, list_errors |-> One(<<"list loose">>), list_warnings |-> Lists]

\* CatalogManager, catalogs.py
CatalogReads == [list |-> Lists, get |-> KeyOrName]
CatalogWrites == [create |-> One(PostGetOrFind), update |-> PutIfAny, delete |-> Deletes]

\* CatalogRepositoryManager, catalogs.py
RepositoryReads == [list |-> Lists, get |-> KeyOrName]
RepositoryCreate == [create |-> One(PostGetOrFind)]
RepositoryWrites == [update |-> PutIfAny, delete |-> Deletes, refresh |-> Acts]

\* CloudInitFileManager, cloudinit_files.py
CloudInitReads == [list |-> Lists, get |-> KeyOrName]
CloudInitWrites ==
    [create |-> One(<<"validate">> \o PostGetOrAnswer),
     update |-> After(<<"validate">>, {ByKey, PutAnswer}), delete |-> Deletes]
CloudInitContent == [get_content |-> One(ByKey), list_for_vm |-> Lists]

\* VMCloudInitFileManager, cloudinit_files.py
VMCloudInitCalls ==
    [list |-> Lists, get |-> KeyOrName, create |-> One(<<"validate">> \o PostGetOrAnswer)]

\* DriveManager, drives.py
DriveReads == [list |-> Lists, get |-> KeyOrName]
DriveWrites ==
    [create |-> {<<"validate">> \o PostGet, <<"validate", "look up or invalid">> \o PostGet},
     delete |-> Deletes, update |-> One(PutAnswer)]
DriveImport == [import_drive |-> {Invalid, PostGet, <<"look up or invalid">> \o PostGet}]

\* FileManager, files.py
FileReads == [list |-> Lists, get |-> KeyOrName]
FileOthers ==
    [download |-> {<<"get", "validate", "get">>, <<"find", "validate", "get">>, Invalid}, delete |-> Deletes]

\* MachineNicStatsManager, nic_stats.py
NicStats == [get |-> {ByKey, <<"first">>, Invalid}]

\* MachineNicStatusManager, nic_stats.py
NicStatus == [get |-> {ByKey, <<"first">>, Invalid}]

\* MachineNicFabricStatusManager, nic_stats.py
NicFabricStatus == [get |-> {ByKey, <<"first">>, Invalid}]

\* MachineNICManager, nics.py
MachineNICs == [list |-> Lists, get |-> KeyOrName]

\* NICManager, nics.py
NICReads == [list |-> Lists, get |-> KeyOrName]
NICWrites ==
    [create |-> {PostGet, <<"look up or invalid">> \o PostGet}, delete |-> Deletes,
     update |-> {PutAnswer, <<"look up or invalid">> \o PutAnswer}]

\* RecipeQuestionManager, recipe_common.py
RecipeQuestionReads == [list |-> Lists, get |-> KeyOrName]
RecipeQuestionCreate == [create |-> One(PostGetOrFind)]
RecipeQuestionWrites == [update |-> PutIfAny, delete |-> Deletes]

\* RecipeSectionManager, recipe_common.py
RecipeSectionReads == [list |-> Lists, get |-> KeyOrName]
RecipeSectionWrites == [create |-> One(PostGetOrFind), update |-> PutIfAny, delete |-> Deletes]

\* VMSnapshotManager, snapshots.py
VMSnapshotCalls == [list |-> Lists, get |-> KeyOrName, create |-> One(<<"post">>), delete |-> Deletes]
VMSnapshotRestore ==
    [restore |-> After(<<"get", "validate", "look up or invalid">>,
     {<<"write aside">>, <<"write aside", "pause", "write aside">>, <<"check parent", "act on parent">>,
     <<"check parent", "act on parent", "pause", "act on parent">>})]

\* TagMemberManager, tags.py
TagMemberAdd == [list |-> Lists, add |-> One(<<"post", "find created if keyless">>)]
TagMemberRemove ==
    [remove |-> Deletes, remove_resource |-> One(<<"find", "delete">>),
     remove_vm |-> One(<<"find", "delete">>),
     remove_network |-> One(<<"find", "delete">>),
     remove_tenant |-> One(<<"find", "delete">>)]

\* TagManager, tags.py
TagReads ==
    [list |-> Lists \cup {<<"resolve or empty", "list">>}, get |-> KeyOrName \cup {<<"resolve", "find">>}]
TagWrites == [create |-> One(PostGetOrFind), update |-> PutIfAny, delete |-> Deletes]

\* TagCategoryManager, tags.py
TagCategoryReads == [list |-> Lists, get |-> KeyOrName]
TagCategoryCreate == [create |-> One(PostGetOrFind)]
TagCategoryWrites == [update |-> PutIfAny, delete |-> Deletes]

\* VmImportManager, vm_imports.py
VmImportReads == [list |-> Lists, get |-> KeyOrName]
VmImportCreate == [create |-> One(<<"validate">> \o PostGetOrFind)]
VmImportWrites == [update |-> PutIfAny, delete |-> Deletes, start_import |-> Acts, abort_import |-> Acts]

\* VmImportLogManager, vm_imports.py
VmImportLogs == [list |-> Lists, get |-> KeyOnly, list_errors |-> Lists, list_warnings |-> Lists]

\* VmRecipeManager, vm_recipes.py
VmRecipeReads == [list |-> Lists \cup {<<"resolve or ignore", "list">>}, get |-> KeyOrName]
VmRecipeWrites ==
    [update |-> PutIfAny, delete |-> Deletes, download |-> Acts, deploy |-> One(PostGetOrFind)]

\* VmRecipeInstanceManager, vm_recipes.py
VmRecipeInstanceReads == [list |-> Lists, get |-> KeyOrName]
VmRecipeInstanceWrites ==
    [create |-> {PostGetOrFind, <<"list parents">> \o PostGetOrFind,
     <<"list parents", "look up or invalid">> \o PostGetOrFind},
     update |-> PutIfAny \cup {<<"get", "put", "get">>, <<"get", "list parents", "look up or invalid", "put", "get">>},
     delete |-> Deletes]

\* VmRecipeLogManager, vm_recipes.py
VmRecipeLogs == [list |-> Lists, get |-> KeyOnly, list_errors |-> Lists, list_warnings |-> Lists]

\* VMManager, vms.py
VMReads == [list |-> Lists, get |-> KeyOrName, list_running |-> Lists, list_stopped |-> Lists]
VMCreate ==
    [create |-> After(<<"validate">> \o PostGet, {<<>>, <<"validate", "write aside">>, <<"validate", "write aside", "validate", "write aside">>})]

\* VolumeVmExportManager, volume_vm_exports.py
VmExportReads == [list |-> Lists, get |-> KeyOrName]
VmExportWrites == [create |-> One(PostGetOrFind), update |-> PutIfAny, delete |-> Deletes]
VmExportActions == [start_export |-> Acts, stop_export |-> Acts, cleanup_exports |-> Acts]

\* VolumeVmExportStatManager, volume_vm_exports.py
VmExportStats == [list |-> Lists, get |-> KeyOnly, delete |-> Deletes]

\* VMSnapshot, snapshots.py
VMSnapshotObject ==
    [restore |-> OnObject(After(<<"validate">>, {<<"write aside">>, <<"write aside", "pause", "write aside">>}))]

\* VM, vms.py
VMObjectDatasource == [set_cloudinit_datasource |-> OnObject(One(<<"put", "note">>))]
VMObjectPower ==
    [power_on |-> OnObject(One(<<"validate", "act">>)), power_off |-> OnObject(Acts), reset |-> OnObject(Acts),
     guest_reboot |-> OnObject(Acts), guest_shutdown |-> OnObject(Acts)]
VMObjectActions ==
    [clone |-> OnObject(Acts), move |-> OnObject(Acts), migrate |-> OnObject(Acts), hibernate |-> OnObject(Acts),
     restore |-> OnObject(Acts)]
VMObjectDevices == [hotplug_drive |-> OnObject(Acts), hotplug_nic |-> OnObject(Acts)]
VMObjectTags ==
    [tag |-> OnObject(One(<<"write aside">>)), untag |-> OnObject(One(<<"look up", "write aside">>)),
     get_tags |-> OnObject(One(<<"read aside">>))]
VMObjectFavorites ==
    [favorite |-> OnObject(One(<<"validate", "look up or invalid", "write aside">>)),
     unfavorite |-> OnObject(After(<<"validate", "look up or invalid", "read aside">>, {<<>>, <<"write aside">>})),
     is_favorite |-> OnObject({<<>>, <<"read aside">>, <<"read aside", "read aside">>})]
VMObjectOthers == [get_console_info |-> OnObject(One(ByKey))]

-----------------------------------------------------------------------------
\* Managers that work within one parent, and those that do not.
ComputeCalls ==
    Within({
        RepositoryStatus, RepositoryLogs, CatalogLogs, CatalogReads, CatalogWrites,
        CloudInitReads, CloudInitWrites, CloudInitContent, VMCloudInitCalls, DriveReads,
        DriveWrites, DriveImport, NicStats, NicStatus, NicFabricStatus, MachineNICs, NICReads,
        NICWrites, RecipeQuestionReads, RecipeQuestionCreate, RecipeQuestionWrites,
        RecipeSectionReads, RecipeSectionWrites, VMSnapshotCalls, VMSnapshotRestore,
        TagMemberAdd, TagMemberRemove, VmImportLogs, VmRecipeInstanceReads,
        VmRecipeInstanceWrites, VmRecipeLogs, VmExportStats, VMSnapshotObject})
    \cup Free({
        RepositoryStatus, RepositoryLogs, CatalogLogs, CatalogReads, CatalogWrites,
        RepositoryReads, RepositoryCreate, RepositoryWrites, CloudInitReads, CloudInitWrites,
        CloudInitContent, FileReads, FileOthers, MachineNICs, RecipeQuestionReads,
        RecipeQuestionCreate, RecipeQuestionWrites, RecipeSectionReads, RecipeSectionWrites,
        TagReads, TagWrites, TagCategoryReads, TagCategoryCreate, TagCategoryWrites,
        VmImportReads, VmImportCreate, VmImportWrites, VmImportLogs, VmRecipeReads,
        VmRecipeWrites, VmRecipeInstanceReads, VmRecipeInstanceWrites, VmRecipeLogs, VMReads,
        VMCreate, VmExportReads, VmExportWrites, VmExportActions, VmExportStats,
        VMObjectDatasource, VMObjectPower, VMObjectActions, VMObjectDevices, VMObjectTags,
        VMObjectFavorites, VMObjectOthers})
=============================================================================
