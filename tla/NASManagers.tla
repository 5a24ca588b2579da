--------------------------- MODULE NASManagers ----------------------------
(***************************************************************************)
(* NAS services with their volumes, shares, users, synchronisations and antivirus. *)
(* The scripts of their managers, method by method.                        *)
(***************************************************************************)
EXTENDS Scripts

\* VolumeAntivirusManager, nas_antivirus.py
AntivirusReads ==
    [list |-> Lists \cup {<<"resolve or ignore", "list">>},
     get |-> {ByKey, <<"resolve", "first">>, <<"first">>, Invalid}]
AntivirusWrites ==
    [create |-> {<<"post", "get if keyed", "first if keyless">>}, update |-> PutIfAny, delete |-> Deletes, _action |-> Acts]

\* VolumeAntivirusStatusManager, nas_antivirus.py
AntivirusStatus == [get |-> {ByKey, <<"first">>, Invalid}, list |-> Lists]

\* VolumeAntivirusStatsManager, nas_antivirus.py
AntivirusStats == [get |-> {ByKey, <<"first">>, Invalid}, list |-> Lists]

\* VolumeAntivirusInfectionManager, nas_antivirus.py
AntivirusInfections == [list |-> Lists]

\* VolumeAntivirusLogManager, nas_antivirus.py
AntivirusLogs == [list |-> Lists]

\* NasServiceAntivirusManager, nas_antivirus.py
ServiceAntivirus == [get |-> {ByKey, <<"first">>, Invalid}, list |-> Lists, update |-> PutIfAny]

\* NASCIFSShareManager, nas_cifs.py
CIFSShareReads ==
    [list |-> Lists \cup {<<"resolve or ignore", "list">>},
     get |-> KeyOrName \cup {<<"resolve or ignore", "find">>}]
CIFSShareCreate == [create |-> {PostGetOrFind, <<"resolve or invalid">> \o PostGetOrFind}]
CIFSShareWrites ==
    [update |-> PutIfAny, delete |-> Deletes, enable |-> One(PutGet), disable |-> One(PutGet)]

\* NASNFSShareManager, nas_nfs.py
NFSShareReads ==
    [list |-> Lists \cup {<<"resolve or ignore", "list">>},
     get |-> KeyOrName \cup {<<"resolve or ignore", "find">>}]
NFSShareCreate ==
    [create |-> After(<<"validate">>, {PostGetOrFind, <<"resolve or invalid">> \o PostGetOrFind})]
NFSShareWrites ==
    [update |-> PutIfAny, delete |-> Deletes, enable |-> One(PutGet), disable |-> One(PutGet)]

\* NASServiceManager, nas_services.py
NASServiceReads ==
    [list |-> Lists, list_running |-> Lists, list_stopped |-> Lists,
     get |-> KeyOrName]
NASServiceCreate ==
    [create |-> {<<"look up or invalid", "peek", "refuse found", "look up or invalid", "post", "pause", "find created">>,
     <<"look up or invalid", "peek", "refuse found", "post", "pause", "find created">>}]
NASServiceUpdate ==
    [update |-> {<<"get", "get">>, <<"get", "put", "get">>, <<"get", "follow", "put parent", "get">>,
     <<"get", "follow", "put parent", "put", "get">>},
     delete |-> {<<"get", "check", "follow", "delete parent">>, <<"get", "check", "delete">>}]
NASServicePower ==
    [power_on |-> {<<"get", "follow", "act on parent">>, ByKey},
     power_off |-> {<<"get", "follow", "act on parent">>, ByKey},
     restart |-> {<<"get", "follow", "act on parent">>, ByKey}]
NASServiceCIFS ==
    [get_cifs_settings |-> One(ByKey), set_cifs_settings |-> {ByKey, <<"get", "put", "get">>}]
NASServiceNFS == [get_nfs_settings |-> One(ByKey), set_nfs_settings |-> {ByKey, <<"get", "put", "get">>}]

\* NASUserManager, nas_users.py
NASUserReads ==
    [list |-> Lists \cup {<<"resolve or ignore", "list">>},
     get |-> KeyOrName \cup {<<"resolve", "find">>}]
NASUserWrites ==
    [create |-> {PostGetOrFind, <<"resolve or invalid">> \o PostGetOrFind,
     <<"resolve or invalid", "read aside">> \o PostGetOrFind},
     update |-> PutIfAny \cup {<<"get", "read aside", "get">>, <<"get", "read aside">> \o PutGet}]
NASUserOthers ==
    [delete |-> Deletes, enable |-> One(PutGet), disable |-> One(PutGet), change_password |-> One(PutGet)]

\* NASVolumeFileManager, nas_volume_browser.py
VolumeFiles ==
    [list |-> One(<<"post", "need answer", "need key", "pause", "wait">>),
     get |-> One(<<"post", "need answer", "need key", "pause", "wait">>)]

\* NASVolumeSyncManager, nas_volume_syncs.py
VolumeSyncReads ==
    [list |-> Lists \cup {<<"resolve or ignore", "list">>},
     get |-> KeyOrName \cup {<<"resolve or ignore", "find">>}]
VolumeSyncCreate == [create |-> {PostGetOrFind, <<"resolve or invalid">> \o PostGetOrFind}]
VolumeSyncWrites == [update |-> PutIfAny, delete |-> Deletes]
VolumeSyncOthers == [enable |-> One(PutGet), disable |-> One(PutGet), start |-> Acts, stop |-> Acts]

\* NASVolumeManager, nas_volumes.py
VolumeReads == [list |-> Lists \cup {<<"resolve or ignore", "list">>}, get |-> KeyOrName]
VolumeCreate == [create |-> {PostGetOrFind, <<"look up or invalid">> \o PostGetOrFind}]
VolumeWrites ==
    [update |-> PutIfAny, delete |-> Deletes, enable |-> One(PutGet), disable |-> One(PutGet),
     reset |-> Acts, clone |-> Acts]

\* NASVolumeSnapshotManager, nas_volumes.py
VolumeSnapshotReads == [list |-> Lists \cup {<<"resolve or ignore", "list">>}, get |-> KeyOrName]
VolumeSnapshotWrites == [create |-> {PostGetOrFind, Invalid}, delete |-> Deletes]

-----------------------------------------------------------------------------
\* Managers that work within one parent, and those that do not.
NASCalls ==
    Within({
        AntivirusReads, AntivirusWrites, AntivirusStatus, AntivirusStats, AntivirusInfections,
        AntivirusLogs, ServiceAntivirus, VolumeFiles, VolumeSnapshotReads, VolumeSnapshotWrites})
    \cup Free({
        AntivirusReads, AntivirusWrites, CIFSShareReads, CIFSShareCreate, CIFSShareWrites,
        NFSShareReads, NFSShareCreate, NFSShareWrites, NASServiceReads, NASServiceCreate,
        NASServiceUpdate, NASServicePower, NASServiceCIFS, NASServiceNFS, NASUserReads,
        NASUserWrites, NASUserOthers, VolumeSyncReads, VolumeSyncCreate, VolumeSyncWrites,
        VolumeSyncOthers, VolumeReads, VolumeCreate, VolumeWrites, VolumeSnapshotReads,
        VolumeSnapshotWrites})
=============================================================================
