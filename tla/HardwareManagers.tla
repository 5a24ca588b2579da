------------------------- MODULE HardwareManagers -------------------------
(***************************************************************************)
(* Clusters, nodes and their devices, storage tiers and physical drives.   *)
(* The scripts of their managers, method by method.                        *)
(***************************************************************************)
EXTENDS Scripts

\* ClusterTierManager, cluster_tiers.py
TierReads ==
    [list |-> Lists, get |-> KeyOrName, get_tier_status |-> One(ByKey), get_tier_stats |-> One(ByKey)]
TierHistory ==
    [get_stats_history_short |-> Lists, get_stats_history_long |-> Lists, get_summary |-> Lists]

\* ClusterManager, clusters.py
ClusterReads == [list |-> Lists, get |-> KeyOrName]
\* A mutant: tests its arguments when the cluster is there.
MutClusterCreate == [create |-> One(PostGetOrAnswer \o <<"validate">>)]
ClusterCreate == [create |-> One(<<"validate">> \o PostGetOrAnswer)]
ClusterUpdate == [update |-> After(<<"validate">>, PutIfAny)]
ClusterDelete == [delete |-> One(<<"get", "check", "delete">>), vsan_status |-> Lists]

\* DeviceManager, devices.py
DeviceReads == [list |-> Lists, get |-> KeyOrName]
DeviceCreate == [create |-> One(PostGet), create_vgpu |-> One(PostGet), create_host_gpu |-> One(PostGet)]
DeviceCreateOthers ==
    [create_usb |-> One(PostGet), create_pci |-> One(PostGet), create_sriov_nic |-> One(PostGet),
     create_tpm |-> One(PostGet)]
DeviceWrites == [update |-> One(PutAnswer), delete |-> Deletes]

\* NvidiaVgpuProfileManager, gpu.py
VgpuProfiles == [list |-> Lists, get |-> KeyOrName]

\* NodeGpuManager, gpu.py
NodeGpuCalls == [list |-> Lists, get |-> KeyOrName, update |-> One(PutAnswer)]

\* NodeGpuStatsManager, gpu.py
NodeGpuStats == [get |-> One(<<"first">>), history_short |-> Lists, history_long |-> Lists]

\* NodeGpuInstanceManager, gpu.py
NodeGpuInstances == [list |-> Lists]

\* NodeVgpuDeviceManager, gpu.py
NodeVgpuDevices == [list |-> Lists, get |-> One(ByKey)]

\* NodeHostGpuDeviceManager, gpu.py
NodeHostGpuDevices == [list |-> Lists, get |-> One(ByKey)]

\* NodeVgpuProfileManager, gpu.py
NodeVgpuProfiles == [list |-> Lists, get |-> KeyOrName]

\* NodeLLDPNeighborManager, lldp.py
LLDPNeighbors == [list |-> Lists, list_by_nic |-> Lists]

\* MachineStatsManager, machine_stats.py
MachineStats == [get |-> One(<<"first">>), history_short |-> Lists, history_long |-> Lists]

\* MachineStatusManager, machine_stats.py
MachineStatus == [get |-> One(<<"first">>)]

\* MachineLogManager, machine_stats.py
MachineLogs == [list |-> Lists, get |-> KeyOnly]

\* NodeMemoryManager, node_memory.py
NodeMemory == [list |-> Lists, get |-> KeyOnly]

\* NodeDriverManager, nodes.py
NodeDrivers == [list |-> Lists, get |-> KeyOrName]

\* NodePCIDeviceManager, nodes.py
NodePCIDevices == [list |-> Lists, get |-> One(ByKey)]

\* NodeUSBDeviceManager, nodes.py
NodeUSBDevices == [list |-> Lists, get |-> One(ByKey)]

\* NodeSriovNicDeviceManager, nodes.py
NodeSriovNicDevices == [list |-> Lists, get |-> One(ByKey)]

\* NodeManager, nodes.py
NodeReads == [list |-> Lists, get |-> KeyOrName]
NodeActions ==
    [enable_maintenance |-> One(<<"act", "get">>), disable_maintenance |-> One(<<"act", "get">>), restart |-> Acts]

\* PhysicalDriveManager, physical_drives.py
PhysicalDrives == [list |-> Lists, get |-> KeyOnly]

\* ResourceGroupManager, resource_groups.py
ResourceGroupReads ==
    [list |-> Lists, get |-> KeyOrName, list_enabled |-> Lists, list_disabled |-> Lists]
ResourceGroupCreate == [list_by_type |-> Lists, list_by_class |-> Lists, create |-> PostFind]
ResourceGroupCreateKinds == [create_nvidia_vgpu |-> PostFind, create_usb |-> PostFind]
ResourceGroupCreateOthers ==
    [create_sriov_nic |-> PostFind, create_pci |-> PostFind, create_host_gpu |-> PostFind]
ResourceGroupWrites == [update |-> One(PutAnswer), delete |-> Deletes]

\* ResourceRuleManager, resource_groups.py
ResourceRuleReads == [list |-> Lists, get |-> KeyOrName]
ResourceRuleWrites == [create |-> {PostGet, Invalid}, update |-> One(PutAnswer), delete |-> Deletes]

\* StorageTierManager, storage_tiers.py
StorageTiers == [list |-> Lists, get |-> KeyOrName, get_summary |-> Lists]

\* VsanQueryManager, vsan_queries.py
VsanQueries ==
    [list |-> Lists, get |-> KeyOnly, create |-> One(PostGetOrAnswer), wait |-> One(<<"wait">>), run |-> QueryRun]
VsanQueryKinds == [journal_status |-> QueryRun, tier_status |-> QueryRun, repair_status |-> QueryRun]

-----------------------------------------------------------------------------
\* Managers that work within one parent, and those that do not.
HardwareCalls ==
    Within({
        TierReads, TierHistory, DeviceReads, DeviceCreate, DeviceCreateOthers, DeviceWrites,
        NodeGpuCalls, NodeGpuStats, NodeGpuInstances, NodeVgpuDevices, NodeHostGpuDevices,
        NodeVgpuProfiles, LLDPNeighbors, MachineStats, MachineStatus, MachineLogs, NodeMemory,
        NodeDrivers, NodePCIDevices, NodeUSBDevices, NodeSriovNicDevices, PhysicalDrives,
        ResourceRuleReads, ResourceRuleWrites})
    \cup Free({
        ClusterReads, ClusterCreate, ClusterUpdate, ClusterDelete, VgpuProfiles, NodeGpuCalls,
        NodeVgpuDevices, NodeHostGpuDevices, NodeVgpuProfiles, LLDPNeighbors, NodeMemory,
        NodeDrivers, NodePCIDevices, NodeUSBDevices, NodeSriovNicDevices, NodeReads,
        NodeActions, PhysicalDrives, ResourceGroupReads, ResourceGroupCreate,
        ResourceGroupCreateKinds, ResourceGroupCreateOthers, ResourceGroupWrites,
        ResourceRuleReads, StorageTiers, VsanQueries, VsanQueryKinds})
=============================================================================
