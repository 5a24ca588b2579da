------------------------------ MODULE Managers ------------------------------
(***************************************************************************)
(* All calls of all managers.                                              *)
(***************************************************************************)
EXTENDS SystemManagers, NetworkManagers, IdentityManagers, ComputeManagers,
        SiteManagers, HardwareManagers, NASManagers, TenantManagers

AllCalls == UNION {SystemCalls, NetworkCalls, IdentityCalls, ComputeCalls, SiteCalls,
                   HardwareCalls, NASCalls, TenantCalls}
=============================================================================
