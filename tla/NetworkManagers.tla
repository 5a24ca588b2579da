------------------------- MODULE NetworkManagers --------------------------
(***************************************************************************)
(* Networks and all that lives within one: rules, addresses, names, routing, *)
(* tunnels, proxies and the queries run from them.                         *)
(* The scripts of their managers, method by method.                        *)
(***************************************************************************)
EXTENDS Scripts

\* NetworkAliasManager, aliases.py
AliasReads == [list |-> Lists, get |-> KeyOrName]
AliasWrites == [create |-> One(PostGet), delete |-> Deletes]

\* DNSRecordManager, dns.py
DNSRecordReads == [list |-> Lists, get |-> KeyOrName]
DNSRecordWrites == [create |-> One(PostGet), delete |-> Deletes]

\* DNSZoneManager, dns.py
DNSZoneReads ==
    [list |-> Lists \cup {<<"list parents", "list">>},
     get |-> KeyOrName \cup {<<"list parents", "find">>}]
DNSZoneWrites == [create |-> {PostGet, Invalid}, delete |-> Deletes]

\* DNSViewManager, dns_views.py
DNSViewReads == [list |-> Lists, get |-> KeyOrName]
DNSViewWrites == [create |-> One(PostGet), update |-> PutIfAny, delete |-> Deletes]

\* NetworkHostManager, hosts.py
HostReads == [list |-> Lists, get |-> KeyOrName]
HostWrites == [create |-> One(PostGet), update |-> PutOrInvalid, delete |-> Deletes]

\* IPSecConnectionManager, ipsec.py
IPSecConfig ==
    [_get_or_create_ipsec_config |-> One(<<"peek parent", "make parent">>), _get_ipsec_config |-> One(<<"peek parent">>)]
IPSecConnectionReads ==
    [list |-> Lists \cup {<<"resolve or empty", "list">>}, get |-> KeyOrName \cup {<<"resolve", "find">>}]
IPSecConnectionCreate == [create |-> {PostGet, <<"peek parent", "make parent">> \o PostGet}]
IPSecConnectionWrites == [update |-> PutOrInvalid, delete |-> Deletes]

\* IPSecPolicyManager, ipsec.py
IPSecPolicyReads == [list |-> Lists, get |-> KeyOrName]
IPSecPolicyWrites == [create |-> One(PostGet), update |-> PutOrInvalid, delete |-> Deletes]

\* NetworkMonitorStatsManager, network_stats.py
NetworkMonitorStats == [get |-> One(<<"last">>), history_short |-> Lists, history_long |-> Lists]

\* IPSecActiveConnectionManager, network_stats.py
IPSecActiveConnections == [list |-> Lists, count |-> Lists]

\* WireGuardPeerStatusManager, network_stats.py
WireGuardPeerStatus == [list |-> One(<<"list parents", "list">>), get_for_peer |-> One(<<"first">>)]

\* NetworkManager, networks.py
NetworkReads ==
    [list |-> Lists, get |-> KeyOrName, list_internal |-> Lists, list_external |-> Lists,
     list_running |-> Lists, list_stopped |-> Lists]
NetworkCreate == [create |-> One(PostGet)]
NetworkStatistics ==
    [diagnostics |-> {<<"get", "read aside">>, <<"get", "read aside", "read aside">>},
     statistics |-> {<<"get", "read aside">>, <<"get", "read aside", "read aside">>}]

\* QueryManager, queries.py
QueryCalls ==
    [list |-> Lists, get |-> KeyOrName, create |-> One(PostGetOrAnswer), wait |-> One(<<"wait">>),
     run |-> QueryRun]

\* VNetQueryManager, queries.py
VNetQueries ==
    [ping |-> QueryRun, dns |-> QueryRun, traceroute |-> QueryRun, tcpdump |-> QueryRun, arp |-> QueryRun,
     firewall |-> QueryRun, trace |-> QueryRun]

\* NodeQueryManager, queries.py
NodeQueries ==
    [ping |-> QueryRun, dns |-> QueryRun, traceroute |-> QueryRun, tcpdump |-> QueryRun, arp |-> QueryRun,
     smartctl |-> QueryRun, lsblk |-> QueryRun, dmidecode |-> QueryRun]

\* ServiceContainerQueryManager, queries.py
ServiceContainerQueries == [ping |-> QueryRun, dns |-> QueryRun, traceroute |-> QueryRun]

\* TenantNodeQueryManager, queries.py
TenantNodeQueries == [ping |-> QueryRun, dns |-> QueryRun, traceroute |-> QueryRun]

\* BGPRouterCommandManager, routing.py
BGPRouterCommands == [list |-> Lists, get |-> KeyOnly]
BGPRouterCommandWrites == [create |-> One(PostGet), update |-> PutOrInvalid, delete |-> Deletes]

\* BGPRouterManager, routing.py
BGPRouterReads ==
    [list |-> Lists \cup {<<"resolve or empty", "list">>}, get |-> KeyOrName \cup {<<"resolve", "find">>}]
BGPRouterWrites == [create |-> BGPCreate, update |-> PutOrInvalid, delete |-> Deletes]

\* BGPInterfaceCommandManager, routing.py
BGPInterfaceCommands == [list |-> Lists, get |-> KeyOnly]
BGPInterfaceCommandWrites == [create |-> One(PostGet), update |-> PutOrInvalid, delete |-> Deletes]

\* BGPInterfaceManager, routing.py
BGPInterfaceReads ==
    [list |-> Lists \cup {<<"resolve or empty", "list">>}, get |-> KeyOrName \cup {<<"resolve", "find">>}]
BGPInterfaceWrites == [create |-> BGPCreate, update |-> PutOrInvalid, delete |-> Deletes]

\* BGPRouteMapCommandManager, routing.py
BGPRouteMapCommands == [list |-> Lists, get |-> KeyOnly]
BGPRouteMapCommandWrites == [create |-> One(PostGet), update |-> PutOrInvalid, delete |-> Deletes]

\* BGPRouteMapManager, routing.py
BGPRouteMapReads ==
    [list |-> Lists \cup {<<"resolve or empty", "list">>}, get |-> KeyOrName \cup {<<"resolve", "find">>}]
BGPRouteMapWrites == [create |-> BGPCreate, update |-> PutOrInvalid, delete |-> Deletes]

\* BGPIPCommandManager, routing.py
BGPIPCommands == [list |-> Lists \cup {<<"resolve or empty", "list">>}, get |-> KeyOnly]
BGPIPCommandWrites == [create |-> BGPCreate, update |-> PutOrInvalid, delete |-> Deletes]

\* OSPFCommandManager, routing.py
OSPFCommands == [list |-> Lists \cup {<<"resolve or empty", "list">>}, get |-> KeyOnly]
OSPFCommandWrites == [create |-> BGPCreate, update |-> PutOrInvalid, delete |-> Deletes]

\* EIGRPRouterCommandManager, routing.py
EIGRPRouterCommands == [list |-> Lists, get |-> KeyOnly]
EIGRPRouterCommandWrites == [create |-> One(PostGet), update |-> PutOrInvalid, delete |-> Deletes]

\* EIGRPRouterManager, routing.py
EIGRPRouterReads ==
    [list |-> Lists \cup {<<"resolve or empty", "list">>}, get |-> KeyOrName \cup {<<"resolve", "find">>}]
EIGRPRouterWrites == [create |-> BGPCreate, update |-> PutOrInvalid, delete |-> Deletes]

\* NetworkRoutingManager, routing.py
RoutingConfig ==
    [_get_or_create_bgp_config |-> One(<<"peek parent", "make parent">>), _get_bgp_config |-> One(<<"peek parent">>)]
RoutingOthers ==
    [is_configured |-> One(<<"peek parent">>), delete_config |-> One(<<"resolve or empty", "delete parent">>)]

\* NetworkRuleManager, rules.py
RuleReads == [list |-> Lists, get |-> KeyOrName]
RuleCreate == [create |-> One(PostGet)]
RuleWrites ==
    [update |-> One(<<"get", "check">> \o PutGet), delete |-> One(<<"get", "check", "delete">>),
     list_incoming |-> Lists, list_outgoing |-> Lists, list_enabled |-> Lists,
     list_disabled |-> Lists]

\* VnetProxyTenantManager, vnet_proxy.py
ProxyTenants ==
    [list |-> Lists, get |-> {<<"get here">>, ByName, Invalid},
     create |-> One(<<"post", "need answer", "need key", "get here">>),
     update |-> One(<<"get here", "put", "get here">>), delete |-> One(<<"get here", "delete">>)]

\* VnetProxyManager, vnet_proxy.py
ProxyCreate ==
    [exists |-> One(<<"peek any">>), get |-> {<<"get here">>, <<"first">>},
     create |-> One(<<"peek any", "refuse found">> \o ProxyPost)]
ProxyWrites ==
    [update |-> One(<<"get here", "put", "get here">>),
     delete |-> {<<"get here", "delete">>, <<"first", "get here", "delete">>},
     get_or_create |-> One(<<"peek any", "stop if found", "peek any", "refuse found">> \o ProxyPost)]

\* WireGuardManager, wireguard.py
WireGuardReads == [list |-> Lists, get |-> KeyOrName]
WireGuardWrites == [create |-> One(PostGet), update |-> PutOrInvalid, delete |-> Deletes]

\* WireGuardPeerManager, wireguard.py
WireGuardPeerReads == [list |-> Lists, get |-> KeyOrName]
WireGuardPeerWrites ==
    [create |-> One(PostGet), update |-> PutOrInvalid, delete |-> Deletes,
     get_config |-> One(<<"look up or invalid", "validate">>)]

\* Network, networks.py
NetworkObjectPower ==
    [power_on |-> OnObject(Acts), power_off |-> OnObject(Acts), restart |-> OnObject(Acts),
     apply_rules |-> OnObject(Acts), apply_dns |-> OnObject(Acts)]

\* NetworkRule, rules.py
RuleObject ==
    [enable |-> OnObject(One(<<"check", "get", "check">> \o PutGet)),
     disable |-> OnObject(One(<<"check", "get", "check">> \o PutGet))]

\* NetworkDashboardManager, network_stats.py
NetworkDashboards == [get |-> One(<<"read aside">>)]

-----------------------------------------------------------------------------
\* Managers that work within one parent, and those that do not.
NetworkCalls ==
    Within({
        AliasReads, AliasWrites, DNSRecordReads, DNSRecordWrites, DNSZoneReads, DNSZoneWrites,
        DNSViewReads, DNSViewWrites, HostReads, HostWrites, IPSecConfig, IPSecConnectionReads,
        IPSecConnectionCreate, IPSecConnectionWrites, IPSecPolicyReads, IPSecPolicyWrites,
        NetworkMonitorStats, IPSecActiveConnections, WireGuardPeerStatus, QueryCalls,
        VNetQueries, NodeQueries, ServiceContainerQueries, TenantNodeQueries, BGPRouterCommands,
        BGPRouterCommandWrites, BGPRouterReads, BGPRouterWrites, BGPInterfaceCommands,
        BGPInterfaceCommandWrites, BGPInterfaceReads, BGPInterfaceWrites, BGPRouteMapCommands,
        BGPRouteMapCommandWrites, BGPRouteMapReads, BGPRouteMapWrites, BGPIPCommands,
        BGPIPCommandWrites, OSPFCommands, OSPFCommandWrites, EIGRPRouterCommands,
        EIGRPRouterCommandWrites, EIGRPRouterReads, EIGRPRouterWrites, RoutingConfig,
        RoutingOthers, RuleReads, RuleCreate, RuleWrites, ProxyTenants, ProxyCreate,
        ProxyWrites, WireGuardReads, WireGuardWrites, WireGuardPeerReads, WireGuardPeerWrites,
        RuleObject})
    \cup Free({
        NetworkReads, NetworkCreate, NetworkStatistics, NetworkObjectPower, NetworkDashboards})
=============================================================================
