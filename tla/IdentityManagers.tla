------------------------- MODULE IdentityManagers -------------------------
(***************************************************************************)
(* Users, groups and their members, keys, permissions and sign-on.         *)
(* The scripts of their managers, method by method.                        *)
(***************************************************************************)
EXTENDS Scripts

\* APIKeyManager, api_keys.py
APIKeyReads ==
    [list |-> Lists \cup {<<"resolve", "list">>},
     get |-> KeyOrName \cup {<<"resolve", "find">>}]
APIKeyWrites ==
    [create |-> {<<"resolve", "read aside", "post", "need answer">>, <<"read aside", "post", "need answer">>}, delete |-> Deletes]

\* AuthSourceStateManager, auth_sources.py
AuthSourceStates == [list |-> Lists, get |-> KeyOnly]

\* AuthSourceManager, auth_sources.py
AuthSourceReads == [list |-> Lists, get |-> KeyOrName]
AuthSourceWrites == [create |-> One(PostGetOrFind), update |-> PutIfAny, delete |-> Deletes]

\* GroupMemberManager, groups.py
GroupMemberCalls ==
    [list |-> Lists, add_user |-> One(<<"post", "find created">>), add_group |-> One(<<"post", "find created">>),
     remove |-> Deletes, remove_user |-> One(<<"find", "delete">>),
     remove_group |-> One(<<"find", "delete">>)]

\* GroupManager, groups.py
GroupReads == [list |-> Lists, list_enabled |-> Lists, list_disabled |-> Lists, get |-> KeyOrName]
GroupWrites ==
    [create |-> One(PostGetOrFind), update |-> PutIfAny, enable |-> One(PutGet), disable |-> One(PutGet)]

\* OidcApplicationUserManager, oidc_applications.py
OidcUsers ==
    [list |-> Lists, get |-> KeyOnly, add |-> {Invalid, <<"post", "get if keyed", "first if keyless">>}, delete |-> Deletes]

\* OidcApplicationGroupManager, oidc_applications.py
OidcGroups ==
    [list |-> Lists, get |-> KeyOnly, add |-> {Invalid, <<"post", "get if keyed", "first if keyless">>}, delete |-> Deletes]

\* OidcApplicationLogManager, oidc_applications.py
OidcLogs ==
    [list |-> Lists, get |-> KeyOnly, list_errors |-> One(<<"list loose">>), list_warnings |-> Lists, list_audits |-> Lists]

\* OidcApplicationManager, oidc_applications.py
OidcApplicationReads == [list |-> Lists, get |-> KeyOrName]
OidcApplicationWrites == [create |-> One(PostGetOrFind), update |-> PutIfAny, delete |-> Deletes]

\* PermissionManager, permissions.py
PermissionReads ==
    [list |-> {<<"list">>, <<"parent if known", "list">>, <<"get parent", "parent if known", "list">>},
     get |-> One(ByKey)]
PermissionGrant ==
    [grant |-> {Invalid, <<"get parent", "invalid">>, <<"post", "get if keyed", "first if keyless">>,
     <<"get parent", "post", "get if keyed", "first if keyless">>}]
RevokeAll == {<<"parent if known", "collect", "delete each">>,
              <<"get parent", "parent if known", "collect", "delete each">>}
PermissionRevoke ==
    [revoke |-> Deletes,
     revoke_for_user |-> RevokeAll, revoke_for_group |-> RevokeAll]

\* UserManager, users.py
UserReads ==
    [list |-> Lists, list_enabled |-> Lists, list_disabled |-> Lists, list_api_users |-> Lists, list_vdi_users |-> Lists,
     get |-> KeyOrName]
UserCreate == [create |-> One(<<"validate">> \o PostGetOrFind)]
UserWrites == [update |-> PutIfAny, delete |-> Deletes, enable |-> One(PutGet), disable |-> One(PutGet)]

-----------------------------------------------------------------------------
\* Managers that work within one parent, and those that do not.
IdentityCalls ==
    Within({
        AuthSourceStates, GroupMemberCalls, OidcUsers, OidcGroups, OidcLogs, PermissionReads,
        PermissionGrant, PermissionRevoke})
    \cup Free({
        APIKeyReads, APIKeyWrites, AuthSourceStates, AuthSourceReads, AuthSourceWrites,
        GroupReads, GroupWrites, OidcLogs, OidcApplicationReads, OidcApplicationWrites,
        UserReads, UserCreate, UserWrites})
=============================================================================
