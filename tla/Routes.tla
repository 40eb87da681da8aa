------------------------------- MODULE Routes -------------------------------
(***************************************************************************)
(* The HTTP interface of gvray-admin: the routes the controllers declare   *)
(* and the permission codes of permissions.constant.ts.                    *)
(*                                                                         *)
(* A route says what its decorators say and, in `changes`, which tables    *)
(* the service behind it may change (login and operation logs left out).   *)
(* A path is a pair <<controller, method>> with every id written :id, a     *)
(* code a pair <<resource, action>>.  @FeatureFlag is in module Cached.     *)
(***************************************************************************)

(* The path of a method or controller whose decorator names none.           *)
Root == ""

Route(method, path, codes, changes) ==
    [method |-> method, path |-> path, codes |-> codes, changes |-> changes,
     public |-> FALSE, guestWrite |-> FALSE]

(* A controller whose methods each carry one @RequirePermissions: rows      *)
(* <<method, path, action, tables changed>>.                               *)
Guarded(base, resource, rows) ==
    {Route(w[1], <<base, w[2]>>, {<<resource, w[3]>>}, w[4]) : w \in rows}

(* One without: rows <<method, path, tables changed>>.                      *)
Plain(base, rows) == {Route(w[1], <<base, w[2]>>, {}, w[3]) : w \in rows}

Public(routes) == {[r EXCEPT !.public = TRUE] : r \in routes}

(* The routes most resources have.                                         *)
Crud(base, resource, tables) ==
    Guarded(base, resource,
        {<<"POST", Root, "create", tables>>, <<"GET", Root, "list", {}>>,
         <<"GET", ":id", "view", {}>>, <<"PATCH", ":id", "update", tables>>,
         <<"DELETE", ":id", "delete", tables>>})

BatchDelete(base, resource, tables) ==
    Guarded(base, resource, {<<"POST", "batch-delete", "delete", tables>>})

-----------------------------------------------------------------------------
(* Routes without a permission code.                                       *)

AppController == Public(Plain(Root, {<<"GET", "health", {}>>}))

AuthController ==
    Public(Plain("auth", {<<"POST", "register", {"users"}>>, <<"POST", "login", {"sessions"}>>,
                          <<"POST", "refresh", {"sessions"}>>}))
    \cup {[r EXCEPT !.guestWrite = TRUE] :
             r \in Plain("auth", {<<"POST", "logout", {"sessions"}>>,
                                  <<"POST", "logout-all", {"sessions"}>>})}
    \cup Plain("auth", {<<"GET", "sessions", {}>>, <<"DELETE", "sessions/:tokenHash", {"sessions"}>>,
                        <<"GET", "me", {}>>, <<"GET", "menus", {}>>})

ProfileController ==
    Plain("profile", {<<"GET", Root, {}>>, <<"GET", "permissions", {}>>, <<"PATCH", Root, {"users"}>>,
                      <<"POST", "change-password", {"users"}>>, <<"GET", "settings", {}>>,
                      <<"PATCH", "settings", {"userSettings"}>>,
                      <<"DELETE", "settings", {"userSettings"}>>, <<"GET", "login-logs", {}>>})

DashboardController ==
    Plain("dashboard", {<<"GET", "overview", {}>>, <<"GET", "role-distribution", {}>>,
                        <<"GET", "login-trend", {}>>})

RuntimeConfigPath == <<"public", "runtime-config">>
ConfigsRuntimeController == {Route("GET", RuntimeConfigPath, {}, {})}

-----------------------------------------------------------------------------
(* Routes with one.                                                        *)

UsersController ==
    Crud("system/users", "system:user", {"users"})
    \cup BatchDelete("system/users", "system:user", {"users"})
    \cup Guarded("system/users", "system:user",
            {<<"PUT", ":id/roles", "update-roles", {"userRoles"}>>,
             <<"DELETE", ":id/roles", "update-roles", {"userRoles"}>>,
             <<"POST", ":id/reset-password", "reset-password", {"users"}>>})

RolePermissionsPath == <<"system/roles", ":id/permissions">>
RolesController ==
    Crud("system/roles", "system:role", {"roles"})
    \cup BatchDelete("system/roles", "system:role", {"roles"})
    \cup Guarded("system/roles", "system:role",
            {<<"GET", "options", "list", {}>>,
             <<"PUT", ":id/permissions", "update-permissions", {"rolePermissions"}>>,
             <<"DELETE", ":id/permissions", "update-permissions", {"rolePermissions"}>>,
             <<"PUT", ":id/users", "update-users", {"userRoles"}>>,
             <<"DELETE", ":id/users", "update-users", {"userRoles"}>>,
             <<"PUT", ":id/data-scope", "update-data-scope", {"roles"}>>,
             <<"GET", ":id/data-scope", "view", {}>>})

ScanPath == <<"system/permissions", "scan">>
PermissionsController ==
    Guarded("system/permissions", "system:permission",
        {<<"GET", Root, "list", {}>>, <<"GET", "flat", "list", {}>>, <<"GET", ":id", "view", {}>>,
         <<"PATCH", ":id", "update", {"permissions"}>>, <<"POST", "scan", "scan", {"permissions"}>>})

DepartmentsController ==
    Crud("system/departments", "system:department", {"departments"})
    \cup BatchDelete("system/departments", "system:department", {"departments"})
    \cup Guarded("system/departments", "system:department",
            {<<"GET", "tree", "list", {}>>, <<"GET", "options", "list", {}>>})

MenuController ==
    Crud("system/menus", "system:menu", {"menus"})
    \cup Guarded("system/menus", "system:menu",
            {<<"GET", "tree", "list", {}>>, <<"GET", "options", "list", {}>>})

PositionsController ==
    Crud("system/positions", "system:position", {"positions"})
    \cup BatchDelete("system/positions", "system:position", {"positions"})
    \cup Guarded("system/positions", "system:position", {<<"GET", "options", "list", {}>>})

NoticesController ==
    Crud("system/notices", "system:notice", {"notices"})
    \cup BatchDelete("system/notices", "system:notice", {"notices"})
    \cup Plain("system/notices", {<<"GET", "unread/count", {}>>, <<"POST", ":id/read", {"noticeReads"}>>,
                                  <<"POST", "read-all", {"noticeReads"}>>})

DictionaryTypesRoutes ==
    Crud("system/dictionaries/types", "system:dictionary", {"dictionaryTypes"})
    \cup BatchDelete("system/dictionaries/types", "system:dictionary", {"dictionaryTypes"})
    \cup Guarded("system/dictionaries", "system:dictionary", {<<"GET", "types/batch", "list", {}>>})

DictionaryItemsRoutes ==
    Crud("system/dictionaries/items", "system:dictionary", {"dictionaryItems"})
    \cup BatchDelete("system/dictionaries/items", "system:dictionary", {"dictionaryItems"})
    \cup Guarded("system/dictionaries", "system:dictionary",
            {<<"GET", "items/type/:typeCode", "list", {}>>})

ConfigsController ==
    Crud("system/configs", "system:config", {"configs"})
    \cup BatchDelete("system/configs", "system:config", {"configs"})
    \cup Guarded("system/configs", "system:config",
            {<<"GET", "key/:key", "view", {}>>, <<"GET", "group/:group", "view", {}>>,
             <<"GET", "batch", "view", {}>>})

(* Log rows are only read, cleaned by date, cleared or deleted.             *)
LoginLogsController ==
    Guarded("system/login-logs", "system:log-login",
        {<<"GET", Root, "list", {}>>, <<"GET", "stats", "view", {}>>, <<"GET", ":id", "view", {}>>,
         <<"DELETE", "clear", "clear", {"loginLogs"}>>, <<"DELETE", ":id", "delete", {"loginLogs"}>>,
         <<"POST", "batch-delete", "delete", {"loginLogs"}>>,
         <<"POST", "clean", "clean", {"loginLogs"}>>})

OperationLogsController ==
    Guarded("system/operation-logs", "system:log-operation",
        {<<"GET", Root, "list", {}>>, <<"GET", ":id", "view", {}>>,
         <<"DELETE", "clear", "clear", {"operationLogs"}>>,
         <<"DELETE", ":id", "delete", {"operationLogs"}>>,
         <<"POST", "batch-delete", "delete", {"operationLogs"}>>,
         <<"POST", "clean", "clean", {"operationLogs"}>>})

OnlineUsersController ==
    Guarded("system/online-users", "monitor:online-user",
        {<<"GET", Root, "list", {}>>, <<"GET", ":id/sessions", "view", {}>>,
         <<"POST", ":id/kick", "kick", {"sessions"}>>,
         <<"POST", ":id/sessions/:tokenHash/kick", "kick", {"sessions"}>>})

MonitorController ==
    Guarded("system/monitors", "monitor:server", {<<"GET", "server-metrics", "list", {}>>})
    \cup Guarded("system/monitors", "monitor:cache",
            {<<"GET", "cache-stats", "list", {}>>, <<"GET", "cache-keys", "list", {}>>,
             <<"GET", "cache-key", "view", {}>>, <<"GET", "cache-health", "view", {}>>,
             <<"DELETE", "cache-clear", "clear", {"redis"}>>})

Controllers ==
    AppController \cup AuthController \cup ProfileController \cup DashboardController
    \cup ConfigsRuntimeController \cup UsersController \cup RolesController
    \cup PermissionsController \cup DepartmentsController \cup MenuController
    \cup PositionsController \cup NoticesController \cup DictionaryTypesRoutes
    \cup DictionaryItemsRoutes
    \cup ConfigsController \cup LoginLogsController \cup OperationLogsController
    \cup OnlineUsersController \cup MonitorController

-----------------------------------------------------------------------------
(* permissions.constant.ts: PERMISSIONS, and the codes marked sensitive.    *)

CodesOf(resource, actions) == {<<resource, a>> : a \in actions}

CrudActions == {"list", "view", "create", "update", "delete"}

SystemCodes ==
    CodesOf("system:user", CrudActions \cup {"import", "export", "update-roles", "reset-password"})
    \cup CodesOf("system:role", CrudActions \cup {"update-permissions", "update-users",
                                                   "update-data-scope"})
    \cup CodesOf("system:permission", {"list", "view", "update", "scan"})
    \cup UNION {CodesOf(r, CrudActions) :
                   r \in {"system:department", "system:position", "system:dictionary",
                          "system:config", "system:menu"}}

LogCodes ==
    {<<"system:log", "view">>}
    \cup UNION {CodesOf(r, {"list", "view", "delete", "clean", "clear"}) :
                   r \in {"system:log-login", "system:log-operation"}}

MonitorCodes ==
    CodesOf("monitor:online-user", {"list", "view", "kick"})
    \cup CodesOf("monitor:server", {"list", "view"})
    \cup CodesOf("monitor:cache", {"list", "view", "clear"})
    \cup CodesOf("system:notice", CrudActions)

Catalogue == SystemCodes \cup LogCodes \cup MonitorCodes

SensitiveCodes ==
    CodesOf("system:permission", {"update", "scan"})
    \cup CodesOf("system:config", {"create", "update", "delete"})
    \cup UNION {CodesOf(r, {"delete", "clean", "clear"}) :
                   r \in {"system:log-login", "system:log-operation"}}
    \cup {<<"monitor:online-user", "kick">>, <<"monitor:cache", "clear">>}
=============================================================================
