------------------------------- MODULE Routes -------------------------------
(***************************************************************************)
(* The routes of the API (internal/mods/rbac/main.go) and what their       *)
(* handlers (internal/mods/rbac/api) do before and after the one operation *)
(* of the business layer that each calls; and the codes of the errors that *)
(* a handler answers with (pkg/errors/errors.go).                          *)
(*                                                                         *)
(* A handler parses a form from the query or from a JSON body, or takes    *)
(* none; validates it, or does not; and answers with what the operation    *)
(* returned: a page, a datum, a mere OK, or an image.                      *)
(***************************************************************************)
EXTENDS Naturals

Handler(form, validates, answer) ==
    [form |-> form, validates |-> validates, answer |-> answer]

Queries == Handler("query", FALSE, "page")
Gets == Handler("none", FALSE, "data")
Creates == Handler("json", TRUE, "data")
Updates == Handler("json", TRUE, "ok")
Acts == Handler("none", FALSE, "ok")

LoginHandlers ==
    [getCaptcha |-> Gets,
     responseCaptcha |-> Handler("none", FALSE, "image"),
     login |-> Handler("json", FALSE, "data"),
     refreshToken |-> Gets,
     getUserInfo |-> Gets,
     currentMenus |-> Gets,
     updatePassword |-> Handler("json", FALSE, "ok"),
     updateUser |-> Handler("json", FALSE, "ok"),
     logout |-> Acts]

MenuHandlers ==
    [queryMenus |-> Queries, getMenu |-> Gets, createMenu |-> Creates,
     updateMenu |-> Updates, deleteMenu |-> Acts]

RoleHandlers ==
    [queryRoles |-> Queries, getRole |-> Gets, createRole |-> Creates,
     updateRole |-> Updates, deleteRole |-> Acts]

UserHandlers ==
    [queryUsers |-> Queries, getUser |-> Gets, createUser |-> Creates,
     updateUserOf |-> Updates, deleteUser |-> Acts, resetPassword |-> Acts]

LoggerHandlers == [queryLoggers |-> Queries]

\* RegisterV1Routers.
Groups == {LoginHandlers, MenuHandlers, RoleHandlers, UserHandlers, LoggerHandlers}
ApiRoutes ==
    [path \in UNION {DOMAIN g : g \in Groups} |-> (CHOOSE g \in Groups : path \in DOMAIN g)[path]]

\* Routes outside the prefix of the API, and paths that no route has.
OtherPaths == {"health", "swagger", "unknownApi", "file"}

\* The middlewares that AllowedPathPrefixes restricts.
InApi(path) == path \in DOMAIN ApiRoutes \cup {"unknownApi"}

\* "plain" is any error that is not one of the package's own.
CodeOf ==
    [bad_request |-> 400, unauthorized |-> 401, forbidden |-> 403, not_found |-> 404,
     method_not_allowed |-> 405, request_timeout |-> 408, conflict |-> 409,
     request_entity_too_large |-> 413, too_many_requests |-> 429,
     internal_server_error |-> 500, plain |-> 500]

==============================================================================
