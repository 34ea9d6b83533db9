----------------------------- MODULE MCPipeline -----------------------------
(* Two requests that may reach one bucket; a policy for one role and one
for another, under either of which a user with both roles is admitted. *)
EXTENDS Pipeline

CONSTANTS ra, rb, u1

MCRoleLists == {<<rb, ra>>}
MCPolicies == {{<<ra, "createMenu">>}, {<<rb, "createMenu">>}}
MCIdent == {u1, Root, Address}
MCLogin == {"getCaptcha", "responseCaptcha", "login"}
MCCurrent == MCLogin \cup {"refreshToken", "getUserInfo", "currentMenus", "updatePassword",
                          "updateUser", "logout"}
MCOff == [store |-> "off", max |-> 0, period |-> 0]
MCConfigs ==
    {[cors |-> FALSE, casbin |-> TRUE, static |-> FALSE, prom |-> TRUE, limits |-> MCOff],
     [cors |-> FALSE, casbin |-> FALSE, static |-> TRUE, prom |-> TRUE,
      limits |-> [store |-> "memory", max |-> 1, period |-> 2]],
     [cors |-> TRUE, casbin |-> FALSE, static |-> FALSE, prom |-> FALSE,
      limits |-> [store |-> "redis", max |-> 4, period |-> 2]]}
MCBefore == {[i \in MCIdent |-> n] : n \in 0..2}

==============================================================================
