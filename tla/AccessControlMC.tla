-------------------------- MODULE AccessControlMC --------------------------
(* Constants for the runs of AccessControl.                                *)
EXTENDS AccessControl, TLC

CONSTANTS alice, admin, hq, system, custom

BuiltinRoles == {"system_admin", "chat_user", "auditor"}
Keys == {"chat:ask", "audit:read"}
Seeded == ("system_admin" :> {"audit:read"}) @@ ("chat_user" :> {"chat:ask"})
            @@ ("auditor" :> {"audit:read"})

AdminIsBound == <<admin, "system_admin", system>>
Demo == {<<alice, "chat_user", hq>>}
Wanted == Demo \cup {<<alice, custom, hq>>, <<alice, "auditor", hq>>}
Corpus == {[space |-> hq, owner |-> admin], [space |-> system, owner |-> admin]}
=============================================================================
