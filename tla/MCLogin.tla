------------------------------ MODULE MCLogin ------------------------------
(***************************************************************************)
(* Logins, invitations and seeds of two people, one of whom spells the     *)
(* address in two ways, under every kind of configuration.                 *)
(***************************************************************************)
EXTENDS Login

CONSTANTS r1, r2, i1, s1, ivan, Ivan, olha, groceries

MCMailboxOf == [e \in {ivan, Ivan, olha} |-> IF e = Ivan THEN ivan ELSE e]

\* Everybody sends anything, up to the names of the two requests.
MCSenders ==
    {f \in [{r1, r2, i1, s1} -> {ivan, Ivan, olha}] :
        f[s1] = ivan /\ <<f[r1], f[r2]>> \notin {<<olha, ivan>>, <<olha, Ivan>>, <<Ivan, ivan>>}}

Setting(mode, isLocal, configured, closed) ==
    [auth_mode |-> mode, local |-> isLocal, configured |-> configured, invite_only |-> closed]

MCSettings ==
    {Setting("cf_access", FALSE, TRUE, TRUE),       \* production
     Setting("cf_access", TRUE, TRUE, FALSE),
     Setting("dev", TRUE, FALSE, FALSE),
     Setting("cf_access", FALSE, FALSE, TRUE),      \* without team domain and audience
     Setting("dev", FALSE, FALSE, TRUE),            \* outside local
     Setting("oidc", FALSE, FALSE, TRUE)}

=============================================================================
