----------------------------- MODULE MCSessions -----------------------------
(***************************************************************************)
(* Two households that share a person: u1 owns h1 and views h2, u2 owns h2 *)
(* alone.                                                                  *)
(***************************************************************************)
EXTENDS Sessions

CONSTANTS r1, r2, c1, c2, u1, u2, h1, h2

TheMembers ==
    {[household |-> h1, user |-> u1, role |-> "owner"],
     [household |-> h2, user |-> u1, role |-> "viewer"],
     [household |-> h2, user |-> u2, role |-> "owner"]}

ThePools == {{c1}, {c1, c2}}

=============================================================================
