------------------------------ MODULE MCFolders ------------------------------
(* Folders with three users: two of one organisation, one of them a system     *)
(* admin, and one of none.  The admin has made a folder with the API and one   *)
(* with the form; one deck is the owner's, the other one global.               *)
EXTENDS Folders, TLC

CONSTANTS f1, f2, f3, f4, d1, d2, owner, admin, guest, org

MCFolders == {f1, f2, f3, f4}
MCDecks == {d1, d2}
MCUsers == {owner, admin, guest}
MCOrgOf == [u \in MCUsers |-> IF u = guest THEN NoOrg ELSE org]
MCRights ==
  owner :> "admin" @@ admin :> "system_admin" @@ guest :> "user"
MCMade ==
  f1 :> [by |-> owner, form |-> FALSE] @@ f2 :> [by |-> admin, form |-> FALSE] @@
  f3 :> [by |-> guest, form |-> TRUE] @@ f4 :> [by |-> admin, form |-> TRUE]
MCSeen == [u \in MCUsers |-> IF u = owner THEN MCDecks ELSE {d2}]
=============================================================================
