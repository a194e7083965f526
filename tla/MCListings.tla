----------------------------- MODULE MCListings -----------------------------
(***************************************************************************)
(* An instance of Listings: up to four rows in pages of one or two, two    *)
(* rows of one time.                                                       *)
(***************************************************************************)
EXTENDS Listings

MCTimes == [r \in Rows |-> IF r = 4 THEN 3 ELSE r]
MCLists == {"users", "groups", "networks", "audit", "sessions", "traffic", "entity",
            "actor", "usage", "vpn_users", "users_page", "groups_page",
            "networks_page"}
=============================================================================
