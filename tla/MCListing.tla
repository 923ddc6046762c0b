----------------------------- MODULE MCListing -----------------------------
(***************************************************************************)
(* Instances of Listing for TLC.                                           *)
(***************************************************************************)
EXTENDS Listing, TLC

CONSTANTS root, w1, w2, w3, m1, m2, m3, m4, m5

(***************************************************************************)
(* Two pages of workspaces; w1 has two pages of models, w3 is forbidden.   *)
(* Of the curated models m1 is listed, m4 is shared with the user          *)
(* directly, and m5 (in the forbidden workspace) is out of reach.          *)
(***************************************************************************)
TwoPages ==
    (root :> << {w1, w2}, {w3} >>) @@ (w1 :> << {m1}, {m2} >>) @@
    (w2 :> << {m3} >>) @@ (w3 :> << {m5} >>)
=============================================================================
