-------------------------- MODULE MCWebsiteTrees --------------------------
(***************************************************************************)
(* Two requests at a time for one repository and one directory, and a      *)
(* cache that the second tree already fills.                               *)
(***************************************************************************)
EXTENDS WebsiteTrees

MCRepo == {"owner/name"}
MCFolder == {"/src/app"}
MCSlot == {1, 2}
=============================================================================
