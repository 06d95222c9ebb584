--------------------------- MODULE MCEntryRouter ----------------------------
(* Small instances of EntryRouter for TLC.                                 *)
EXTENDS EntryRouter

(* Three tracks as in the code: A and B share the long window, C has the   *)
(* short one (15 s, 15 s and 5 s there).                                   *)
MCWindow == <<3, 3, 2>>
=============================================================================
