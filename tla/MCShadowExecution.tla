------------------------- MODULE MCShadowExecution -------------------------
(* Two entries, one exit of each.  The first entry meets every answer of   *)
(* the network, the second the two that decide on its exit, the first exit *)
(* the two that decide whether the actor holds anything.                   *)
EXTENDS ShadowExecution

Parents == [x \in Exits |-> x - NumEntries]

Routes == {"routed", "routeless", "unquotable", "error"}
Runs   == {"success", "program", "expired"}
Of(venue, actor, sim) == [venue |-> venue, actor |-> actor, sim |-> sim]

AnswersHere ==
    [i \in Intents |->
        CASE i = 1 -> Of(Routes, {"base", "malformed", "unplannable", "error"}, Runs)
          [] i = 2 -> Of({"routed"}, {"base"}, {"success"})
          [] i = 3 -> Of({"routed"}, {"base", "nobase"}, {"success"})
          [] OTHER -> Of({"routed"}, {"base"}, {"success"})]
=============================================================================
