---------------------------- MODULE MCExitTracks ----------------------------
(* Small instances of ExitTracks for TLC.                                  *)
EXTENDS ExitTracks

(* A take-profit track and a trailing track, the two rules of the locked   *)
(* exit specifications, with different fallbacks as there.                 *)
MCMode     == <<"TP", "TRAIL">>
MCTarget   == <<3, 2>>
MCGiveback == <<1, 1>>
MCFallback == <<1, 2>>
=============================================================================
