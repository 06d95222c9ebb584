--------------------------- MODULE MCOOSLifecycle ---------------------------
(* Bounded instances of OOSLifecycle for TLC. *)
EXTENDS OOSLifecycle, TLC

TwoLaunchers == {"first", "second"}
OneLauncher  == {"first"}
=============================================================================
