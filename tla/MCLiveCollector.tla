--------------------------- MODULE MCLiveCollector ---------------------------
(* Four inclusions of three transactions: a launch that fails on a fork    *)
(* and then succeeds, an older launch that the cluster drops in between,   *)
(* and a trade that ends the gaps, one of them too wide.                   *)
EXTENDS LiveCollector

At(sig, slot, lives, ok) == [sig |-> sig, slot |-> slot, lives |-> lives, ok |-> ok]
ChainHere == <<At("a", 1, FALSE, FALSE), At("d", 2, FALSE, TRUE),
               At("a", 4, TRUE, TRUE), At("b", 5, TRUE, TRUE)>>
SignaturesHere == {"a", "b", "d"}
PayloadsHere == [s \in SignaturesHere |->
    CASE s = "a" -> <<"launch", "trade">> [] s = "d" -> <<"launch">> [] OTHER -> <<"trade">>]
=============================================================================
