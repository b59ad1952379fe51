-------------------------- MODULE MCAdvertisingReads --------------------------
(* Two of the four report types: the one that is read campaign by campaign   *)
(* and the one that is also read for the baseline period.                    *)
EXTENDS AdvertisingReads

ToolsValue == <<"search", "targeting">>
=============================================================================
