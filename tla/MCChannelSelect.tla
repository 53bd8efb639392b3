--------------------------- MODULE MCChannelSelect ---------------------------
(* Two auto groups: three priorities with a channel each, and two channels of  *)
(* the same priority, one of them in both groups.                              *)
EXTENDS ChannelSelect, TLC

CONSTANTS c1, c2, c3, c4

MCAutoGroups == <<"vip", "default">>
MCGroupsOf == c1 :> {"vip"} @@ c2 :> {"vip"} @@ c3 :> {"vip", "default"} @@ c4 :> {"default"}
MCPriority == c1 :> 3 @@ c2 :> 2 @@ c3 :> 1 @@ c4 :> 1
MCWeight == c1 :> 0 @@ c2 :> 20 @@ c3 :> 1 @@ c4 :> 0
=============================================================================
