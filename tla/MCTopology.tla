------------------------------ MODULE MCTopology ------------------------------
(* An instance of Topology for TLC: configurations of two bridges over five  *)
(* channels, of which ch4 and ch4b have one name in different teams.         *)
EXTENDS Topology, TLC

CONSTANTS ch1, ch2, ch3, ch4, ch4b, br1, br2

MCChannels == {ch1, ch2, ch3, ch4, ch4b}
MCNames == (ch1 :> "a") @@ (ch2 :> "b") @@ (ch3 :> "c") @@ (ch4 :> "d") @@ (ch4b :> "d")

Named(ch) == [chan |-> ch, by |-> "name"]
ById(ch) == [chan |-> ch, by |-> "id"]
Bridge(id, eps) == [id |-> id, endpoints |-> eps]

\* Two bridges, in the file in this order.
Base == <<Bridge(br1, <<Named(ch1), Named(ch2)>>), Bridge(br2, <<Named(ch3), Named(ch4)>>)>>
\* ch2 leaves br1; ch3 moves to a bridge before its own.
Grown == <<Bridge(br1, <<Named(ch1), Named(ch3)>>), Bridge(br2, <<Named(ch4), Named(ch2)>>)>>
\* Only br2 is left, with a channel of br1.
Removed == <<Bridge(br2, <<Named(ch3), Named(ch1)>>)>>
\* ch4 moves from br2 to br1, and br2 comes first.
Reordered == <<Bridge(br2, <<Named(ch3), ById(ch4b)>>), Bridge(br1, <<Named(ch1), Named(ch4)>>)>>
\* ch1 is in both bridges, once by its name and once by its id.
Hidden == <<Bridge(br1, <<Named(ch1), Named(ch2)>>), Bridge(br2, <<ById(ch1), Named(ch3)>>)>>
\* ch1 is twice in a bridge.
Twin == <<Bridge(br1, <<Named(ch1), ById(ch1), Named(ch2)>>)>>
\* Two channels of one name, which the validator takes for one.
SameName == <<Bridge(br1, <<Named(ch1), Named(ch4)>>), Bridge(br2, <<Named(ch2), Named(ch4b)>>)>>

MCConfigs == {Base, Grown, Removed, Reordered, Hidden, Twin, SameName}
=============================================================================
