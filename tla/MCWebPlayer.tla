----------------------------- MODULE MCWebPlayer ------------------------------
(* Instances of WebPlayer for TLC.                                         *)
EXTENDS WebPlayer, TLC

CONSTANTS a1, a2

\* Five peaks and one: more and fewer than the three bars of a canvas that is 15 wide.
MCPeaks == a1 :> <<<<0, 0>>, <<-128, 20>>, <<-4, 90>>, <<-1, 1>>, <<-60, 127>>>>
             @@ a2 :> <<<<-10, 10>>>>
TwoAndOne == a1 :> 2 @@ a2 :> 1
OneEach == a1 :> 1 @@ a2 :> 1
BothInOrder == {<<a1, a2>>}
TrackPagesOnly == {}
=============================================================================
