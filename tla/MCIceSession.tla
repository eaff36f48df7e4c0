---------------------------- MODULE MCIceSession ----------------------------
EXTENDS IceSession

Two == {"A", "B"}
TwoPeer == [A |-> "B", B |-> "A"]
AIsControlling == {[A |-> "controlling", B |-> "controlled"]}
BothControlling == {[A |-> "controlling", B |-> "controlling"]}
AnyRoles == [Two -> Roles]
LowHigh == [A |-> 1, B |-> 2]
Regular == {[A |-> FALSE, B |-> FALSE]}
AllAggressive == {[A |-> TRUE, B |-> TRUE]}
Either == Regular \cup AllAggressive

\* Direct: one host candidate on each side.
DirectAddr == {"a", "b"}
DirectOwner == [a |-> "A", b |-> "B"]
DirectComp == [x \in DirectAddr |-> 1]
DirectTp == DirectComp
DirectFnd == [x \in DirectAddr |-> "host"]
DirectPrio == [a |-> 9, b |-> 9]
DirectBase == [x \in DirectAddr |-> x]
DirectCand == [A |-> {"a"}, B |-> {"b"}]
DirectAll == DirectAddr \X DirectAddr
DirectSeen == [p \in DirectAddr \X DirectAddr |-> p[1]]
DirectReach == DirectAddr \X DirectAddr

\* Nat: agent A is behind a NAT that maps its host address a to n, and did not
\* learn n beforehand; b cannot send to a.
NatAddr == {"a", "n", "b"}
NatOwner == [a |-> "A", n |-> "A", b |-> "B"]
NatComp == [x \in NatAddr |-> 1]
NatTp == NatComp
NatFnd == [x \in NatAddr |-> "host"]
NatPrio == [a |-> 9, n |-> 7, b |-> 9]
NatBase == [a |-> "a", n |-> "a", b |-> "b"]
NatCand == [A |-> {"a"}, B |-> {"b"}]
NatAll == NatAddr \X NatAddr
NatSeen == [p \in NatAddr \X NatAddr |-> IF NatOwner[p[1]] = "A" THEN "n" ELSE p[1]]
NatReach == {<<"a", "b">>, <<"b", "n">>}
NatLost == NatAll \ NatReach

\* TwoPaths: agent A also offers the relayed candidate r (another transport).
PathsAddr == {"a", "r", "b"}
PathsOwner == [a |-> "A", r |-> "A", b |-> "B"]
PathsComp == [x \in PathsAddr |-> 1]
PathsTp == [a |-> 1, r |-> 2, b |-> 1]
PathsFnd == [a |-> "host", r |-> "relay", b |-> "host"]
PathsPrio == [a |-> 9, r |-> 2, b |-> 9]
PathsBase == [x \in PathsAddr |-> x]
PathsCand == [A |-> {"a", "r"}, B |-> {"b"}]
PathsAll == PathsAddr \X PathsAddr
PathsSeen == [p \in PathsAddr \X PathsAddr |-> p[1]]
PathsReach == PathsAddr \X PathsAddr

\* TwoComps: a host candidate per component (RTP and RTCP) on each side.
CompsAddr == {"a1", "a2", "b1", "b2"}
CompsOwner == [a1 |-> "A", a2 |-> "A", b1 |-> "B", b2 |-> "B"]
CompsComp == [a1 |-> 1, a2 |-> 2, b1 |-> 1, b2 |-> 2]
CompsTp == [x \in CompsAddr |-> 1]
CompsFnd == [x \in CompsAddr |-> "host"]
CompsPrio == [a1 |-> 9, a2 |-> 8, b1 |-> 9, b2 |-> 8]
CompsBase == [x \in CompsAddr |-> x]
CompsCand == [A |-> {"a1", "a2"}, B |-> {"b1", "b2"}]
CompsAll == CompsAddr \X CompsAddr
CompsSeen == [p \in CompsAddr \X CompsAddr |-> p[1]]
CompsReach == CompsAddr \X CompsAddr
=============================================================================
