------------------------------- MODULE MCStartup -------------------------------
(* Small configurations for TLC.  Integers of two bits make counts and     *)
(* serials overflow; the specification "cloud" and the data centers        *)
(* "cloud-1" and "a-1" have names that may be taken.                       *)
EXTENDS Startup

MCUpTo(n, S) == UNION {[1..k -> S] : k \in 0..n}

MCSpecs == {Malformed} \cup MCUpTo(2, {"a", "cloud", Malformed})

MCEntries ==
  {Malformed}
    \cup [spec : {"a", "cloud"}, count : 0..3, scheduler : {"greedy"}]
    \cup [spec : {"a"}, count : 0..1, scheduler : {"fair"}]

MCCenterNames == {[base |-> "d", serial |-> NoSerial], [base |-> "a", serial |-> 1], Cloud}

MCCenters(n) == [name : MCCenterNames, servers : MCUpTo(n, MCEntries)]

(* One data center of up to two nodes, or two of up to one. *)
MCClouds ==
  {Malformed} \cup MCUpTo(1, MCCenters(2)) \cup MCUpTo(2, MCCenters(1) \cup {Malformed})

MCConfigs == [specs : MCSpecs, centers : MCClouds]

=============================================================================
