------------------------------- MODULE MCCall -------------------------------
(***************************************************************************)
(* Instances of Call for TLC. The schedule is scaled: what matters is      *)
(* which charges are made, how many of the free slots and records there    *)
(* are, and that a limit cuts a call short at every point.                 *)
(***************************************************************************)
EXTENDS Call

MCcost == [op \in OpCode |-> IF op = "Halt" THEN 0 ELSE 1]
MCheader == [op \in VerifyOps |-> 1]

(***************************************************************************)
(* The rows of a call. s is a declared slot, w1 and w2 are digests under   *)
(* the keyed write base 1, r under the keyed read base 2; the other        *)
(* preimages have an undeclared base and are too short to have one.        *)
(***************************************************************************)
RowKey == {"s", "w1", "w2", "r"}
RowRegion == {<<1, 1>>, <<1, 2>>, <<2>>, <<3>>, <<>>}
RowDigest == [p \in RowRegion |->
    CASE p = <<1, 1>> -> "w1" [] p = <<1, 2>> -> "w2" [] OTHER -> "r"]
RowManifests ==
    {[reads |-> {}, writes |-> {"s"},
      keyed_reads |-> {<<2>>}, keyed_writes |-> {<<1>>}],
     NoManifest}
Unset == [k \in RowKey |-> Absent]
RowPresets == {Unset, [Unset EXCEPT !["s"] = 1]}
RowLedgers == {[k \in RowKey |-> IF k \in S THEN 1 ELSE 0] :
                    S \in {{"w1"}, {"s", "r"}}}

(***************************************************************************)
(* The effects of a call: two mint records with one holder and one with    *)
(* another, data too short to be a mint, and a region that is a transfer   *)
(* target as well as the holder of a mint.                                 *)
(***************************************************************************)
OutKey == {"s"}
OutRegion == {<<>>, <<1>>, <<2>>, <<1, 1>>, <<1, 2>>, <<2, 1>>}
OutDigest == [p \in OutRegion |-> "s"]
OutManifests == {NoManifest}
OutPresets == {[k \in OutKey |-> Absent]}
OutLedgers == {[k \in OutKey |-> 0]}

(* A program of every opcode *)
AllRegion == {<<>>, <<1, 1>>}
AllDigest == [p \in AllRegion |-> "s"]
=============================================================================
