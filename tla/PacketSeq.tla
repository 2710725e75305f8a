---- MODULE PacketSeq ----
(***************************************************************************)
(* sequencer.go: the counter every QoS 1 and QoS 2 packet identifier of    *)
(* the broker comes from (packetSeq, packets.go:8: UpperBoundBits 16,      *)
(* Start 1).  next() runs under the sequencer's mutex, so a call is one    *)
(* step; the module holds the functions of the counter, the modules that   *)
(* call next() hold the counter itself.                                    *)
(***************************************************************************)
EXTENDS Integers

CONSTANTS
    Start,      \* sequencer.Start, the first identifier handed out
    Bound       \* 1<<sequencer.UpperBoundBits - 1, where the counter resets

ASSUME SeqAssumption ==
    /\ Start \in Nat \ {0}
    /\ Bound \in Nat
    /\ Start < Bound

\* Mutant: the test for the unused counter is missing.
ResetOnWrapOnly(current) == IF current = Bound THEN Start ELSE current

\* The counter after the reset test of next(): 0 is "never used".
Reset(current) == IF current = Bound \/ current = 0 THEN Start ELSE current

\* Mutant: the value after the reset is returned, not the current one.
NextIdStart(current) == Start

\* What next() returns, and what it leaves in the counter.
NextId(current)  == Reset(current)
NextSeq(current) == Reset(current) + 1

\* The identifiers next() can return: Bound itself is never handed out.
PacketIds == Start .. (Bound - 1)

\* The values the counter takes.
SeqValues == {0} \cup (Start + 1) .. Bound
====
