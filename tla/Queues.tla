---- MODULE Queues ----
(***************************************************************************)
(* Facts about sequences used as queues, for the proofs about connections  *)
(* that carry packets.                                                     *)
(***************************************************************************)
EXTENDS Integers, Sequences, TLAPS

\* p is somewhere in the queue s.
In(p, s) == \E i \in DOMAIN s : s[i] = p

\* A function on 1..n is a queue.
LEMMA Queueing ==
    ASSUME NEW S, NEW n \in Nat, NEW s \in [1..n -> S]
    PROVE  s \in Seq(S) /\ Len(s) = n
  OBVIOUS

\* A queue of one.
LEMMA Single ==
    ASSUME NEW S, NEW p \in S
    PROVE  <<p>> \in Seq(S) /\ <<p>> # <<>> /\ <<p>>[1] = p /\ Len(<<p>>) = 1
  OBVIOUS

\* What is in a queue is of the queue's type.
LEMMA Members ==
    ASSUME NEW S, NEW s \in Seq(S), NEW p, In(p, s)
    PROVE  p \in S
  BY DEF In

\* The queue after one more packet.
LEMMA Appended ==
    ASSUME NEW S, NEW s \in Seq(S), NEW p \in S
    PROVE  /\ Append(s, p) \in Seq(S)
           /\ \A q : In(q, Append(s, p)) => q = p \/ In(q, s)
<1>1. Append(s, p) \in Seq(S)
  OBVIOUS
<1>2. ASSUME NEW i \in DOMAIN Append(s, p)
      PROVE  Append(s, p)[i] = p \/ In(Append(s, p)[i], s)
  BY DEF In
<1> QED
  BY <1>1, <1>2 DEF In

\* The queue after its head is taken.
LEMMA Taking ==
    ASSUME NEW S, NEW s \in Seq(S), s # <<>>
    PROVE  /\ Head(s) \in S /\ Tail(s) \in Seq(S)
           /\ In(Head(s), s)
           /\ \A q : In(q, Tail(s)) => In(q, s)
<1>1. Head(s) \in S /\ Tail(s) \in Seq(S) /\ In(Head(s), s)
  BY DEF In
<1>2. ASSUME NEW i \in DOMAIN Tail(s)
      PROVE  i + 1 \in DOMAIN s /\ Tail(s)[i] = s[i + 1]
  OBVIOUS
<1> QED
  BY <1>1, <1>2 DEF In

\* Nothing is in the empty queue.
LEMMA Empties == (\A S : <<>> \in Seq(S)) /\ \A p : ~ In(p, <<>>)
  BY DEF In
====
