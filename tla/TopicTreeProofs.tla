---- MODULE TopicTreeProofs ----
(***************************************************************************)
(* What the two searches of the topic tree find, and what the tree holds   *)
(* after any sequence of calls, for any clients, filters and topics.       *)
(*                                                                         *)
(* match and reverseMatch are recursive functions over the tree.  Each is  *)
(* shown to compute a set that is defined without recursion: the set       *)
(* satisfies the equation of the function, and only one function on a tree *)
(* of bounded depth does.                                                  *)
(***************************************************************************)
EXTENDS TopicTree, WellFoundedInduction, TLAPS

----------------------------------------------------------------------------
\* Levels and paths.

\* q is p or a level below p.
Under(q, p) == Len(p) <= Len(q) /\ \A i \in 1..Len(p) : q[i] = p[i]

\* The first l levels of a path.
LEMMA Cut ==
    ASSUME NEW q \in Seq(STRING), NEW l \in 0..Len(q)
    PROVE  /\ SubSeq(q, 1, l) \in Seq(STRING) /\ Len(SubSeq(q, 1, l)) = l
           /\ \A i \in 1..l : SubSeq(q, 1, l)[i] = q[i]
           /\ Under(q, SubSeq(q, 1, l))
<1>1. /\ SubSeq(q, 1, l) \in Seq(STRING) /\ Len(SubSeq(q, 1, l)) = l
      /\ \A i \in 1..l : SubSeq(q, 1, l)[i] = q[i]
  OBVIOUS
<1> QED
  BY <1>1 DEF Under

\* A path is determined by its levels.
LEMMA SamePath ==
    ASSUME NEW p \in Seq(STRING), NEW q \in Seq(STRING), Len(p) = Len(q), \A i \in 1..Len(p) : p[i] = q[i]
    PROVE  p = q
  OBVIOUS

\* The path above the last level.
LEMMA FrontOf ==
    ASSUME NEW q \in Seq(STRING), q # <<>>
    PROVE  /\ Front(q) \in Seq(STRING) /\ Len(Front(q)) = Len(q) - 1 /\ Len(q) \in Nat \ {0}
           /\ \A i \in 1..(Len(q) - 1) : Front(q)[i] = q[i]
           /\ Under(q, Front(q)) /\ Last(q) = q[Len(q)]
<1>1. Len(q) \in Nat \ {0}
  OBVIOUS
<1>2. Len(q) - 1 \in 0..Len(q)
  BY <1>1
<1> QED
  BY <1>1, <1>2, Cut DEF Front, Last

\* Paths under one path, and the level between.
LEMMA UnderTransitive ==
    ASSUME NEW p \in Seq(STRING), NEW q \in Seq(STRING), NEW r \in Seq(STRING), Under(q, p), Under(r, q)
    PROVE  Under(r, p)
<1>1. Len(p) \in Nat /\ Len(q) \in Nat /\ Len(r) \in Nat
  OBVIOUS
<1> QED
  BY <1>1 DEF Under

----------------------------------------------------------------------------
\* A tree: with a level all levels above it, nothing below "#", and no level
\* deeper than some bound.
Tree ==
    /\ nodes \subseteq Seq(STRING) /\ <<>> \in nodes
    /\ \A p \in nodes : \A l \in 0..Len(p) : SubSeq(p, 1, l) \in nodes
    /\ \A p \in nodes : validFilter(p)
    /\ \E n \in Nat : \A p \in nodes : Len(p) <= n

\* The children of a level.
LEMMA ChildOf ==
    ASSUME Tree, NEW p \in nodes, NEW c \in Children(p)
    PROVE  /\ c \in nodes /\ Len(c) = Len(p) + 1 /\ Under(c, p) /\ c # p
           /\ Bytes(c) = c[Len(p) + 1]
<1>1. c \in nodes /\ c # <<>> /\ Front(c) = p /\ c \in Seq(STRING) /\ p \in Seq(STRING) /\ Len(p) \in Nat
  BY DEF Children, Tree
<1>2. Len(p) = Len(c) - 1 /\ Len(c) \in Nat /\ Under(c, p) /\ Last(c) = c[Len(c)]
  BY <1>1, FrontOf
<1> QED
  BY <1>1, <1>2 DEF Bytes

\* The child of p on the way to a level below it.
LEMMA ChildTowards ==
    ASSUME Tree, NEW p \in nodes, NEW q \in nodes, Under(q, p), q # p
    PROVE  LET c == SubSeq(q, 1, Len(p) + 1)
           IN  /\ c \in Children(p) /\ Under(q, c) /\ Bytes(c) = q[Len(p) + 1]
               /\ Len(p) + 1 \in 1..Len(q)
<1> DEFINE k == Len(p) + 1
           c == SubSeq(q, 1, k)
<1>1. p \in Seq(STRING) /\ q \in Seq(STRING) /\ Len(p) \in Nat /\ Len(q) \in Nat
  BY DEF Tree
<1>2. Len(p) <= Len(q) /\ \A i \in 1..Len(p) : q[i] = p[i]
  BY DEF Under
<1>3. Len(p) # Len(q)
  BY <1>1, <1>2, SamePath
<1>4. k \in 0..Len(q) /\ k \in 1..Len(q)
  BY <1>1, <1>2, <1>3
<1>5. /\ c \in nodes /\ c \in Seq(STRING) /\ Len(c) = k /\ Under(q, c)
      /\ \A i \in 1..k : c[i] = q[i]
  BY <1>1, <1>4, Cut DEF Tree
<1> HIDE DEF c
<1>6. c # <<>>
  BY <1>1, <1>5
<1>7. /\ Front(c) \in Seq(STRING) /\ Len(Front(c)) = Len(p) /\ Last(c) = c[k]
      /\ \A i \in 1..Len(p) : Front(c)[i] = c[i]
  <2>1. Len(c) = k /\ Len(c) - 1 = Len(p)
    BY <1>1, <1>5
  <2>2. /\ Front(c) \in Seq(STRING) /\ Len(Front(c)) = Len(c) - 1 /\ Last(c) = c[Len(c)]
        /\ \A i \in 1..(Len(c) - 1) : Front(c)[i] = c[i]
    BY <1>5, <1>6, FrontOf
  <2> QED
    BY <2>1, <2>2
<1>8. Front(c) = p
  <2>1. \A i \in 1..Len(p) : Front(c)[i] = p[i]
    BY <1>1, <1>2, <1>5, <1>7
  <2> QED
    BY <1>1, <1>7, <2>1, SamePath
<1>9. c \in Children(p) /\ Bytes(c) = q[k]
  BY <1>1, <1>5, <1>6, <1>7, <1>8 DEF Children, Bytes
<1> QED
  BY <1>4, <1>5, <1>9 DEF c

\* Only itself is under a level named "#".
LEMMA NothingBelow ==
    ASSUME Tree, NEW p \in nodes, NEW q \in nodes, Under(q, p), Bytes(p) = "#"
    PROVE  q = p
<1>1. p \in Seq(STRING) /\ q \in Seq(STRING) /\ Len(p) \in Nat /\ Len(q) \in Nat /\ p # <<>>
  BY DEF Tree, Bytes
<1>2. p[Len(p)] = "#" /\ Len(p) > 0
  BY <1>1 DEF Bytes, Last
<1>3. ASSUME q # p PROVE FALSE
  <2>1. Len(p) + 1 \in 1..Len(q)
    BY <1>3, ChildTowards
  <2>2. Len(p) \in 1..(Len(q) - 1) /\ q[Len(p)] = "#"
    BY <1>1, <1>2, <2>1 DEF Under
  <2> QED
    BY <2>2 DEF Tree, validFilter
<1> QED
  BY <1>3

\* What holds of a level when it holds of its children holds everywhere: a
\* deepest level for which it fails has no such child.
LEMMA TreeInduction ==
    ASSUME Tree, NEW S \in SUBSET nodes, \A p \in nodes : Children(p) \subseteq S => p \in S
    PROVE  S = nodes
<1> SUFFICES ASSUME S # nodes PROVE FALSE
  OBVIOUS
<1>1. PICK n \in Nat : \A p \in nodes : Len(p) <= n
  BY DEF Tree
<1> DEFINE R == OpToRel(<, Nat)
           T == {k \in Nat : \E p \in nodes \ S : k = n - Len(p)}
<1>2. \A p \in nodes : Len(p) \in Nat
  BY DEF Tree
<1>3. T \subseteq Nat /\ T # {}
  <2>1. PICK p \in nodes \ S : TRUE
    OBVIOUS
  <2>2. n - Len(p) \in Nat
    BY <1>1, <1>2
  <2> QED
    BY <2>1, <2>2
<1>4. PICK k \in T : \A j \in T : <<j, k>> \notin R
  <2>1. IsWellFoundedOn(R, Nat)
    BY NatLessThanWellFounded
  <2> HIDE DEF R, T
  <2> QED
    BY <1>3, <2>1, WFMin
<1>5. PICK p \in nodes \ S : k = n - Len(p)
  OBVIOUS
<1>6. PICK c \in Children(p) : c \notin S
  BY <1>5
<1>7. c \in nodes /\ Len(c) = Len(p) + 1
  BY <1>5, <1>6, ChildOf
<1>8. n - Len(c) \in T /\ n - Len(c) < k /\ k \in Nat /\ n - Len(c) \in Nat
  BY <1>1, <1>2, <1>5, <1>6, <1>7
<1> QED
  BY <1>4, <1>8 DEF OpToRel

----------------------------------------------------------------------------
\* match.

\* The levels of q below the first k take the levels of the topic name t.
Agrees(q, t, k) == \A i \in (k + 1)..Len(q) : i <= Len(t) /\ q[i] \in {t[i], "+", "#"}

\* Where a descent ends with a result.
Stops(q, t) == Bytes(q) = "#" \/ (Len(q) = Len(t) /\ ((\E s \in subs : s.path = q) \/ Children(q) = {}))

\* What match finds at p and below it.
FoundFrom(p, t) == {q \in nodes : Under(q, p) /\ Agrees(q, t, Len(p)) /\ Stops(q, t)}

\* The right-hand side of the definition of match.
MatchStep(from, p, t) ==
    IF Stops(p, t) THEN {p}
    ELSE IF Len(p) < Len(t) THEN UNION {from[c] : c \in findAll(p, t[Len(p) + 1])}
    ELSE {}

\* The result satisfies the equation: a descent that stops has nothing below it, ...
LEMMA FoundStops ==
    ASSUME Tree, NEW t \in Seq(STRING), NEW p \in nodes, Stops(p, t)
    PROVE  FoundFrom(p, t) = {p}
<1>1. p \in Seq(STRING) /\ Len(p) \in Nat /\ Len(t) \in Nat
  BY DEF Tree
<1>2. p \in FoundFrom(p, t)
  BY <1>1 DEF FoundFrom, Under, Agrees
<1>3. ASSUME NEW q \in FoundFrom(p, t), q # p PROVE FALSE
  <2>1. q \in nodes /\ Under(q, p) /\ Agrees(q, t, Len(p))
    BY DEF FoundFrom
  <2>2. Len(p) + 1 \in 1..Len(q)
    BY <1>3, <2>1, ChildTowards
  <2>3. Len(p) + 1 <= Len(t)
    <3>1. Len(q) \in Nat
      BY <2>1 DEF Tree
    <3> QED
      BY <1>1, <2>1, <2>2, <3>1 DEF Agrees
  <2>4. Bytes(p) # "#"
    BY <1>3, <2>1, NothingBelow
  <2> QED
    BY <1>1, <2>3, <2>4 DEF Stops
<1> QED
  BY <1>2, <1>3

\* ... one that does not goes on to the children that findAll gives, ...
LEMMA FoundGoesOn ==
    ASSUME Tree, NEW t \in Seq(STRING), NEW p \in nodes, ~Stops(p, t), Len(p) < Len(t)
    PROVE  FoundFrom(p, t) = UNION {FoundFrom(c, t) : c \in findAll(p, t[Len(p) + 1])}
<1>1. p \in Seq(STRING) /\ Len(p) \in Nat /\ Len(t) \in Nat
  BY DEF Tree
<1>2. ASSUME NEW q \in FoundFrom(p, t)
      PROVE  \E c \in findAll(p, t[Len(p) + 1]) : q \in FoundFrom(c, t)
  <2>1. q \in nodes /\ Under(q, p) /\ Agrees(q, t, Len(p)) /\ Stops(q, t) /\ q # p
    BY <1>2 DEF FoundFrom
  <2>2. PICK c \in Children(p) : Under(q, c) /\ Bytes(c) = q[Len(p) + 1] /\ Len(p) + 1 \in 1..Len(q)
    BY <2>1, ChildTowards
  <2>3. Len(c) = Len(p) + 1 /\ Len(q) \in Nat
    BY <2>1, <2>2, ChildOf DEF Tree
  <2>4. Bytes(c) \in {t[Len(p) + 1], "+", "#"} /\ Agrees(q, t, Len(c))
    BY <1>1, <2>1, <2>2, <2>3 DEF Agrees
  <2> QED
    BY <2>1, <2>2, <2>4 DEF findAll, FoundFrom
<1>3. ASSUME NEW c \in findAll(p, t[Len(p) + 1]), NEW q \in FoundFrom(c, t)
      PROVE  q \in FoundFrom(p, t)
  <2>1. q \in nodes /\ Under(q, c) /\ Agrees(q, t, Len(c)) /\ Stops(q, t)
    BY <1>3 DEF FoundFrom
  <2>2. /\ c \in nodes /\ Len(c) = Len(p) + 1 /\ Under(c, p)
        /\ c[Len(p) + 1] \in {t[Len(p) + 1], "+", "#"}
    BY <1>3, ChildOf DEF findAll
  <2>3. c \in Seq(STRING) /\ q \in Seq(STRING) /\ Len(c) \in Nat /\ Len(q) \in Nat
    BY <2>1, <2>2 DEF Tree
  <2>4. Under(q, p)
    BY <1>1, <2>1, <2>2, <2>3, UnderTransitive
  <2>5. q[Len(p) + 1] = c[Len(p) + 1]
    BY <1>1, <2>1, <2>2, <2>3 DEF Under
  <2>6. ASSUME NEW i \in (Len(p) + 1)..Len(q) PROVE i <= Len(t) /\ q[i] \in {t[i], "+", "#"}
    <3>1. CASE i = Len(p) + 1
      BY <1>1, <2>2, <2>5, <3>1
    <3>2. CASE i # Len(p) + 1
      BY <1>1, <2>1, <2>2, <2>3, <2>6, <3>2 DEF Agrees
    <3> QED
      BY <3>1, <3>2
  <2> QED
    BY <2>1, <2>4, <2>6 DEF FoundFrom, Agrees
<1> QED
  BY <1>2, <1>3

\* ... and one that has used up the topic name finds nothing.
LEMMA FoundNothing ==
    ASSUME Tree, NEW t \in Seq(STRING), NEW p \in nodes, ~Stops(p, t), ~(Len(p) < Len(t))
    PROVE  FoundFrom(p, t) = {}
<1>1. Len(p) \in Nat /\ Len(t) \in Nat
  BY DEF Tree
<1>2. ASSUME NEW q \in FoundFrom(p, t) PROVE FALSE
  <2>1. q \in nodes /\ Under(q, p) /\ Agrees(q, t, Len(p)) /\ q # p
    BY DEF FoundFrom
  <2>2. Len(p) + 1 \in 1..Len(q) /\ Len(q) \in Nat
    BY <2>1, ChildTowards DEF Tree
  <2> QED
    BY <1>1, <2>1, <2>2 DEF Agrees
<1> QED
  BY <1>2

\* Together.
LEMMA FoundEquation ==
    ASSUME Tree, NEW t \in Seq(STRING), NEW from, NEW p \in nodes,
           \A c \in Children(p) : from[c] = FoundFrom(c, t)
    PROVE  FoundFrom(p, t) = MatchStep(from, p, t)
<1>1. findAll(p, t[Len(p) + 1]) \subseteq Children(p)
  BY DEF findAll
<1>2. UNION {from[c] : c \in findAll(p, t[Len(p) + 1])} = UNION {FoundFrom(c, t) : c \in findAll(p, t[Len(p) + 1])}
  BY <1>1
<1> QED
  BY <1>2, FoundStops, FoundGoesOn, FoundNothing DEF MatchStep

\* match finds the levels that agree with the topic name and stop the descent
\* (topic_filter.go:59-76).
LEMMA MatchFinds ==
    ASSUME Tree, NEW t \in Seq(STRING)
    PROVE  match(t) = {q \in nodes : Agrees(q, t, 0) /\ Stops(q, t)}
<1> DEFINE Solves(f) == f = [p \in nodes |-> MatchStep(f, p, t)]
           found == [p \in nodes |-> FoundFrom(p, t)]
           from == CHOOSE f : Solves(f)
<1>1. match(t) = from[<<>>]
  BY DEF match, MatchStep, Stops
<1>2. Solves(found)
  <2>1. ASSUME NEW p \in nodes PROVE found[p] = MatchStep(found, p, t)
    <3>1. \A c \in Children(p) : found[c] = FoundFrom(c, t)
      BY ChildOf
    <3> HIDE DEF found
    <3>2. FoundFrom(p, t) = MatchStep(found, p, t)
      BY <3>1, FoundEquation
    <3> QED
      BY <3>2 DEF found
  <2> QED
    BY <2>1
<1>3. Solves(from)
  <2> HIDE DEF Solves, found
  <2> QED
    BY <1>2
<1> HIDE DEF from, found
<1> DEFINE S == {p \in nodes : from[p] = FoundFrom(p, t)}
<1>4. ASSUME NEW p \in nodes, Children(p) \subseteq S PROVE p \in S
  <2>1. FoundFrom(p, t) = MatchStep(from, p, t)
    BY <1>4, FoundEquation
  <2>2. from[p] = MatchStep(from, p, t)
    BY <1>3
  <2> QED
    BY <2>1, <2>2
<1>5. S = nodes
  <2> HIDE DEF S
  <2>1. S \subseteq nodes
    BY DEF S
  <2> QED
    BY <1>4, <2>1, TreeInduction
<1>6. from[<<>>] = FoundFrom(<<>>, t)
  BY <1>5 DEF Tree
<1>7. \A q \in nodes : Under(q, <<>>) /\ Len(<<>>) = 0
  BY DEF Tree, Under
<1> QED
  BY <1>1, <1>6, <1>7 DEF FoundFrom

----------------------------------------------------------------------------
\* reverseMatch.

\* The levels of q below the first k satisfy the rest of a filter.
Multi(segs) == segs # <<>> /\ Last(segs) = "#"
Fixed(segs) == IF Multi(segs) THEN Len(segs) - 1 ELSE Len(segs)

Satisfies(q, k, segs) ==
    /\ IF Multi(segs) THEN Len(q) - k >= Fixed(segs) ELSE Len(q) - k = Fixed(segs)
    /\ \A i \in 1..Fixed(segs) : segs[i] \in {"+", q[k + i]}

\* What reverseMatch finds at p and below it with the rest of a filter.
HeldFrom(p, segs) == {q \in retained : Under(q, p) /\ Satisfies(q, Len(p), segs)}

\* The right-hand side of the definition of reverseMatch.
ReverseStep(reverse, p, segs) ==
    IF segs = <<>> THEN {p} \cap retained
    ELSE LET seg  == Head(segs)
             rest == IF seg = "#" THEN segs ELSE Tail(segs)
         IN  (IF seg = "#" THEN {p} \cap retained ELSE {})
             \cup UNION {reverse[<<c, rest>>] : c \in {x \in Children(p) : seg \in {"#", "+", Bytes(x)}}}

\* The rests of a filter that is valid.
LEMMA SuffixOf ==
    ASSUME NEW f \in Seq(STRING), validFilter(f), NEW segs \in Suffixes(f)
    PROVE  /\ segs \in Seq(STRING) /\ validFilter(segs)
           /\ segs # <<>> => /\ Tail(segs) \in Suffixes(f)
                             /\ Head(segs) = "#" => Len(segs) = 1
<1>1. CASE segs = <<>>
  BY <1>1 DEF validFilter
<1>2. CASE segs # <<>>
  <2>1. PICK l \in 1..Len(f) : segs = SubSeq(f, l, Len(f))
    BY <1>2 DEF Suffixes
  <2>2. Len(f) \in Nat /\ l \in Nat
    OBVIOUS
  <2>3. /\ segs \in Seq(STRING) /\ Len(segs) = Len(f) - l + 1
        /\ \A i \in 1..Len(segs) : segs[i] = f[l + i - 1]
    BY <2>1, <2>2
  <2>4. validFilter(segs)
    BY <2>1, <2>2, <2>3 DEF validFilter
  <2>5. Tail(segs) \in Suffixes(f)
    <3>1. CASE l = Len(f)
      <4>1. Len(segs) = 1
        BY <2>2, <2>3, <3>1
      <4>2. Tail(segs) \in Seq(STRING) /\ Len(Tail(segs)) = 0
        BY <1>2, <2>3, <4>1
      <4>3. ASSUME NEW r \in Seq(STRING), Len(r) = 0 PROVE r = <<>>
        BY <4>3
      <4> QED
        BY <4>2, <4>3 DEF Suffixes
    <3>2. CASE l # Len(f)
      <4>1. l + 1 \in 1..Len(f)
        BY <2>1, <2>2, <3>2
      <4>2. /\ SubSeq(f, l + 1, Len(f)) \in Seq(STRING) /\ Len(SubSeq(f, l + 1, Len(f))) = Len(f) - l
            /\ \A i \in 1..(Len(f) - l) : SubSeq(f, l + 1, Len(f))[i] = f[l + i]
        BY <2>2, <4>1
      <4>3. /\ Tail(segs) \in Seq(STRING) /\ Len(Tail(segs)) = Len(f) - l
            /\ \A i \in 1..(Len(f) - l) : Tail(segs)[i] = f[l + i]
        BY <1>2, <2>2, <2>3
      <4>4. Tail(segs) = SubSeq(f, l + 1, Len(f))
        BY <4>2, <4>3, SamePath
      <4> QED
        BY <4>1, <4>4 DEF Suffixes
    <3> QED
      BY <3>1, <3>2
  <2>6. Head(segs) = "#" => Len(segs) = 1
    BY <1>2, <2>3, <2>4 DEF validFilter
  <2> QED
    BY <2>3, <2>4, <2>5, <2>6
<1> QED
  BY <1>1, <1>2

\* The head of a filter, and what Satisfies says of it and of its tail.
LEMMA SatisfiesHead ==
    ASSUME NEW q \in Seq(STRING), NEW k \in Nat, k <= Len(q), NEW segs \in Seq(STRING), segs # <<>>,
           Head(segs) = "#" => Len(segs) = 1
    PROVE  /\ Head(segs) = "#" => Satisfies(q, k, segs)
           /\ Head(segs) # "#" =>
                (Satisfies(q, k, segs) <=>
                   /\ k + 1 <= Len(q) /\ Head(segs) \in {"+", q[k + 1]}
                   /\ Satisfies(q, k + 1, Tail(segs)))
<1>1. Len(segs) \in Nat \ {0} /\ Len(q) \in Nat /\ Head(segs) = segs[1]
  OBVIOUS
<1>2. CASE Head(segs) = "#"
  <2>1. Multi(segs) /\ Fixed(segs) = 0
    BY <1>1, <1>2 DEF Multi, Fixed, Last
  <2> QED
    BY <1>1, <1>2, <2>1 DEF Satisfies
<1>3. CASE Head(segs) # "#"
  <2>1. PICK rest \in Seq(STRING) : rest = Tail(segs)
    <3>1. Tail(segs) \in Seq(STRING)
      OBVIOUS
    <3> QED
      BY <3>1
  <2>2. Len(rest) = Len(segs) - 1 /\ \A i \in 1..Len(rest) : rest[i] = segs[i + 1]
    BY <1>1, <2>1
  <2>3. Len(segs) = 1 => rest = <<>>
    BY <2>1, <2>2
  <2>4. Multi(rest) <=> Multi(segs)
    <3>1. CASE Len(segs) = 1
      BY <1>1, <1>3, <2>3, <3>1 DEF Multi, Last
    <3>2. CASE Len(segs) # 1
      <4>1. Len(rest) \in 1..Len(rest) /\ rest # <<>> /\ rest[Len(rest)] = segs[Len(segs)]
        BY <1>1, <2>2, <3>2
      <4> QED
        BY <4>1 DEF Multi, Last
    <3> QED
      BY <3>1, <3>2
  <2>5. /\ Fixed(rest) = Fixed(segs) - 1 /\ Fixed(segs) \in Nat \ {0}
        /\ Fixed(rest) <= Len(rest) /\ Fixed(rest) \in Nat
    <3>1. Multi(segs) => Len(segs) > 1
      BY <1>1, <1>3 DEF Multi, Last
    <3> QED
      BY <1>1, <2>2, <2>4, <3>1 DEF Fixed
  <2>6. \A i \in 1..Fixed(rest) : rest[i] = segs[i + 1]
    BY <2>2, <2>5
  <2>7. (\A i \in 1..Fixed(segs) : segs[i] \in {"+", q[k + i]})
          <=> /\ segs[1] \in {"+", q[k + 1]}
              /\ \A i \in 1..Fixed(rest) : rest[i] \in {"+", q[(k + 1) + i]}
    <3>1. ASSUME NEW i \in 1..Fixed(rest) PROVE i + 1 \in 1..Fixed(segs) /\ (k + 1) + i = k + (i + 1)
      BY <2>5
    <3>2. ASSUME NEW i \in 1..Fixed(segs), i # 1
          PROVE  i - 1 \in 1..Fixed(rest) /\ (k + 1) + (i - 1) = k + i /\ (i - 1) + 1 = i
      BY <2>5, <3>2
    <3>3. 1 \in 1..Fixed(segs)
      BY <2>5
    <3>4. ASSUME \A i \in 1..Fixed(segs) : segs[i] \in {"+", q[k + i]}
          PROVE  /\ segs[1] \in {"+", q[k + 1]}
                 /\ \A i \in 1..Fixed(rest) : rest[i] \in {"+", q[(k + 1) + i]}
      BY <2>6, <3>1, <3>3, <3>4
    <3>5. ASSUME /\ segs[1] \in {"+", q[k + 1]}
                 /\ \A i \in 1..Fixed(rest) : rest[i] \in {"+", q[(k + 1) + i]},
                 NEW i \in 1..Fixed(segs)
          PROVE  segs[i] \in {"+", q[k + i]}
      <4>1. CASE i = 1
        BY <3>5, <4>1
      <4>2. CASE i # 1
        BY <2>6, <3>2, <3>5, <4>2
      <4> QED
        BY <4>1, <4>2
    <3> QED
      BY <3>4, <3>5
  <2>8. (IF Multi(segs) THEN Len(q) - k >= Fixed(segs) ELSE Len(q) - k = Fixed(segs))
          <=> (IF Multi(rest) THEN Len(q) - (k + 1) >= Fixed(rest) ELSE Len(q) - (k + 1) = Fixed(rest))
    BY <1>1, <2>4, <2>5
  <2>9. (IF Multi(segs) THEN Len(q) - k >= Fixed(segs) ELSE Len(q) - k = Fixed(segs)) => k + 1 <= Len(q)
    BY <1>1, <2>5
  <2> QED
    BY <1>1, <1>3, <2>1, <2>7, <2>8, <2>9 DEF Satisfies
<1> QED
  BY <1>2, <1>3

\* The result satisfies the equation: the retained messages below a level are
\* those of the level and those below its children.
LEMMA HeldEquation ==
    ASSUME Tree, retained \subseteq nodes, NEW f \in Seq(STRING), validFilter(f), NEW segs \in Suffixes(f),
           NEW p \in nodes, NEW reverse,
           \A c \in Children(p), rest \in Suffixes(f) : reverse[<<c, rest>>] = HeldFrom(c, rest)
    PROVE  HeldFrom(p, segs) = ReverseStep(reverse, p, segs)
<1> DEFINE k == Len(p)
           seg == Head(segs)
           rest == IF seg = "#" THEN segs ELSE Tail(segs)
           Takes(x) == seg \in {"#", "+", Bytes(x)}
<1>1. /\ p \in Seq(STRING) /\ k \in Nat /\ segs \in Seq(STRING) /\ Under(p, p)
      /\ segs # <<>> => Tail(segs) \in Suffixes(f) /\ (seg = "#" => Len(segs) = 1)
  BY SuffixOf DEF Tree, Under
<1>2. \A q \in retained : q \in nodes /\ q \in Seq(STRING) /\ Len(q) \in Nat /\ (Under(q, p) => k <= Len(q))
  BY DEF Tree, Under
<1>3. CASE segs = <<>>
  <2>1. ASSUME NEW q \in retained, Under(q, p) PROVE Satisfies(q, k, segs) <=> q = p
    <3>1. Satisfies(q, k, segs) <=> Len(q) = k
      BY <1>1, <1>2, <1>3, <2>1 DEF Satisfies, Multi, Fixed
    <3>2. Len(q) = k => q = p
      BY <1>1, <1>2, <2>1, SamePath DEF Under
    <3> QED
      BY <3>1, <3>2
  <2> QED
    BY <1>1, <1>3, <2>1 DEF HeldFrom, ReverseStep
<1>4. CASE segs # <<>>
  <2>1. rest \in Suffixes(f)
    BY <1>1, <1>4
  <2>2. ReverseStep(reverse, p, segs) =
          (IF seg = "#" THEN {p} \cap retained ELSE {})
          \cup UNION {reverse[<<c, rest>>] : c \in {x \in Children(p) : Takes(x)}}
    BY <1>4 DEF ReverseStep
  <2>3. \A c \in Children(p) : reverse[<<c, rest>>] = HeldFrom(c, rest)
    BY <2>1
  <2>4. ASSUME NEW q \in retained, Under(q, p)
        PROVE  Satisfies(q, k, segs) <=>
                 \/ seg = "#"
                 \/ k + 1 <= Len(q) /\ seg \in {"+", q[k + 1]} /\ Satisfies(q, k + 1, Tail(segs))
    <3>1. q \in Seq(STRING) /\ k <= Len(q)
      BY <1>2, <2>4
    <3> QED
      BY <1>1, <1>4, <3>1, SatisfiesHead
  <2>5. ASSUME NEW q \in HeldFrom(p, segs)
        PROVE  \/ seg = "#" /\ q = p
               \/ \E c \in Children(p) : Takes(c) /\ q \in HeldFrom(c, rest)
    <3>1. q \in retained /\ Under(q, p) /\ Satisfies(q, k, segs) /\ q \in nodes /\ q \in Seq(STRING) /\ Len(q) \in Nat
      BY <1>2 DEF HeldFrom
    <3>2. CASE q = p
      BY <1>1, <2>4, <3>1, <3>2
    <3>3. CASE q # p
      <4>1. PICK c \in Children(p) : Under(q, c) /\ Bytes(c) = q[k + 1] /\ k + 1 \in 1..Len(q)
        BY <3>1, <3>3, ChildTowards
      <4>2. Len(c) = k + 1 /\ Len(c) <= Len(q)
        BY <1>1, <3>1, <4>1, ChildOf
      <4>3. CASE seg = "#"
        <5>1. Satisfies(q, Len(c), segs)
          BY <1>1, <1>4, <3>1, <4>2, <4>3, SatisfiesHead
        <5> QED
          BY <3>1, <4>1, <4>3, <5>1 DEF HeldFrom
      <4>4. CASE seg # "#"
        <5>1. seg \in {"+", q[k + 1]} /\ Satisfies(q, k + 1, Tail(segs))
          BY <2>4, <3>1, <4>4
        <5> QED
          BY <3>1, <4>1, <4>2, <4>4, <5>1 DEF HeldFrom
      <4> QED
        BY <4>3, <4>4
    <3> QED
      BY <3>2, <3>3
  <2>6. ASSUME seg = "#", p \in retained PROVE p \in HeldFrom(p, segs)
    BY <1>1, <2>4, <2>6 DEF HeldFrom
  <2>7. ASSUME NEW c \in Children(p), Takes(c), NEW q \in HeldFrom(c, rest)
        PROVE  q \in HeldFrom(p, segs)
    <3>1. /\ q \in retained /\ Under(q, c) /\ Satisfies(q, Len(c), rest)
          /\ q \in nodes /\ q \in Seq(STRING) /\ Len(q) \in Nat
      BY <1>2 DEF HeldFrom
    <3>2. c \in nodes /\ c \in Seq(STRING) /\ Len(c) = k + 1 /\ Under(c, p) /\ Bytes(c) = c[k + 1]
      BY ChildOf DEF Tree
    <3>3. Under(q, p)
      BY <1>1, <3>1, <3>2, UnderTransitive
    <3>4. k + 1 <= Len(q) /\ q[k + 1] = Bytes(c)
      BY <1>1, <3>1, <3>2 DEF Under
    <3>5. CASE seg = "#"
      BY <2>4, <3>1, <3>3, <3>5 DEF HeldFrom
    <3>6. CASE seg # "#"
      <4>1. seg \in {"+", q[k + 1]} /\ Satisfies(q, k + 1, Tail(segs))
        BY <2>7, <3>1, <3>2, <3>4, <3>6
      <4> QED
        BY <2>4, <3>1, <3>3, <3>4, <4>1 DEF HeldFrom
    <3> QED
      BY <3>5, <3>6
  <2> HIDE DEF rest, seg, Takes
  <2>8. HeldFrom(p, segs) \subseteq ReverseStep(reverse, p, segs)
    <3>1. ASSUME NEW q \in HeldFrom(p, segs) PROVE q \in ReverseStep(reverse, p, segs)
      <4>1. q \in retained
        BY DEF HeldFrom
      <4>2. CASE seg = "#" /\ q = p
        BY <2>2, <4>1, <4>2
      <4>3. ASSUME NEW c \in Children(p), Takes(c), q \in HeldFrom(c, rest)
            PROVE  q \in ReverseStep(reverse, p, segs)
        <5>1. q \in reverse[<<c, rest>>]
          BY <2>3, <4>3
        <5> QED
          BY <2>2, <4>3, <5>1
      <4> QED
        BY <2>5, <4>2, <4>3
    <3> QED
      BY <3>1
  <2>9. ReverseStep(reverse, p, segs) \subseteq HeldFrom(p, segs)
    <3>1. ASSUME NEW q \in ReverseStep(reverse, p, segs) PROVE q \in HeldFrom(p, segs)
      <4>1. \/ seg = "#" /\ q = p /\ p \in retained
            \/ \E c \in Children(p) : Takes(c) /\ q \in reverse[<<c, rest>>]
        BY <2>2, <3>1
      <4> QED
        BY <2>3, <2>6, <2>7, <4>1
    <3> QED
      BY <3>1
  <2> QED
    BY <2>8, <2>9
<1> QED
  BY <1>3, <1>4

\* reverseMatch finds the retained messages whose topic names satisfy the
\* filter (topic_filter.go:33-57).
LEMMA ReverseFinds ==
    ASSUME Tree, retained \subseteq nodes, NEW f \in Seq(STRING), validFilter(f)
    PROVE  reverseMatch(f) = {q \in retained : Satisfies(q, 0, f)}
<1> DEFINE D == nodes \X Suffixes(f)
           Solves(g) == g = [at \in D |-> ReverseStep(g, at[1], at[2])]
           held == [at \in D |-> HeldFrom(at[1], at[2])]
           reverse == CHOOSE g : Solves(g)
<1>1. reverseMatch(f) = reverse[<<<<>>, f>>]
  BY DEF reverseMatch, ReverseStep
<1>2. Solves(held)
  <2>1. ASSUME NEW at \in D PROVE held[at] = ReverseStep(held, at[1], at[2])
    <3>1. PICK p \in nodes, segs \in Suffixes(f) : at[1] = p /\ at[2] = segs
      OBVIOUS
    <3>2. \A c \in Children(p), rest \in Suffixes(f) : held[<<c, rest>>] = HeldFrom(c, rest)
      BY DEF Children
    <3>3. held[at] = HeldFrom(p, segs)
      BY <3>1
    <3> HIDE DEF held
    <3>4. HeldFrom(p, segs) = ReverseStep(held, p, segs)
      BY <3>2, HeldEquation
    <3> QED
      BY <3>1, <3>3, <3>4
  <2> QED
    BY <2>1
<1>3. Solves(reverse)
  <2> HIDE DEF Solves, held
  <2> QED
    BY <1>2
<1> HIDE DEF reverse, held
<1> DEFINE S == {p \in nodes : \A segs \in Suffixes(f) : reverse[<<p, segs>>] = HeldFrom(p, segs)}
<1>4. ASSUME NEW p \in nodes, Children(p) \subseteq S PROVE p \in S
  <2>1. ASSUME NEW segs \in Suffixes(f) PROVE reverse[<<p, segs>>] = HeldFrom(p, segs)
    <3>1. HeldFrom(p, segs) = ReverseStep(reverse, p, segs)
      BY <1>4, HeldEquation
    <3>2. reverse[<<p, segs>>] = ReverseStep(reverse, p, segs)
      BY <1>3
    <3> QED
      BY <3>1, <3>2
  <2> QED
    BY <2>1
<1>5. S = nodes
  <2> HIDE DEF S
  <2>1. S \subseteq nodes
    BY DEF S
  <2> QED
    BY <1>4, <2>1, TreeInduction
<1>6. f \in Suffixes(f)
  <2>1. CASE f = <<>>
    BY <2>1 DEF Suffixes
  <2>2. CASE f # <<>>
    BY <2>2 DEF Suffixes
  <2> QED
    BY <2>1, <2>2
<1>7. reverse[<<<<>>, f>>] = HeldFrom(<<>>, f)
  BY <1>5, <1>6 DEF Tree
<1>8. \A q \in retained : Under(q, <<>>) /\ Len(<<>>) = 0
  BY DEF Tree, Under
<1> QED
  BY <1>1, <1>7, <1>8 DEF HeldFrom

----------------------------------------------------------------------------
\* Filters and the paths they are subscribed at.

\* A filter has its own path and, for "#", the one above.
LEMMA SubscribedAt ==
    ASSUME NEW f \in Seq(STRING) \ {<<>>}
    PROVE  /\ f \in SubscribedPaths(f) /\ SubscribedPaths(f) \subseteq {f, Front(f)}
           /\ SubscribedPaths(f) \subseteq Seq(STRING)
           /\ \A p \in SubscribedPaths(f) :
                /\ p # <<>>
                /\ p # f => p = Front(f) /\ Last(f) = "#" /\ Len(f) > 1 /\ Len(p) = Len(f) - 1
                /\ \E l \in 0..Len(f) : p = SubSeq(f, 1, l)
<1>1. /\ Front(f) \in Seq(STRING) /\ Len(Front(f)) = Len(f) - 1 /\ Len(f) \in Nat \ {0}
  BY FrontOf
<1>2. f = SubSeq(f, 1, Len(f)) /\ Front(f) = SubSeq(f, 1, Len(f) - 1)
  BY DEF Front
<1>3. Len(f) \in 0..Len(f) /\ Len(f) - 1 \in 0..Len(f)
  BY <1>1
<1>4. Len(f) > 1 => Front(f) # <<>>
  BY <1>1
<1> QED
  BY <1>1, <1>2, <1>3, <1>4 DEF SubscribedPaths

\* The path above the last level of a valid filter does not end in "#".
LEMMA FrontPlain ==
    ASSUME NEW f \in Seq(STRING) \ {<<>>}, validFilter(f), Len(f) > 1
    PROVE  Last(Front(f)) # "#"
<1>1. /\ Len(Front(f)) = Len(f) - 1 /\ Len(f) \in Nat
      /\ \A i \in 1..(Len(f) - 1) : Front(f)[i] = f[i]
  BY FrontOf
<1>2. Len(f) - 1 \in 1..(Len(f) - 1)
  BY <1>1
<1> QED
  BY <1>1, <1>2 DEF Last, validFilter

\* The level that carries a message for a filter: it is subscribed to, it
\* agrees with the topic name, and a subscription stops the descent there.
LEMMA CarrierFound ==
    ASSUME Tree, NEW f \in nodes, f # <<>>, NEW t \in Seq(STRING), t # <<>>, Matches(f, t)
    PROVE  /\ Carrier(f, t) \in SubscribedPaths(f) /\ Carrier(f, t) \in nodes
           /\ Agrees(Carrier(f, t), t, 0)
           /\ (\E s \in subs : s.path = Carrier(f, t)) => Stops(Carrier(f, t), t)
<1>1. f \in Seq(STRING) /\ Len(f) \in Nat \ {0} /\ Len(t) \in Nat \ {0} /\ Last(f) = f[Len(f)]
  BY DEF Tree, Last
<1>2. /\ Front(f) \in Seq(STRING) /\ Len(Front(f)) = Len(f) - 1
      /\ \A i \in 1..(Len(f) - 1) : Front(f)[i] = f[i]
  BY <1>1, FrontOf
<1>3. CASE Last(f) = "#" /\ Len(t) < Len(f)
  <2>1. Carrier(f, t) = Front(f) /\ Len(t) = Len(f) - 1 /\ \A i \in 1..(Len(f) - 1) : f[i] \in {"+", t[i]}
    BY <1>1, <1>3 DEF Carrier, Matches
  <2>2. Front(f) \in SubscribedPaths(f)
    BY <1>1, <1>3, <2>1 DEF SubscribedPaths
  <2>3. Front(f) \in nodes
    <3>1. Len(f) - 1 \in 0..Len(f)
      BY <1>1
    <3> QED
      BY <3>1 DEF Front, Tree
  <2>4. Agrees(Front(f), t, 0)
    BY <1>1, <1>2, <2>1 DEF Agrees
  <2>5. (\E s \in subs : s.path = Front(f)) => Stops(Front(f), t)
    BY <1>2, <2>1 DEF Stops
  <2> QED
    BY <2>1, <2>2, <2>3, <2>4, <2>5
<1>4. CASE Last(f) = "#" /\ Len(t) >= Len(f)
  <2>1. Carrier(f, t) = f /\ \A i \in 1..(Len(f) - 1) : f[i] \in {"+", t[i]}
    BY <1>1, <1>4 DEF Carrier, Matches
  <2>2. Agrees(f, t, 0)
    <3>1. ASSUME NEW i \in 1..Len(f) PROVE i <= Len(t) /\ f[i] \in {t[i], "+", "#"}
      <4>1. i = Len(f) \/ i \in 1..(Len(f) - 1)
        BY <1>1
      <4>2. CASE i = Len(f)
        <5>1. f[i] = "#" /\ i <= Len(t)
          BY <1>1, <1>4, <4>2
        <5> QED
          BY <5>1
      <4>3. CASE i \in 1..(Len(f) - 1)
        <5>1. i <= Len(t)
          BY <1>1, <1>4, <4>3
        <5> QED
          BY <2>1, <4>3, <5>1
      <4> QED
        BY <4>1, <4>2, <4>3
    <3> QED
      BY <3>1 DEF Agrees
  <2>3. Stops(f, t)
    BY <1>4 DEF Stops, Bytes
  <2> QED
    BY <1>1, <2>1, <2>2, <2>3, SubscribedAt
<1>5. CASE Last(f) # "#"
  <2>1. Carrier(f, t) = f /\ Len(t) = Len(f) /\ \A i \in 1..Len(f) : f[i] \in {"+", t[i]}
    BY <1>1, <1>5 DEF Carrier, Matches
  <2>2. Agrees(f, t, 0)
    BY <1>1, <2>1 DEF Agrees
  <2>3. (\E s \in subs : s.path = f) => Stops(f, t)
    BY <1>1, <2>1 DEF Stops
  <2> QED
    BY <1>1, <2>1, <2>2, <2>3, SubscribedAt
<1> QED
  BY <1>1, <1>3, <1>4, <1>5

\* A level that a message is offered at is the carrier of every filter that
\* is subscribed there.
LEMMA FoundCarries ==
    ASSUME Tree, NEW f \in Seq(STRING) \ {<<>>}, validFilter(f), NEW t \in Seq(STRING),
           NEW p \in SubscribedPaths(f), p \in nodes, Agrees(p, t, 0), Stops(p, t)
    PROVE  Matches(f, t) /\ (p # f => Carrier(f, t) = p)
<1>1. /\ p \in Seq(STRING) \ {<<>>} /\ Len(p) \in Nat \ {0} /\ Len(f) \in Nat \ {0} /\ Len(t) \in Nat
      /\ Last(f) = f[Len(f)] /\ Last(p) = p[Len(p)]
  BY SubscribedAt DEF Last
<1>2. Bytes(p) = Last(p)
  BY <1>1 DEF Bytes
<1>3. \A i \in 1..Len(p) : i <= Len(t) /\ p[i] \in {t[i], "+", "#"}
  BY DEF Agrees
<1>4. \A i \in 1..(Len(f) - 1) : f[i] # "#"
  BY DEF validFilter
<1>5. CASE p = f /\ Last(f) = "#"
  <2>1. Len(f) <= Len(t)
    BY <1>1, <1>3, <1>5
  <2>2. \A i \in 1..(Len(f) - 1) : f[i] \in {"+", t[i]}
    BY <1>1, <1>3, <1>4, <1>5
  <2> QED
    BY <1>1, <1>5, <2>1, <2>2 DEF Matches
<1>6. CASE p = f /\ Last(f) # "#"
  <2>1. Len(f) = Len(t)
    BY <1>2, <1>6 DEF Stops
  <2>2. \A i \in 1..Len(f) : f[i] \in {"+", t[i]}
    <3>1. ASSUME NEW i \in 1..Len(f) PROVE f[i] # "#"
      <4>1. i = Len(f) \/ i \in 1..(Len(f) - 1)
        BY <1>1
      <4> QED
        BY <1>1, <1>4, <1>6, <4>1
    <3> QED
      BY <1>3, <1>6, <3>1
  <2> QED
    BY <1>6, <2>1, <2>2 DEF Matches
<1>7. CASE p # f
  <2>1. p = Front(f) /\ Last(f) = "#" /\ Len(f) > 1 /\ Len(p) = Len(f) - 1
    BY <1>7, SubscribedAt
  <2>2. \A i \in 1..(Len(f) - 1) : p[i] = f[i]
    BY <2>1, FrontOf
  <2>3. Len(p) = Len(t)
    BY <1>2, <2>1, FrontPlain DEF Stops
  <2>4. \A i \in 1..(Len(f) - 1) : f[i] \in {"+", t[i]}
    BY <1>3, <1>4, <2>1, <2>2
  <2> QED
    BY <1>1, <1>7, <2>1, <2>3, <2>4 DEF Matches, Carrier
<1> QED
  BY <1>5, <1>6, <1>7

\* Matches is what reverseMatch decides.
LEMMA SatisfiesMatches ==
    ASSUME NEW f \in Seq(STRING) \ {<<>>}, NEW t \in Seq(STRING)
    PROVE  Satisfies(t, 0, f) <=> Matches(f, t)
<1>1. Len(f) \in Nat /\ Len(t) \in Nat
  OBVIOUS
<1>2. Len(t) - 0 = Len(t) /\ (Multi(f) <=> Last(f) = "#")
  BY <1>1 DEF Multi
<1>3. Fixed(f) = (IF Last(f) = "#" THEN Len(f) - 1 ELSE Len(f))
  BY <1>2 DEF Fixed
<1>4. \A i \in 1..Fixed(f) : t[0 + i] = t[i]
  BY <1>1, <1>3
<1> QED
  BY <1>1, <1>2, <1>3, <1>4 DEF Satisfies, Matches

----------------------------------------------------------------------------
\* The inductive invariant.

\* The types, with the tree.
TypeInv ==
    /\ TypeOK /\ Tree
    /\ asked \in [Clients -> SUBSET [filter : Seq(STRING), qos : QoSLevels]]
    /\ dropped \in [Clients -> SUBSET Seq(STRING)]

\* What a client asked for is in the tree.
AskedInTree == \A c \in Clients : \A r \in asked[c] : r.filter \in nodes /\ r.filter # <<>>

\* A subscription of the client's last session, live while it is connected.
Served(c, p) ==
    \E s \in subs : s.client = c /\ s.path = p /\ s.live = conn[c].on /\ s.clean = conn[c].clean

\* What a client asked for it is subscribed to, at both paths of a "#", unless
\* it unsubscribed from the upper one; what disconnect removes is excepted.
Kept ==
    \A c \in Clients : \A r \in asked[c] : \A p \in SubscribedPaths(r.filter) :
        \/ Served(c, p)
        \/ p # r.filter /\ p \in dropped[c]
        \/ ~conn[c].on /\ (conn[c].clean \/ (conn[c].graceful /\ Len(p) = 1))

\* What explains that c has a live subscription at p.
Explains(f, c, p) ==
    /\ f # <<>> /\ validFilter(f) /\ p \in SubscribedPaths(f)
    /\ (\E r \in asked[c] : r.filter = f) \/ (f \in dropped[c] /\ p # f)

\* A live subscription belongs to a connected client and is explained.
Explained ==
    \A s \in subs : s.live => conn[s.client].on /\ \E f \in Seq(STRING) : Explains(f, s.client, s.path)

\* Together.
TreeInv == TypeInv /\ AskedInTree /\ Kept /\ Explained /\ CleanLeavesNothing

\* The tree after Subscribe or Retain.
LEMMA TreeGrows ==
    ASSUME Tree, NEW f \in Seq(STRING), validFilter(f), nodes' = nodes \cup Prefixes(f)
    PROVE  Tree' /\ (\A l \in 0..Len(f) : SubSeq(f, 1, l) \in nodes') /\ f \in nodes'
<1>1. Len(f) \in Nat
  OBVIOUS
<1>2. \A l \in 0..Len(f) : SubSeq(f, 1, l) \in nodes'
  BY DEF Prefixes
<1>3. ASSUME NEW p \in Prefixes(f)
      PROVE  /\ p \in Seq(STRING) /\ Len(p) <= Len(f) /\ validFilter(p)
             /\ \A l \in 0..Len(p) : SubSeq(p, 1, l) \in Prefixes(f)
  <2>1. PICK k \in 0..Len(f) : p = SubSeq(f, 1, k)
    BY DEF Prefixes
  <2>2. p \in Seq(STRING) /\ Len(p) = k /\ \A i \in 1..k : p[i] = f[i]
    BY <2>1, Cut
  <2>3. validFilter(p)
    BY <1>1, <2>2 DEF validFilter
  <2>4. ASSUME NEW l \in 0..Len(p) PROVE SubSeq(p, 1, l) \in Prefixes(f)
    <3>1. l \in 0..Len(f)
      BY <1>1, <2>2
    <3>2. /\ SubSeq(p, 1, l) \in Seq(STRING) /\ Len(SubSeq(p, 1, l)) = l
          /\ \A i \in 1..l : SubSeq(p, 1, l)[i] = p[i]
      BY <2>2, Cut
    <3>3. /\ SubSeq(f, 1, l) \in Seq(STRING) /\ Len(SubSeq(f, 1, l)) = l
          /\ \A i \in 1..l : SubSeq(f, 1, l)[i] = f[i]
      BY <3>1, Cut
    <3>4. \A i \in 1..l : SubSeq(p, 1, l)[i] = SubSeq(f, 1, l)[i]
      BY <2>2, <3>2, <3>3
    <3>5. SubSeq(p, 1, l) = SubSeq(f, 1, l)
      BY <3>2, <3>3, <3>4, SamePath
    <3> QED
      BY <3>1, <3>5 DEF Prefixes
  <2> QED
    BY <1>1, <2>2, <2>3, <2>4
<1>4. \E n \in Nat : \A p \in nodes' : Len(p) <= n
  <2>1. PICK n \in Nat : \A p \in nodes : Len(p) <= n
    BY DEF Tree
  <2>2. PICK m \in Nat : m >= n /\ m >= Len(f)
    BY <1>1
  <2>3. \A p \in nodes : Len(p) \in Nat
    BY DEF Tree
  <2>4. \A p \in Prefixes(f) : Len(p) \in Nat
    BY <1>3
  <2>5. \A p \in nodes' : Len(p) <= m
    BY <1>1, <1>3, <2>1, <2>2, <2>3, <2>4
  <2> QED
    BY <2>5
<1>5. /\ nodes' \subseteq Seq(STRING) /\ <<>> \in nodes'
      /\ \A p \in nodes' : \A l \in 0..Len(p) : SubSeq(p, 1, l) \in nodes'
      /\ \A p \in nodes' : validFilter(p)
  BY <1>3 DEF Tree
<1>6. f \in nodes'
  <2>1. SubSeq(f, 1, Len(f)) = f /\ Len(f) \in 0..Len(f)
    BY <1>1
  <2> QED
    BY <1>2, <2>1
<1> QED
  BY <1>2, <1>4, <1>5, <1>6 DEF Tree

\* The tree in the terms of TypeOK.
LEMMA TreeType ==
    Tree => \A p \in nodes : Prefixes(p) \subseteq nodes /\ validFilter(p)
  BY DEF Tree, Prefixes

\* The invariant holds at the start ...
LEMMA InitTree == Init => TreeInv
<1> SUFFICES ASSUME Init PROVE TreeInv
  OBVIOUS
<1>1. Tree
  <2>1. nodes = {<<>>} /\ Len(<<>>) = 0 /\ <<>> \in Seq(STRING) /\ validFilter(<<>>)
    BY DEF Init, validFilter
  <2>2. \A l \in 0..Len(<<>>) : SubSeq(<<>>, 1, l) = <<>>
    BY <2>1
  <2> QED
    BY <2>1, <2>2 DEF Tree
<1> QED
  BY <1>1, TreeType DEF Init, TreeInv, TypeInv, TypeOK, AskedInTree, Kept, Explained, CleanLeavesNothing

\* What Subscribe does to the subscriptions.
Replaced(c, P, q) ==
    /\ \A s \in subs : ~(s.client = c /\ s.path \in P) => s \in subs'
    /\ \A s \in subs' : \/ s \in subs /\ ~(s.client = c /\ s.path \in P)
                        \/ s.client = c /\ s.path \in P /\ s.live /\ s.clean = conn[c].clean /\ s.qos = q
    /\ \A p \in P : \E s \in subs' : s.client = c /\ s.path = p /\ s.live /\ s.clean = conn[c].clean
    /\ subs' \subseteq Subscription'
    /\ \A s1, s2 \in subs' : s1.client = s2.client /\ s1.path = s2.path => s1 = s2

LEMMA Subscribed ==
    ASSUME TreeInv, NEW c \in Clients, NEW P \in SUBSET nodes', NEW q \in QoSLevels, nodes \subseteq nodes',
           conn[c].on, subs' = createOrUpdate(c, P, q), conn' = conn
    PROVE  Replaced(c, P, q)
<1> DEFINE New == [path : P, client : {c}, qos : {q}, live : {TRUE}, clean : {conn[c].clean}]
<1>1. subs' = (subs \ {s \in subs : s.client = c /\ s.path \in P}) \cup New
  <2>1. UNION {Of(c, p) : p \in P} = {s \in subs : s.client = c /\ s.path \in P}
    BY DEF Of
  <2> QED
    BY <2>1 DEF createOrUpdate
<1>2. \A s \in New : s.client = c /\ s.path \in P /\ s.live /\ s.clean = conn[c].clean /\ s.qos = q
  OBVIOUS
<1>3. \A p \in P : [path |-> p, client |-> c, qos |-> q, live |-> TRUE, clean |-> conn[c].clean] \in New
  OBVIOUS
<1>4. New \subseteq Subscription' /\ \A s1, s2 \in New : s1.path = s2.path => s1 = s2
  <2>1. conn[c].clean \in BOOLEAN
    BY DEF TreeInv, TypeInv, TypeOK
  <2>2. \A s \in New : s \in [path : nodes', client : Clients, qos : QoSLevels, live : BOOLEAN, clean : BOOLEAN]
    BY <2>1
  <2>3. \A s \in New : s = [path |-> s.path, client |-> c, qos |-> q, live |-> TRUE, clean |-> conn[c].clean]
    <3>1. ASSUME NEW s \in New
          PROVE  s = [path |-> s.path, client |-> c, qos |-> q, live |-> TRUE, clean |-> conn[c].clean]
      <4>1. s = [path |-> s.path, client |-> s.client, qos |-> s.qos, live |-> s.live, clean |-> s.clean]
        BY <3>1
      <4>2. s.client = c /\ s.qos = q /\ s.live = TRUE /\ s.clean = conn[c].clean
        BY <3>1
      <4> QED
        BY <4>1, <4>2
    <3> QED
      BY <3>1
  <2>4. \A s1, s2 \in New : s1.path = s2.path => s1 = s2
    <3> HIDE DEF New
    <3> QED
      BY <2>3
  <2> QED
    BY <2>2, <2>4 DEF Subscription
<1>5. subs \subseteq Subscription'
  BY DEF TreeInv, TypeInv, TypeOK, Subscription
<1>6. \A s1, s2 \in subs : s1.client = s2.client /\ s1.path = s2.path => s1 = s2
  BY DEF TreeInv, TypeInv, TypeOK
<1> HIDE DEF New
<1>7. \A p \in P : \E s \in New : s.path = p
  BY <1>3
<1>8. \A s1, s2 \in subs' : s1.client = s2.client /\ s1.path = s2.path => s1 = s2
  BY <1>1, <1>2, <1>4, <1>6
<1> QED
  BY <1>1, <1>2, <1>4, <1>5, <1>7, <1>8 DEF Replaced

\* What Subscribe does to the tree and the subscriptions.
LEMMA SubscribeDoes ==
    ASSUME TreeInv, NEW c \in Clients, NEW f \in Filters[c], NEW q \in QoSLevels, Subscribe(c, f, q)
    PROVE  /\ f \in Seq(STRING) \ {<<>>} /\ validFilter(f) /\ Tree' /\ f \in nodes'
           /\ nodes \subseteq nodes' /\ conn' = conn /\ conn[c].on
           /\ Replaced(c, SubscribedPaths(f), q)
<1>1. Tree /\ f \in Seq(STRING) \ {<<>>} /\ validFilter(f)
  BY TreeAssumption DEF TreeInv, TypeInv, Subscribe
<1>2. Tree' /\ (\A l \in 0..Len(f) : SubSeq(f, 1, l) \in nodes') /\ f \in nodes' /\ nodes \subseteq nodes'
  BY <1>1, TreeGrows DEF Subscribe
<1>3. ASSUME NEW p \in SubscribedPaths(f) PROVE p \in nodes'
  <2>1. PICK l \in 0..Len(f) : p = SubSeq(f, 1, l)
    BY <1>1, SubscribedAt
  <2> QED
    BY <1>2, <2>1
<1>4. SubscribedPaths(f) \in SUBSET nodes'
  BY <1>3
<1>5. conn' = conn /\ conn[c].on /\ subs' = createOrUpdate(c, SubscribedPaths(f), q)
  BY DEF Subscribe
<1>6. Replaced(c, SubscribedPaths(f), q)
  BY <1>2, <1>4, <1>5, Subscribed
<1> QED
  BY <1>1, <1>2, <1>5, <1>6

\* The types and the tree after every step.
LEMMA NextTree == TreeInv /\ [Next]_vars => TypeInv'
<1> SUFFICES ASSUME TreeInv, [Next]_vars PROVE TypeInv'
  OBVIOUS
<1>1. /\ TypeInv /\ Tree /\ TypeOK
      /\ asked \in [Clients -> SUBSET [filter : Seq(STRING), qos : QoSLevels]]
      /\ dropped \in [Clients -> SUBSET Seq(STRING)]
      /\ conn \in [Clients -> [on : BOOLEAN, clean : BOOLEAN, graceful : BOOLEAN]]
  BY DEF TreeInv, TypeInv, TypeOK
<1>2. ASSUME NEW c \in Clients, NEW clean \in BOOLEAN, Connect(c, clean) PROVE TypeInv'
  <2>1. Tree'
    BY <1>1, <1>2 DEF Connect, Tree
  <2> QED
    BY <1>1, <1>2, <2>1 DEF Connect, TypeInv, TypeOK, Subscription
<1>3. ASSUME NEW c \in Clients, NEW f \in Filters[c], NEW q \in QoSLevels, Subscribe(c, f, q) PROVE TypeInv'
  <2>1. f \in Seq(STRING) \ {<<>>} /\ Tree' /\ Replaced(c, SubscribedPaths(f), q)
    BY <1>3, SubscribeDoes
  <2>2. subs' \subseteq Subscription' /\ \A s1, s2 \in subs' : s1.client = s2.client /\ s1.path = s2.path => s1 = s2
    BY <2>1 DEF Replaced
  <2>3. /\ asked' \in [Clients -> SUBSET [filter : Seq(STRING), qos : QoSLevels]]
        /\ \A d \in Clients : asked'[d] \subseteq [filter : Filters[d], qos : QoSLevels]
    <3>1. [filter |-> f, qos |-> q] \in [filter : Seq(STRING), qos : QoSLevels]
      BY <2>1
    <3>2. [filter |-> f, qos |-> q] \in [filter : Filters[c], qos : QoSLevels]
      OBVIOUS
    <3>3. asked' = [asked EXCEPT ![c] = {r \in asked[c] : r.filter # f} \cup {[filter |-> f, qos |-> q]}]
      BY <1>3 DEF Subscribe
    <3>4. \A d \in Clients : asked[d] \subseteq [filter : Filters[d], qos : QoSLevels]
      BY <1>1 DEF TypeOK
    <3> QED
      BY <1>1, <3>1, <3>2, <3>3, <3>4
  <2>4. /\ dropped' \in [Clients -> SUBSET Seq(STRING)]
        /\ \A d \in Clients : dropped'[d] \subseteq Filters[d]
    BY <1>1, <1>3 DEF Subscribe, TypeOK
  <2>5. conn' = conn /\ retained' = retained
    BY <1>3 DEF Subscribe
  <2>6. \A p \in nodes' : Prefixes(p) \subseteq nodes' /\ validFilter(p)
    BY <2>1 DEF Tree, Prefixes
  <2> QED
    BY <1>1, <2>1, <2>2, <2>3, <2>4, <2>5, <2>6 DEF TypeInv, TypeOK
<1>4. ASSUME NEW c \in Clients, NEW f \in Filters[c], Unsubscribe(c, f) PROVE TypeInv'
  <2>1. Tree' /\ UNCHANGED <<nodes, retained, conn>>
    BY <1>1, <1>4 DEF Unsubscribe, Tree
  <2>2. subs' \subseteq subs
    BY <1>4 DEF Unsubscribe
  <2>3. /\ dropped' \in [Clients -> SUBSET Seq(STRING)]
        /\ \A d \in Clients : dropped'[d] \subseteq Filters[d]
    BY <1>1, <1>4, TreeAssumption DEF Unsubscribe, TypeOK
  <2>4. /\ asked' \in [Clients -> SUBSET [filter : Seq(STRING), qos : QoSLevels]]
        /\ \A d \in Clients : asked'[d] \subseteq [filter : Filters[d], qos : QoSLevels]
    BY <1>1, <1>4 DEF Unsubscribe, TypeOK
  <2> QED
    BY <1>1, <2>1, <2>2, <2>3, <2>4 DEF TypeInv, TypeOK, Subscription
<1>5. ASSUME NEW c \in Clients, NEW graceful \in BOOLEAN, Disconnect(c, graceful) PROVE TypeInv'
  <2>1. Tree' /\ UNCHANGED <<nodes, retained, asked, dropped>>
    BY <1>1, <1>5 DEF Disconnect, Tree
  <2>2. \A s \in subs' : \E r \in subs : s = r \/ s = [r EXCEPT !.live = FALSE]
    BY <1>5 DEF Disconnect, UnsubscribeAll
  <2>3. ASSUME NEW r \in subs
        PROVE  /\ r \in Subscription /\ [r EXCEPT !.live = FALSE] \in Subscription
               /\ [r EXCEPT !.live = FALSE].client = r.client /\ [r EXCEPT !.live = FALSE].path = r.path
    BY <1>1 DEF TypeOK, Subscription
  <2>4. \A s \in subs' : s.client = c => ~s.live \/ s \notin subs
    <3>1. ASSUME NEW s \in subs', s.client = c PROVE ~s.live
      <4>1. PICK r \in subs : s = (IF r.client = c THEN [r EXCEPT !.live = FALSE] ELSE r)
        BY <1>5 DEF Disconnect, UnsubscribeAll
      <4>2. r.client = c /\ s = [r EXCEPT !.live = FALSE] /\ r \in Subscription
        BY <2>3, <3>1, <4>1
      <4> QED
        BY <4>2 DEF Subscription
    <3> QED
      BY <3>1
  <2>5. ASSUME NEW s1 \in subs', NEW s2 \in subs', s1.client = s2.client, s1.path = s2.path PROVE s1 = s2
    <3>1. PICK r1 \in subs : s1 = (IF r1.client = c THEN [r1 EXCEPT !.live = FALSE] ELSE r1)
      BY <1>5 DEF Disconnect, UnsubscribeAll
    <3>2. PICK r2 \in subs : s2 = (IF r2.client = c THEN [r2 EXCEPT !.live = FALSE] ELSE r2)
      BY <1>5 DEF Disconnect, UnsubscribeAll
    <3>3. r1.client = r2.client /\ r1.path = r2.path
      BY <2>3, <2>5, <3>1, <3>2
    <3>4. r1 = r2
      BY <1>1, <3>3 DEF TypeOK
    <3> QED
      BY <3>1, <3>2, <3>4
  <2>6. subs' \subseteq Subscription'
    BY <2>1, <2>2, <2>3 DEF Subscription
  <2>7. conn' \in [Clients -> [on : BOOLEAN, clean : BOOLEAN, graceful : BOOLEAN]]
    <3>1. conn' = [conn EXCEPT ![c] = [conn[c] EXCEPT !.on = FALSE, !.graceful = graceful]]
      BY <1>1, <1>5 DEF Disconnect
    <3>2. [conn[c] EXCEPT !.on = FALSE, !.graceful = graceful] \in [on : BOOLEAN, clean : BOOLEAN, graceful : BOOLEAN]
      BY <1>1
    <3> QED
      BY <1>1, <3>1, <3>2
  <2> QED
    BY <1>1, <2>1, <2>5, <2>6, <2>7 DEF TypeInv, TypeOK
<1>6. ASSUME NEW t \in RetainedTopics, NEW payload \in BOOLEAN, Retain(t, payload) PROVE TypeInv'
  <2>1. t \in Seq(STRING) /\ validFilter(t)
    <3>1. t \in Seq(STRING) /\ \A i \in DOMAIN t : t[i] # "#"
      BY TreeAssumption
    <3>2. \A i \in 1..(Len(t) - 1) : i \in DOMAIN t
      BY <3>1
    <3> QED
      BY <3>1, <3>2 DEF validFilter
  <2>2. Tree' /\ t \in nodes' /\ nodes \subseteq nodes'
    BY <1>1, <1>6, <2>1, TreeGrows DEF Retain
  <2>3. retained' \subseteq nodes' \cap RetainedTopics
    BY <1>1, <1>6, <2>2 DEF Retain, TypeOK
  <2>4. UNCHANGED <<subs, conn, asked, dropped>> /\ subs' \subseteq Subscription'
    BY <1>1, <1>6, <2>2 DEF Retain, TypeOK, Subscription
  <2>5. \A p \in nodes' : Prefixes(p) \subseteq nodes' /\ validFilter(p)
    BY <2>2 DEF Tree, Prefixes
  <2> QED
    BY <1>1, <2>2, <2>3, <2>4, <2>5 DEF TypeInv, TypeOK
<1>7. CASE UNCHANGED vars
  BY <1>1, <1>7 DEF vars, TypeInv, TypeOK, Tree, Subscription
<1> QED
  BY <1>2, <1>3, <1>4, <1>5, <1>6, <1>7 DEF Next

\* What Disconnect does to the subscriptions.
Released(c, graceful) ==
    /\ \A s \in subs : s.client # c => s \in subs'
    /\ \A s \in subs' : s.client # c => s \in subs
    /\ \A s \in subs' : s.client = c => ~s.live /\ ~conn[c].clean
    /\ \A s \in subs : s.client = c =>
          \/ conn[c].clean \/ (graceful /\ Len(s.path) = 1)
          \/ \E r \in subs' : r.client = c /\ r.path = s.path /\ r.live = FALSE /\ r.clean = s.clean

LEMMA Disconnected ==
    ASSUME TypeInv, NEW c \in Clients, NEW graceful \in BOOLEAN, subs' = UnsubscribeAll(c, graceful)
    PROVE  Released(c, graceful)
<1> DEFINE Removed(s) == s.client = c /\ (conn[c].clean \/ (graceful /\ Len(s.path) = 1))
           Cut1(s) == IF s.client = c THEN [s EXCEPT !.live = FALSE] ELSE s
<1>1. ASSUME NEW s \in subs
      PROVE  LET r == [s EXCEPT !.live = FALSE]
             IN  r.client = s.client /\ r.path = s.path /\ r.live = FALSE /\ r.clean = s.clean
  BY DEF TypeInv, TypeOK, Subscription
<1>2. \A s \in subs : ~Removed(s) => Cut1(s) \in subs'
  BY DEF UnsubscribeAll
<1>3. \A r \in subs' : \E s \in subs : ~Removed(s) /\ r = Cut1(s)
  BY DEF UnsubscribeAll
<1>4. ASSUME NEW r \in subs'
      PROVE  /\ r.client # c => r \in subs
             /\ r.client = c => ~r.live /\ ~conn[c].clean
  <2>1. PICK s \in subs : ~Removed(s) /\ r = Cut1(s)
    BY <1>3
  <2> QED
    BY <1>1, <2>1
<1>5. ASSUME NEW s \in subs, s.client = c, ~Removed(s)
      PROVE  \E r \in subs' : r.client = c /\ r.path = s.path /\ r.live = FALSE /\ r.clean = s.clean
  <2>1. [s EXCEPT !.live = FALSE] \in subs'
    BY <1>2, <1>5
  <2> QED
    BY <1>1, <1>5, <2>1
<1> QED
  BY <1>2, <1>4, <1>5 DEF Released

\* What clients asked for stays in the tree.
LEMMA NextAsked == TreeInv /\ [Next]_vars => AskedInTree'
<1> SUFFICES ASSUME TreeInv, [Next]_vars PROVE AskedInTree'
  OBVIOUS
<1>1. TypeInv /\ AskedInTree /\ Tree /\ asked \in [Clients -> SUBSET [filter : Seq(STRING), qos : QoSLevels]]
  BY DEF TreeInv, TypeInv
<1>2. ASSUME NEW c \in Clients, NEW f \in Filters[c], NEW q \in QoSLevels, Subscribe(c, f, q) PROVE AskedInTree'
  <2>1. f \in Seq(STRING) \ {<<>>} /\ f \in nodes' /\ nodes \subseteq nodes'
    BY <1>2, SubscribeDoes
  <2>2. \A d \in Clients : \A r \in asked'[d] : r \in asked[d] \/ r = [filter |-> f, qos |-> q]
    BY <1>1, <1>2 DEF Subscribe
  <2> QED
    BY <1>1, <2>1, <2>2 DEF AskedInTree
<1>3. ASSUME NEW c \in Clients, NEW f \in Filters[c], Unsubscribe(c, f) PROVE AskedInTree'
  BY <1>1, <1>3 DEF Unsubscribe, AskedInTree
<1>4. ASSUME NEW c \in Clients, NEW clean \in BOOLEAN, Connect(c, clean) PROVE AskedInTree'
  BY <1>1, <1>4 DEF Connect, AskedInTree
<1>5. ASSUME NEW c \in Clients, NEW graceful \in BOOLEAN, Disconnect(c, graceful) PROVE AskedInTree'
  BY <1>1, <1>5 DEF Disconnect, AskedInTree
<1>6. ASSUME NEW t \in RetainedTopics, NEW payload \in BOOLEAN, Retain(t, payload) PROVE AskedInTree'
  BY <1>1, <1>6 DEF Retain, AskedInTree
<1>7. CASE UNCHANGED vars
  BY <1>1, <1>7 DEF vars, AskedInTree
<1> QED
  BY <1>2, <1>3, <1>4, <1>5, <1>6, <1>7 DEF Next

\* The parent a "#" subscribes to is no "#" itself.
LEMMA ParentPlain ==
    ASSUME NEW f \in Seq(STRING) \ {<<>>}, validFilter(f), NEW p \in SubscribedPaths(f), p # f
    PROVE  p \in Seq(STRING) /\ p # <<>> /\ p = Front(f) /\ Last(f) = "#" /\ Last(p) # "#"
<1>1. p \in Seq(STRING) /\ p # <<>> /\ p = Front(f) /\ Last(f) = "#" /\ Len(f) > 1
  BY SubscribedAt
<1> QED
  BY <1>1, FrontPlain

\* The filter that subscribes to f and its children.
LEMMA Multiply ==
    ASSUME NEW f \in Seq(STRING), NEW g \in Seq(STRING), g = Append(f, "#")
    PROVE  g # <<>> /\ Last(g) = "#" /\ Front(g) = f
<1>1. /\ Len(g) = Len(f) + 1 /\ g[Len(f) + 1] = "#" /\ Len(f) \in Nat
      /\ \A i \in 1..Len(f) : g[i] = f[i]
  OBVIOUS
<1>2. g # <<>>
  BY <1>1
<1>3. /\ Front(g) \in Seq(STRING) /\ Len(Front(g)) = Len(g) - 1 /\ Last(g) = g[Len(g)]
      /\ \A i \in 1..(Len(g) - 1) : Front(g)[i] = g[i]
  BY <1>2, FrontOf
<1>4. Len(Front(g)) = Len(f) /\ \A i \in 1..Len(f) : Front(g)[i] = f[i]
  BY <1>1, <1>3
<1>5. Front(g) = f
  BY <1>3, <1>4, SamePath
<1> QED
  BY <1>1, <1>2, <1>3, <1>5

\* What a client asked for stays subscribed to.
LEMMA NextKept == TreeInv /\ [Next]_vars => Kept'
<1> SUFFICES ASSUME TreeInv, [Next]_vars PROVE Kept'
  OBVIOUS
<1>1. /\ TypeInv /\ TypeOK /\ Tree /\ AskedInTree /\ Kept
      /\ asked \in [Clients -> SUBSET [filter : Seq(STRING), qos : QoSLevels]]
      /\ dropped \in [Clients -> SUBSET Seq(STRING)]
      /\ conn \in [Clients -> [on : BOOLEAN, clean : BOOLEAN, graceful : BOOLEAN]]
  BY DEF TreeInv, TypeInv, TypeOK
<1> DEFINE Excused(d, f, p) ==
               \/ p # f /\ p \in dropped[d]
               \/ ~conn[d].on /\ (conn[d].clean \/ (conn[d].graceful /\ Len(p) = 1))
<1>2. \A d \in Clients : \A r \in asked[d] : \A p \in SubscribedPaths(r.filter) :
         Served(d, p) \/ Excused(d, r.filter, p)
  BY <1>1 DEF Kept
<1>3. SUFFICES ASSUME NEW d \in Clients, NEW r \in asked'[d], NEW p \in SubscribedPaths(r.filter)
               PROVE  Served(d, p)' \/ Excused(d, r.filter, p)'
  BY DEF Kept, SubscribedPaths
<1>4. ASSUME NEW c \in Clients, NEW f \in Filters[c], NEW q \in QoSLevels, Subscribe(c, f, q)
      PROVE  Served(d, p)' \/ Excused(d, r.filter, p)'
  <2>1. f \in Seq(STRING) \ {<<>>} /\ conn' = conn /\ conn[c].on = TRUE /\ Replaced(c, SubscribedPaths(f), q)
    BY <1>1, <1>4, SubscribeDoes
  <2>2. \A s \in subs' : s.live => s.live = TRUE
    BY <2>1 DEF Replaced, Subscription
  <2>3. \A x \in SubscribedPaths(f) :
           \E s \in subs' : s.client = c /\ s.path = x /\ s.live /\ s.clean = conn[c].clean
    BY <2>1 DEF Replaced
  <2>4. \A x \in SubscribedPaths(f) : Served(c, x)'
    BY <2>1, <2>2, <2>3 DEF Served
  <2>5. Served(d, p) => Served(d, p)'
    BY <2>1, <2>4 DEF Served, Replaced
  <2>6. r \in asked[d] \/ (d = c /\ r = [filter |-> f, qos |-> q])
    BY <1>1, <1>4 DEF Subscribe
  <2>7. CASE d = c /\ r = [filter |-> f, qos |-> q]
    BY <2>4, <2>7
  <2>8. CASE r \in asked[d]
    <3>1. Served(d, p) \/ Excused(d, r.filter, p)
      BY <1>2, <2>8
    <3>2. p \in dropped[d] => p \in dropped'[d] \/ (d = c /\ p \in SubscribedPaths(f))
      BY <1>1, <1>4 DEF Subscribe
    <3> QED
      BY <2>1, <2>4, <2>5, <3>1, <3>2
  <2> QED
    BY <2>6, <2>7, <2>8
<1>5. ASSUME NEW c \in Clients, NEW f \in Filters[c], Unsubscribe(c, f)
      PROVE  Served(d, p)' \/ Excused(d, r.filter, p)'
  <2>1. f \in Seq(STRING) \ {<<>>}
    BY TreeAssumption
  <2>2. /\ r \in asked[d] /\ (d = c => r.filter # f)
        /\ r.filter \in Seq(STRING) \ {<<>>} /\ validFilter(r.filter)
    BY <1>1, <1>5 DEF Unsubscribe, AskedInTree, Tree
  <2>3. Served(d, p) \/ Excused(d, r.filter, p)
    BY <1>2, <2>2
  <2>4. conn' = conn /\ subs' = {s \in subs : ~(s.client = c /\ s.path = f)}
    BY <1>5 DEF Unsubscribe, Of
  <2>5. CASE Served(d, p)
    <3>1. PICK s \in subs : s.client = d /\ s.path = p /\ s.live = conn[d].on /\ s.clean = conn[d].clean
      BY <2>5 DEF Served
    <3>2. CASE d = c /\ p = f
      <4>1. p # r.filter /\ p \in dropped'[d]
        BY <1>1, <1>5, <2>2, <3>2 DEF Unsubscribe
      <4> QED
        BY <4>1
    <3>3. CASE ~(d = c /\ p = f)
      BY <2>4, <3>1, <3>3 DEF Served
    <3> QED
      BY <3>2, <3>3
  <2>6. CASE p # r.filter /\ p \in dropped[d]
    <3>1. p \in Seq(STRING) /\ Last(p) # "#"
      BY <2>2, <2>6, ParentPlain
    <3>2. p # Append(f, "#")
      BY <2>1, <3>1, Multiply
    <3>3. p \in dropped'[d]
      BY <1>1, <1>5, <2>6, <3>2 DEF Unsubscribe
    <3> QED
      BY <2>6, <3>3
  <2> QED
    BY <2>3, <2>4, <2>5, <2>6
<1>6. ASSUME NEW c \in Clients, NEW clean \in BOOLEAN, Connect(c, clean)
      PROVE  Served(d, p)' \/ Excused(d, r.filter, p)'
  <2>1. d # c /\ r \in asked[d] /\ conn'[d] = conn[d] /\ dropped'[d] = dropped[d] /\ subs' = subs
    BY <1>1, <1>6 DEF Connect
  <2>2. Served(d, p) \/ Excused(d, r.filter, p)
    BY <1>2, <2>1
  <2> QED
    BY <2>1, <2>2 DEF Served
<1>7. ASSUME NEW c \in Clients, NEW graceful \in BOOLEAN, Disconnect(c, graceful)
      PROVE  Served(d, p)' \/ Excused(d, r.filter, p)'
  <2>1. /\ r \in asked[d] /\ dropped' = dropped /\ conn[c].on /\ subs' = UnsubscribeAll(c, graceful)
    BY <1>1, <1>7 DEF Disconnect
  <2>2. Served(d, p) \/ Excused(d, r.filter, p)
    BY <1>2, <2>1
  <2>3. /\ d # c => conn'[d] = conn[d]
        /\ d = c => conn'[d].on = FALSE /\ conn'[d].clean = conn[d].clean /\ conn'[d].graceful = graceful
    BY <1>1, <1>7 DEF Disconnect
  <2>4. Released(c, graceful)
    BY <1>1, <2>1, Disconnected
  <2>5. CASE Served(d, p)
    <3>1. PICK s \in subs : s.client = d /\ s.path = p /\ s.live = conn[d].on /\ s.clean = conn[d].clean
      BY <2>5 DEF Served
    <3>2. CASE d # c
      <4>1. s \in subs'
        BY <2>4, <3>1, <3>2 DEF Released
      <4> QED
        BY <2>3, <3>1, <3>2, <4>1 DEF Served
    <3>3. CASE d = c
      <4>1. \/ conn[c].clean \/ (graceful /\ Len(s.path) = 1)
            \/ \E x \in subs' : x.client = c /\ x.path = s.path /\ x.live = FALSE /\ x.clean = s.clean
        <5>1. \A x \in subs : x.client = c =>
                 \/ conn[c].clean \/ (graceful /\ Len(x.path) = 1)
                 \/ \E y \in subs' : y.client = c /\ y.path = x.path /\ y.live = FALSE /\ y.clean = x.clean
          BY <2>4 DEF Released
        <5> QED
          BY <3>1, <3>3, <5>1
      <4> QED
        BY <2>3, <3>1, <3>3, <4>1 DEF Served
    <3> QED
      BY <3>2, <3>3
  <2>6. CASE Excused(d, r.filter, p)
    BY <2>1, <2>3, <2>6
  <2> QED
    BY <2>2, <2>5, <2>6
<1>8. ASSUME NEW t \in RetainedTopics, NEW payload \in BOOLEAN, Retain(t, payload)
      PROVE  Served(d, p)' \/ Excused(d, r.filter, p)'
  BY <1>2, <1>8 DEF Retain, Served
<1>9. CASE UNCHANGED vars
  BY <1>2, <1>9 DEF vars, Served
<1> QED
  BY <1>4, <1>5, <1>6, <1>7, <1>8, <1>9 DEF Next

\* Every live subscription stays explained.
LEMMA NextExplained == TreeInv /\ [Next]_vars => Explained'
<1> SUFFICES ASSUME TreeInv, [Next]_vars PROVE Explained'
  OBVIOUS
<1>1. /\ TypeInv /\ TypeOK /\ Tree /\ Explained
      /\ asked \in [Clients -> SUBSET [filter : Seq(STRING), qos : QoSLevels]]
      /\ dropped \in [Clients -> SUBSET Seq(STRING)]
      /\ conn \in [Clients -> [on : BOOLEAN, clean : BOOLEAN, graceful : BOOLEAN]]
      /\ \A s \in subs : s.client \in Clients
  BY DEF TreeInv, TypeInv, TypeOK, Subscription
<1>2. SUFFICES ASSUME NEW s \in subs', s.live
               PROVE  conn'[s.client].on /\ \E f \in Seq(STRING) : Explains(f, s.client, s.path)'
  BY DEF Explained
<1>3. s \in subs => conn[s.client].on /\ \E g \in Seq(STRING) : Explains(g, s.client, s.path)
  BY <1>1, <1>2 DEF Explained
<1>4. ASSUME NEW c \in Clients, NEW f \in Filters[c], NEW q \in QoSLevels, Subscribe(c, f, q)
      PROVE  conn'[s.client].on /\ \E g \in Seq(STRING) : Explains(g, s.client, s.path)'
  <2>1. f \in Seq(STRING) \ {<<>>} /\ validFilter(f)
    BY <1>4, SubscribeDoes
  <2>2. conn' = conn /\ conn[c].on /\ Replaced(c, SubscribedPaths(f), q)
    BY <1>4, SubscribeDoes
  <2>3. \/ s \in subs /\ ~(s.client = c /\ s.path \in SubscribedPaths(f))
        \/ s.client = c /\ s.path \in SubscribedPaths(f)
    BY <1>2, <2>2 DEF Replaced
  <2>4. asked'[c] = {r \in asked[c] : r.filter # f} \cup {[filter |-> f, qos |-> q]}
    BY <1>1, <1>4 DEF Subscribe
  <2>5. \E r \in asked'[c] : r.filter = f
    <3>1. [filter |-> f, qos |-> q] \in asked'[c] /\ [filter |-> f, qos |-> q].filter = f
      BY <2>4
    <3> QED
      BY <3>1
  <2>6. CASE s.client = c /\ s.path \in SubscribedPaths(f)
    BY <2>1, <2>2, <2>5, <2>6 DEF Explains, SubscribedPaths, validFilter
  <2>7. CASE s \in subs /\ s.client = c /\ s.path \notin SubscribedPaths(f)
    <3>1. PICK g \in Seq(STRING) : Explains(g, c, s.path)
      BY <1>3, <2>7
    <3>2. g # <<>> /\ validFilter(g) /\ s.path \in SubscribedPaths(g)
      BY <3>1 DEF Explains
    <3>3. (\E r \in asked[c] : r.filter = g) => \E r \in asked'[c] : r.filter = g
      BY <2>4, <2>5
    <3>4. g \in dropped[c] /\ s.path # g => g \in dropped'[c] \/ \E r \in asked'[c] : r.filter = g
      <4>1. SUFFICES ASSUME g \in dropped[c], s.path # g, g \in SubscribedPaths(f) PROVE g = f
        BY <1>1, <1>4, <2>5 DEF Subscribe
      <4>2. Last(g) = "#"
        BY <3>2, <4>1, ParentPlain
      <4> QED
        BY <2>1, <4>1, <4>2, ParentPlain
    <3>5. Explains(g, c, s.path)'
      <4>1. (\E r \in asked'[c] : r.filter = g) \/ (g \in dropped'[c] /\ s.path # g)
        BY <3>1, <3>3, <3>4 DEF Explains
      <4> QED
        BY <3>2, <4>1 DEF Explains, SubscribedPaths, validFilter
    <3> QED
      BY <2>2, <2>7, <3>5
  <2>8. CASE s \in subs /\ s.client # c
    <3>1. s.client \in Clients /\ asked'[s.client] = asked[s.client] /\ dropped'[s.client] = dropped[s.client]
      BY <1>1, <1>4, <2>8 DEF Subscribe
    <3> QED
      BY <1>3, <2>2, <2>8, <3>1 DEF Explains, SubscribedPaths, validFilter
  <2> QED
    BY <2>3, <2>6, <2>7, <2>8
<1>5. ASSUME NEW c \in Clients, NEW f \in Filters[c], Unsubscribe(c, f)
      PROVE  conn'[s.client].on /\ \E g \in Seq(STRING) : Explains(g, s.client, s.path)'
  <2>1. f \in Seq(STRING) \ {<<>>}
    BY TreeAssumption
  <2>2. conn' = conn /\ s \in subs /\ ~(s.client = c /\ s.path = f) /\ s.client \in Clients
    BY <1>1, <1>2, <1>5 DEF Unsubscribe, Of
  <2>3. PICK g \in Seq(STRING) : Explains(g, s.client, s.path)
    BY <1>3, <2>2
  <2>4. g # <<>> /\ validFilter(g) /\ s.path \in SubscribedPaths(g)
    BY <2>3 DEF Explains
  <2>5. CASE s.client # c
    <3>1. asked'[s.client] = asked[s.client] /\ dropped'[s.client] = dropped[s.client]
      BY <1>1, <1>5, <2>2, <2>5 DEF Unsubscribe
    <3> QED
      BY <1>3, <2>2, <3>1 DEF Explains, SubscribedPaths, validFilter
  <2>6. CASE s.client = c
    <3>1. (\E r \in asked'[c] : r.filter = g) \/ (g \in dropped'[c] /\ s.path # g)
      <4>1. CASE \E r \in asked[c] : r.filter = g
        <5>1. g = f => g \in dropped'[c] /\ s.path # g
          BY <1>1, <1>5, <2>2, <2>6 DEF Unsubscribe
        <5>2. g # f => \E r \in asked'[c] : r.filter = g
          BY <1>1, <1>5, <4>1 DEF Unsubscribe
        <5> QED
          BY <5>1, <5>2
      <4>2. CASE g \in dropped[c] /\ s.path # g
        <5>1. s.path = Front(g)
          BY <2>4, <4>2, ParentPlain
        <5>2. g # Append(f, "#")
          BY <2>1, <2>2, <2>6, <5>1, Multiply
        <5> QED
          BY <1>1, <1>5, <4>2, <5>2 DEF Unsubscribe
      <4> QED
        BY <2>3, <2>6, <4>1, <4>2 DEF Explains
    <3> QED
      BY <1>3, <2>2, <2>4, <2>6, <3>1 DEF Explains, SubscribedPaths, validFilter
  <2> QED
    BY <2>5, <2>6
<1>6. ASSUME NEW c \in Clients, NEW clean \in BOOLEAN, Connect(c, clean)
      PROVE  conn'[s.client].on /\ \E g \in Seq(STRING) : Explains(g, s.client, s.path)'
  <2>1. s \in subs /\ s.client \in Clients /\ s.client # c
    BY <1>1, <1>2, <1>3, <1>6 DEF Connect
  <2>2. conn'[s.client] = conn[s.client] /\ asked'[s.client] = asked[s.client] /\ dropped'[s.client] = dropped[s.client]
    BY <1>1, <1>6, <2>1 DEF Connect
  <2> QED
    BY <1>3, <2>1, <2>2 DEF Explains, SubscribedPaths, validFilter
<1>7. ASSUME NEW c \in Clients, NEW graceful \in BOOLEAN, Disconnect(c, graceful)
      PROVE  conn'[s.client].on /\ \E g \in Seq(STRING) : Explains(g, s.client, s.path)'
  <2>1. Released(c, graceful)
    BY <1>1, <1>7, Disconnected DEF Disconnect
  <2>2. s.client # c /\ s \in subs
    BY <1>2, <2>1 DEF Released
  <2>3. conn'[s.client] = conn[s.client] /\ asked' = asked /\ dropped' = dropped
    BY <1>1, <1>7, <2>2 DEF Disconnect
  <2> QED
    BY <1>3, <2>2, <2>3 DEF Explains, SubscribedPaths, validFilter
<1>8. ASSUME NEW t \in RetainedTopics, NEW payload \in BOOLEAN, Retain(t, payload)
      PROVE  conn'[s.client].on /\ \E g \in Seq(STRING) : Explains(g, s.client, s.path)'
  BY <1>2, <1>3, <1>8 DEF Retain, Explains, SubscribedPaths, validFilter
<1>9. CASE UNCHANGED vars
  BY <1>2, <1>3, <1>9 DEF vars, Explains, SubscribedPaths, validFilter
<1> QED
  BY <1>4, <1>5, <1>6, <1>7, <1>8, <1>9 DEF Next

\* No subscription of a clean session outlives it.
LEMMA NextClean == TreeInv /\ [Next]_vars => CleanLeavesNothing'
<1> SUFFICES ASSUME TreeInv, [Next]_vars PROVE CleanLeavesNothing'
  OBVIOUS
<1>1. /\ TypeInv /\ TypeOK /\ CleanLeavesNothing
      /\ conn \in [Clients -> [on : BOOLEAN, clean : BOOLEAN, graceful : BOOLEAN]]
      /\ \A s \in subs : s.client \in Clients
  BY DEF TreeInv, TypeInv, TypeOK, Subscription
<1>2. ASSUME NEW c \in Clients, NEW f \in Filters[c], NEW q \in QoSLevels, Subscribe(c, f, q)
      PROVE  CleanLeavesNothing'
  <2>1. \A s \in subs' : s \in subs \/ s.client = c
    BY <1>2 DEF Subscribe, createOrUpdate
  <2> QED
    BY <1>1, <1>2, <2>1 DEF Subscribe, CleanLeavesNothing
<1>3. ASSUME NEW c \in Clients, NEW f \in Filters[c], Unsubscribe(c, f) PROVE CleanLeavesNothing'
  BY <1>1, <1>3 DEF Unsubscribe, CleanLeavesNothing
<1>4. ASSUME NEW c \in Clients, NEW clean \in BOOLEAN, Connect(c, clean) PROVE CleanLeavesNothing'
  BY <1>1, <1>4 DEF Connect, CleanLeavesNothing
<1>5. ASSUME NEW c \in Clients, NEW graceful \in BOOLEAN, Disconnect(c, graceful) PROVE CleanLeavesNothing'
  <2>1. \A s \in subs' : IF s.client = c THEN ~conn[c].clean ELSE s \in subs
    <3>1. Released(c, graceful)
      BY <1>1, <1>5, Disconnected DEF Disconnect
    <3> QED
      BY <3>1 DEF Released
  <2>2. \A d \in Clients : conn'[d].clean = conn[d].clean /\ (d # c => conn'[d].on = conn[d].on)
    BY <1>1, <1>5 DEF Disconnect
  <2> QED
    BY <1>1, <2>1, <2>2 DEF CleanLeavesNothing
<1>6. ASSUME NEW t \in RetainedTopics, NEW payload \in BOOLEAN, Retain(t, payload) PROVE CleanLeavesNothing'
  BY <1>1, <1>6 DEF Retain, CleanLeavesNothing
<1>7. CASE UNCHANGED vars
  BY <1>1, <1>7 DEF vars, CleanLeavesNothing
<1> QED
  BY <1>2, <1>3, <1>4, <1>5, <1>6, <1>7 DEF Next

\* The invariant after every step.
LEMMA Always == Spec => []TreeInv
<1>1. Init => TreeInv
  BY InitTree
<1>2. TreeInv /\ [Next]_vars => TreeInv'
  BY NextTree, NextAsked, NextKept, NextExplained, NextClean DEF TreeInv
<1> QED
  BY <1>1, <1>2, PTL DEF Spec

----------------------------------------------------------------------------
\* What the invariant says of the messages clients are offered.

\* A filter a client asked for, and a topic name it matches.
LEMMA AskedOne ==
    ASSUME TreeInv, NEW c \in Clients, NEW t \in Topics, NEW r \in Asks(c, t)
    PROVE  /\ r \in asked[c] /\ r.filter \in Seq(STRING) \ {<<>>} /\ t \in Seq(STRING)
           /\ Carrier(r.filter, t) \in SubscribedPaths(r.filter)
           /\ Carrier(r.filter, t) # r.filter => Carrier(r.filter, t) = Front(r.filter)
           /\ (\E s \in subs : s.path = Carrier(r.filter, t)) => Carrier(r.filter, t) \in match(t)
<1>1. t \in Seq(STRING) /\ t # <<>>
  BY TreeAssumption
<1>2. r \in asked[c] /\ Matches(r.filter, t)
  BY DEF Asks
<1>3. r.filter \in nodes /\ r.filter # <<>> /\ r.filter \in Seq(STRING) /\ Tree
  BY <1>2 DEF TreeInv, TypeInv, AskedInTree, Tree
<1>4. /\ Carrier(r.filter, t) \in SubscribedPaths(r.filter) /\ Carrier(r.filter, t) \in nodes
      /\ Agrees(Carrier(r.filter, t), t, 0)
      /\ (\E s \in subs : s.path = Carrier(r.filter, t)) => Stops(Carrier(r.filter, t), t)
  BY <1>1, <1>2, <1>3, CarrierFound
<1>5. (\E s \in subs : s.path = Carrier(r.filter, t)) => Carrier(r.filter, t) \in match(t)
  BY <1>1, <1>3, <1>4, MatchFinds
<1>6. Carrier(r.filter, t) # r.filter => Carrier(r.filter, t) = Front(r.filter)
  BY DEF Carrier
<1> QED
  BY <1>1, <1>2, <1>3, <1>4, <1>5, <1>6

\* The subscription that serves a client is offered the message.
LEMMA ServedOffered ==
    ASSUME TreeInv, NEW c \in Clients, NEW t \in Topics, NEW r \in Asks(c, t), Served(c, Carrier(r.filter, t))
    PROVE  \E s \in Offered(t) : s.client = c /\ s.live = conn[c].on /\ s.clean = conn[c].clean
<1>1. PICK s \in subs : /\ s.client = c /\ s.path = Carrier(r.filter, t)
                        /\ s.live = conn[c].on /\ s.clean = conn[c].clean
  BY DEF Served
<1>2. s.path \in match(t)
  <2>1. \E x \in subs : x.path = Carrier(r.filter, t)
    BY <1>1
  <2>2. Carrier(r.filter, t) \in match(t)
    BY <2>1, AskedOne
  <2> QED
    BY <1>1, <2>2
<1>3. s \in Offered(t)
  BY <1>2 DEF Offered
<1> QED
  BY <1>1, <1>3

LEMMA InvReceives == TreeInv => ReceivesWhatItAsked /\ QueuesWhatItAsked
<1> SUFFICES ASSUME TreeInv, NEW c \in Clients, NEW t \in Topics, NEW r \in Asks(c, t)
             PROVE  /\ conn[c].on =>
                          \/ \E s \in Offered(t) : s.client = c /\ s.live
                          \/ Carrier(r.filter, t) # r.filter /\ Front(r.filter) \in dropped[c]
                    /\ ~conn[c].on /\ ~conn[c].clean =>
                          \/ \E s \in Offered(t) : s.client = c /\ ~s.live /\ ~s.clean
                          \/ conn[c].graceful /\ Len(Carrier(r.filter, t)) = 1
                          \/ Carrier(r.filter, t) # r.filter /\ Front(r.filter) \in dropped[c]
  BY DEF ReceivesWhatItAsked, QueuesWhatItAsked
<1> DEFINE p == Carrier(r.filter, t)
<1>1. /\ r \in asked[c] /\ p \in SubscribedPaths(r.filter)
      /\ p # r.filter => p = Front(r.filter)
  BY AskedOne
<1>2. \/ Served(c, p)
      \/ p # r.filter /\ p \in dropped[c]
      \/ ~conn[c].on /\ (conn[c].clean \/ (conn[c].graceful /\ Len(p) = 1))
  BY <1>1 DEF TreeInv, Kept
<1>3. CASE Served(c, p)
  <2>1. PICK s \in Offered(t) : s.client = c /\ s.live = conn[c].on /\ s.clean = conn[c].clean
    BY <1>3, ServedOffered
  <2> QED
    BY <2>1
<1>4. CASE p # r.filter /\ p \in dropped[c]
  BY <1>1, <1>4
<1>5. CASE ~conn[c].on /\ (conn[c].clean \/ (conn[c].graceful /\ Len(p) = 1))
  BY <1>5
<1> QED
  BY <1>2, <1>3, <1>4, <1>5

LEMMA InvNothingElse == TreeInv => ReceivesNothingElse
<1> SUFFICES ASSUME TreeInv, NEW t \in Topics, NEW s \in Offered(t), s.live
             PROVE  /\ conn[s.client].on
                    /\ \/ Asks(s.client, t) # {}
                       \/ \E f \in dropped[s.client] : Carrier(f, t) = s.path /\ s.path # f
  BY DEF ReceivesNothingElse
<1>1. t \in Seq(STRING)
  BY TreeAssumption
<1>2. Tree /\ s \in subs /\ s.path \in match(t)
  BY DEF Offered, TreeInv, TypeInv
<1>3. s.path \in nodes /\ Agrees(s.path, t, 0) /\ Stops(s.path, t)
  BY <1>1, <1>2, MatchFinds
<1>4. conn[s.client].on /\ \E f \in Seq(STRING) : Explains(f, s.client, s.path)
  BY <1>2 DEF TreeInv, Explained
<1>5. PICK f \in Seq(STRING) : Explains(f, s.client, s.path)
  BY <1>4
<1>6. f # <<>> /\ validFilter(f) /\ s.path \in SubscribedPaths(f)
  BY <1>5 DEF Explains
<1>7. Matches(f, t) /\ (s.path # f => Carrier(f, t) = s.path)
  BY <1>1, <1>2, <1>3, <1>6, FoundCarries
<1>8. CASE \E r \in asked[s.client] : r.filter = f
  BY <1>4, <1>7, <1>8 DEF Asks
<1>9. CASE f \in dropped[s.client] /\ s.path # f
  BY <1>4, <1>7, <1>9
<1> QED
  BY <1>5, <1>8, <1>9 DEF Explains

LEMMA InvRetained == TreeInv => RetainedFound
<1> SUFFICES ASSUME TreeInv, NEW f \in Searches, validFilter(f)
             PROVE  reverseMatch(f) = {t \in retained : Matches(f, t)}
  BY DEF RetainedFound
<1>1. f \in Seq(STRING) \ {<<>>}
  BY TreeAssumption
<1>2. Tree /\ retained \subseteq nodes /\ retained \subseteq Seq(STRING)
  BY DEF TreeInv, TypeInv, TypeOK, Tree
<1>3. reverseMatch(f) = {q \in retained : Satisfies(q, 0, f)}
  BY <1>1, <1>2, ReverseFinds
<1>4. \A q \in retained : Satisfies(q, 0, f) <=> Matches(f, q)
  BY <1>1, <1>2, SatisfiesMatches
<1> QED
  BY <1>3, <1>4

----------------------------------------------------------------------------
\* The tree keeps its shape and one subscription for each client and level
\* (topic_filter.go:86-112, 239-303).
THEOREM TreeTypes == Spec => []TypeOK
<1>1. TreeInv => TypeOK
  BY DEF TreeInv, TypeInv
<1> QED
  BY <1>1, Always, PTL

\* Whatever the clients subscribe to and unsubscribe from, in any order and
\* with any filters, a connected client is offered every message its filters
\* ask for, but for the parent level of a "#" it unsubscribed by name
\* (topic_filter.go:59-76, 86-112).
THEOREM AskedReceived == Spec => []ReceivesWhatItAsked
<1>1. TreeInv => ReceivesWhatItAsked
  BY InvReceives
<1> QED
  BY <1>1, Always, PTL

\* A message is offered to no connected client that did not ask for it, but at
\* the parent level of a "#" it unsubscribed from (topic_filter.go:59-76,
\* 134-149).
THEOREM NothingElse == Spec => []ReceivesNothingElse
<1>1. TreeInv => ReceivesNothingElse
  BY InvNothingElse
<1> QED
  BY <1>1, Always, PTL

\* reverseMatch finds exactly the retained messages a filter matches, in every
\* tree the operations build (topic_filter.go:33-57, 353-374).
THEOREM RetainedIsFound == Spec => []RetainedFound
<1>1. TreeInv => RetainedFound
  BY InvRetained
<1> QED
  BY <1>1, Always, PTL

\* A persistent client that is away keeps the subscriptions it asked for, so
\* Publish queues for it, but at the top level after DISCONNECT
\* (topic_filter.go:151-156, broker.go:359-363).
THEOREM AskedQueued == Spec => []QueuesWhatItAsked
<1>1. TreeInv => QueuesWhatItAsked
  BY InvReceives
<1> QED
  BY <1>1, Always, PTL

\* When a clean session ends no subscription of the client is left, one of an
\* earlier persistent session included (topic_filter.go:151-156, 219-233).
THEOREM CleanLeft == Spec => []CleanLeavesNothing
<1>1. TreeInv => CleanLeavesNothing
  BY DEF TreeInv
<1> QED
  BY <1>1, Always, PTL
====
