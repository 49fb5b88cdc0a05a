------------------------- MODULE TraceWriterProofs -------------------------
(***************************************************************************)
(* What each operation of the trace writer does to a trace, for every      *)
(* trace: its type, its length and counters, the places of its retrievals, *)
(* outcomes and responses, the chain a reader sees, and that a trace that  *)
(* was well formed stays so.  The proofs about the arms cite these lemmas  *)
(* and never look into the operators.                                      *)
(***************************************************************************)
EXTENDS TraceWriter, SequenceTheorems, FiniteSetTheorems, WellFoundedInduction, TLAPS

-----------------------------------------------------------------------------
(* Induction, stated of a set of numbers: the theorems of NaturalsInduction *)
(* are about operators, this one follows from the well-foundedness of <.    *)

LEMMA SetInduction ==
  ASSUME NEW S, 0 \in S, \A n \in Nat : n \in S => n + 1 \in S
  PROVE  Nat \subseteq S
<1> SUFFICES ASSUME Nat \ S # {} PROVE FALSE
  OBVIOUS
<1>1. IsWellFoundedOn(OpToRel(<, Nat), Nat)
  BY NatLessThanWellFounded
<1>2. PICK x \in Nat \ S : \A y \in Nat \ S : <<y, x>> \notin OpToRel(<, Nat)
  BY <1>1, WFMin
<1>3. x # 0 /\ x - 1 \in Nat /\ x - 1 < x /\ (x - 1) + 1 = x
  OBVIOUS
<1>4. x - 1 \in S
  BY <1>2, <1>3 DEF OpToRel
<1>5. QED
  BY <1>3, <1>4

-----------------------------------------------------------------------------
(* The n-th place of a finite set of places that grows at its end.         *)

LEMMA RankBelow ==
  ASSUME NEW S \in SUBSET Nat, IsFiniteSet(S), NEW m \in Nat, \A i \in S : i < m,
         NEW n \in 1..Cardinality(S)
  PROVE  Rank(S \union {m}, n) = Rank(S, n)
<1>0. \A j \in S \union {m} : j <= m
  OBVIOUS
<1>1. Cardinality(S) \in Nat
  BY FS_CardinalityType
<1>2. m \notin S
  OBVIOUS
<1>3. Cardinality(S \union {m}) = Cardinality(S) + 1
  BY <1>2, FS_AddElement
<1>4. {j \in S \union {m} : j <= m} = S \union {m}
  BY <1>0
<1>5. Cardinality({j \in S \union {m} : j <= m}) # n
  BY <1>1, <1>3, <1>4
<1>6. ASSUME NEW i \in S
      PROVE  {j \in S \union {m} : j <= i} = {j \in S : j <= i}
  OBVIOUS
<1>7. QED
  BY <1>2, <1>5, <1>6 DEF Rank

LEMMA RankAtEnd ==
  ASSUME NEW S \in SUBSET Nat, IsFiniteSet(S), NEW m \in Nat, \A i \in S : i < m
  PROVE  Rank(S \union {m}, Cardinality(S) + 1) = {m}
<1>0. \A j \in S \union {m} : j <= m
  OBVIOUS
<1>1. Cardinality(S) \in Nat
  BY FS_CardinalityType
<1>2. m \notin S
  OBVIOUS
<1>3. {j \in S \union {m} : j <= m} = S \union {m}
  BY <1>0
<1>4. Cardinality({j \in S \union {m} : j <= m}) = Cardinality(S) + 1
  BY <1>2, <1>3, FS_AddElement
<1>5. ASSUME NEW i \in S
      PROVE  Cardinality({j \in S \union {m} : j <= i}) # Cardinality(S) + 1
  <2>1. {j \in S \union {m} : j <= i} \in SUBSET S
    OBVIOUS
  <2>2. /\ Cardinality({j \in S \union {m} : j <= i}) \in Nat
        /\ Cardinality({j \in S \union {m} : j <= i}) <= Cardinality(S)
    BY <2>1, FS_Subset, FS_CardinalityType
  <2>3. QED
    BY <1>1, <2>2
<1>6. QED
  BY <1>2, <1>4, <1>5 DEF Rank

\* A place added after all others comes last and moves none of them.
LEMMA NthOfLonger ==
  ASSUME NEW S \in SUBSET Nat, IsFiniteSet(S), NEW m \in Nat, \A i \in S : i < m
  PROVE  /\ Cardinality(S) \in Nat
         /\ Cardinality(S \union {m}) = Cardinality(S) + 1
         /\ \A n \in 1..Cardinality(S) : Nth(S \union {m}, n) = Nth(S, n)
         /\ Nth(S \union {m}, Cardinality(S) + 1) = m
<1>1. Cardinality(S) \in Nat /\ m \notin S
  BY FS_CardinalityType
<1>2. Cardinality(S \union {m}) = Cardinality(S) + 1
  BY <1>1, FS_AddElement
<1>3. \A n \in 1..Cardinality(S) : Nth(S \union {m}, n) = Nth(S, n)
  BY RankBelow DEF Nth
<1>4. Nth(S \union {m}, Cardinality(S) + 1) = m
  <2>1. Rank(S \union {m}, Cardinality(S) + 1) = {m}
    BY RankAtEnd
  <2>2. QED
    BY <2>1 DEF Nth
<1>5. QED
  BY <1>1, <1>2, <1>3, <1>4

\* Every rank up to the size of the set is taken.
LEMMA NthIsPlace ==
  ASSUME NEW top \in Nat, NEW S \in SUBSET (0..top), NEW n \in 1..Cardinality(S)
  PROVE  Nth(S, n) \in S
<1> DEFINE Ranked(T) == \A k \in 1..Cardinality(T) : Rank(T, k) # {}
           Good == {b \in Nat : \A T \in SUBSET (0..b) : Ranked(T)}
<1>1. 0 \in Good
  <2> SUFFICES ASSUME NEW T \in SUBSET {0} PROVE Ranked(T)
    BY 0..0 = {0}
  <2>1. CASE T = {}
    BY <2>1, FS_EmptySet
  <2>2. CASE T = {0}
    <3>1. Cardinality(T) = 1
      BY <2>2, FS_Singleton
    <3>2. {j \in T : j <= 0} = T
      BY <2>2
    <3>3. 0 \in T /\ Cardinality({j \in T : j <= 0}) = 1
      BY <2>2, <3>1, <3>2
    <3>4. 0 \in Rank(T, 1)
      BY <3>3 DEF Rank
    <3>5. QED
      BY <3>1, <3>4
  <2>3. QED
    BY <2>1, <2>2
<1>2. ASSUME NEW b \in Nat, b \in Good
      PROVE  b + 1 \in Good
  <2> SUFFICES ASSUME NEW T \in SUBSET (0..(b + 1)) PROVE Ranked(T)
    OBVIOUS
  <2> DEFINE R == T \ {b + 1}
  <2>0. \A i \in R : i \in 0..b
    OBVIOUS
  <2>1. R \in SUBSET (0..b) /\ R \in SUBSET Nat /\ (\A i \in R : i < b + 1) /\ b + 1 \in Nat
    <3>1. (\A i \in R : i \in Nat /\ i < b + 1) /\ b + 1 \in Nat
      BY <2>0
    <3>2. R \subseteq 0..b /\ R \subseteq Nat
      BY <2>0, <3>1
    <3>3. QED
      BY <3>1, <3>2
  <2>2. Ranked(R)
    BY <1>2, <2>1
  <2>3. IsFiniteSet(R)
    <3>1. IsFiniteSet(0..b)
      BY FS_Interval
    <3>2. QED
      BY <2>1, <3>1, FS_Subset
  <2>4. CASE T = R
    BY <2>2, <2>4
  <2>5. CASE T = R \union {b + 1}
    <3> HIDE DEF R
    <3>1. Cardinality(R) \in Nat /\ Cardinality(T) = Cardinality(R) + 1
      <4>1. Cardinality(R) \in Nat
        BY <2>3, FS_CardinalityType
      <4>2. Cardinality(R \union {b + 1}) = Cardinality(R) + 1
        BY <2>1, <2>3, NthOfLonger
      <4>3. QED
        BY <2>5, <4>1, <4>2
    <3>2. \A k \in 1..Cardinality(R) : Rank(T, k) = Rank(R, k)
      <4> SUFFICES ASSUME NEW k \in 1..Cardinality(R) PROVE Rank(R \union {b + 1}, k) = Rank(R, k)
        BY <2>5
      <4>1. QED
        BY <2>1, <2>3, RankBelow
    <3>3. Rank(T, Cardinality(R) + 1) = {b + 1}
      BY <2>1, <2>3, <2>5, RankAtEnd
    <3>4. QED
      BY <2>2, <3>1, <3>2, <3>3
  <2>6. QED
    BY <2>4, <2>5
<1>3. Nat \subseteq Good
  <2> HIDE DEF Good
  <2>1. QED
    BY <1>1, <1>2, SetInduction
<1>4. Rank(S, n) # {}
  BY <1>3
<1>5. QED
  BY <1>4 DEF Nth, Rank

-----------------------------------------------------------------------------
(* What a sequence has at some of its places.                              *)

LEMMA SelectType ==
  ASSUME NEW T, NEW s \in Seq(T), NEW P \in SUBSET (1..Len(s))
  PROVE  /\ IsFiniteSet(P) /\ Cardinality(P) \in Nat
         /\ Select(s, P) \in Seq(T)
         /\ Len(Select(s, P)) = Cardinality(P)
         /\ \A n \in 1..Cardinality(P) : Nth(P, n) \in P /\ Select(s, P)[n] = s[Nth(P, n)]
<1>0. Len(s) \in Nat /\ P \in SUBSET (0..Len(s)) /\ \A i \in P : s[i] \in T
  BY LenProperties, ElementOfSeq
<1>1. IsFiniteSet(P) /\ Cardinality(P) \in Nat
  <2>1. IsFiniteSet(0..Len(s))
    BY <1>0, FS_Interval
  <2>2. IsFiniteSet(P)
    BY <1>0, <2>1, FS_Subset
  <2>3. QED
    BY <2>2, FS_CardinalityType
<1>2. \A n \in 1..Cardinality(P) : Nth(P, n) \in P
  BY <1>0, NthIsPlace
<1>3. \A n \in 1..Cardinality(P) : s[Nth(P, n)] \in T
  BY <1>0, <1>2
<1>4. Select(s, P) \in Seq(T) /\ Len(Select(s, P)) = Cardinality(P)
  BY <1>1, <1>3, IsASeq DEF Select
<1>5. QED
  BY <1>1, <1>2, <1>4 DEF Select

\* A place is added beyond the old end: what is there is appended.
LEMMA SelectGrows ==
  ASSUME NEW T, NEW s \in Seq(T), NEW s2 \in Seq(T), Len(s) <= Len(s2),
         \A i \in 1..Len(s) : s2[i] = s[i],
         NEW P \in SUBSET (1..Len(s)), NEW m \in (Len(s) + 1)..Len(s2)
  PROVE  Select(s2, P \union {m}) = Append(Select(s, P), s2[m])
<1> DEFINE c == Cardinality(P)
<1>1. /\ IsFiniteSet(P) /\ c \in Nat /\ Select(s, P) \in Seq(T) /\ Len(Select(s, P)) = c
      /\ \A n \in 1..c : Nth(P, n) \in P /\ Select(s, P)[n] = s[Nth(P, n)]
  BY SelectType
<1>0. /\ Len(s) \in Nat /\ Len(s2) \in Nat /\ m \in Nat
      /\ P \in SUBSET Nat /\ \A i \in P : i < m
  BY LenProperties
<1>2. /\ Cardinality(P \union {m}) = c + 1
      /\ \A n \in 1..c : Nth(P \union {m}, n) = Nth(P, n)
      /\ Nth(P \union {m}, c + 1) = m
  BY <1>0, <1>1, NthOfLonger
<1>3. P \union {m} \in SUBSET (1..Len(s2))
  BY <1>0
<1>4. /\ Select(s2, P \union {m}) \in Seq(T)
      /\ Len(Select(s2, P \union {m})) = c + 1
      /\ \A n \in 1..(c + 1) : Select(s2, P \union {m})[n] = s2[Nth(P \union {m}, n)]
  <2> DEFINE P2 == P \union {m}
  <2> HIDE DEF P2
  <2>1. /\ Select(s2, P2) \in Seq(T) /\ Len(Select(s2, P2)) = Cardinality(P2)
        /\ \A n \in 1..Cardinality(P2) : Select(s2, P2)[n] = s2[Nth(P2, n)]
    BY <1>3, SelectType DEF P2
  <2>2. QED
    BY <1>2, <2>1 DEF P2
<1>5. \A n \in 1..c : s2[Nth(P \union {m}, n)] = Select(s, P)[n]
  BY <1>1, <1>2
<1> HIDE DEF c
<1>6. /\ Append(Select(s, P), s2[m]) \in Seq(T)
      /\ Len(Append(Select(s, P), s2[m])) = c + 1
      /\ \A n \in 1..c : Append(Select(s, P), s2[m])[n] = Select(s, P)[n]
      /\ Append(Select(s, P), s2[m])[c + 1] = s2[m]
  <2>1. s2[m] \in T
    BY <1>0, ElementOfSeq
  <2>2. QED
    BY <1>1, <2>1, AppendProperties DEF c
<1>7. \A n \in 1..(c + 1) : Select(s2, P \union {m})[n] = Append(Select(s, P), s2[m])[n]
  <2> TAKE n \in 1..(c + 1)
  <2>1. CASE n = c + 1
    BY <1>2, <1>4, <1>6, <2>1 DEF c
  <2>2. CASE n \in 1..c
    BY <1>1, <1>4, <1>5, <1>6, <2>2 DEF c
  <2>3. QED
    BY <1>1, <2>1, <2>2 DEF c
<1>8. QED
  BY <1>4, <1>6, <1>7, SeqEqual

\* Nothing selected is added or changed.
LEMMA SelectSame ==
  ASSUME NEW T, NEW s \in Seq(T), NEW s2 \in Seq(T), Len(s) <= Len(s2),
         \A i \in 1..Len(s) : s2[i] = s[i], NEW P \in SUBSET (1..Len(s))
  PROVE  Select(s2, P) = Select(s, P)
<1>1. /\ Cardinality(P) \in Nat
      /\ \A n \in 1..Cardinality(P) : Nth(P, n) \in P
  BY SelectType
<1>2. \A n \in 1..Cardinality(P) : s2[Nth(P, n)] = s[Nth(P, n)]
  BY <1>1
<1>3. QED
  BY <1>2 DEF Select

LEMMA PlaceByPlace ==
  ASSUME NEW T, NEW m \in Nat, NEW f, f = [k \in 1..m |-> f[k]], \A k \in 1..m : f[k] \in T
  PROVE  f \in Seq(T) /\ Len(f) = m
<1>1. [k \in 1..m |-> f[k]] \in Seq(T) /\ Len([k \in 1..m |-> f[k]]) = m
  BY IsASeq
<1>2. QED
  BY <1>1

\* A sequence given place by place is the old one and its last place.
LEMMA LastPlace ==
  ASSUME NEW T, NEW n \in Nat, NEW old, NEW new,
         old = [k \in 1..n |-> old[k]], \A k \in 1..n : old[k] \in T,
         new = [k \in 1..(n + 1) |-> new[k]], new[n + 1] \in T,
         \A k \in 1..n : new[k] = old[k]
  PROVE  new = Append(old, new[n + 1])
<1> DEFINE last == new[n + 1]
<1>1. \A k \in 1..(n + 1) : new[k] \in T /\ (k \in 1..n \/ k = n + 1)
  OBVIOUS
<1>2. n + 1 \in Nat
  OBVIOUS
<1>3. old \in Seq(T) /\ Len(old) = n
  BY PlaceByPlace
<1>5. new \in Seq(T) /\ Len(new) = n + 1
  BY <1>1, <1>2, PlaceByPlace
<1> HIDE DEF last
<1>6. /\ Append(old, last) \in Seq(T) /\ Len(Append(old, last)) = n + 1
      /\ Append(old, last)[n + 1] = last
      /\ \A k \in 1..n : Append(old, last)[k] = old[k]
  BY <1>3, AppendProperties DEF last
<1>7. \A k \in 1..(n + 1) : new[k] = Append(old, last)[k]
  BY <1>1, <1>6 DEF last
<1>8. QED
  BY <1>5, <1>6, <1>7, SeqEqual DEF last

-----------------------------------------------------------------------------
(* One more event.                                                         *)

\* The places of the events of some kinds.
LEMMA PlacesOfAppend ==
  ASSUME NEW e \in Seq(TraceEvent), NEW ev \in TraceEvent
  PROVE  LET e2 == Append(e, ev) IN
         /\ e2 \in Seq(TraceEvent) /\ Len(e) \in Nat /\ Len(e2) = Len(e) + 1
         /\ e2[Len(e) + 1] = ev /\ \A i \in 1..Len(e) : e2[i] = e[i]
         /\ ev.kind = "tool_use" => Uses(e2) = Uses(e) \union {Len(e) + 1}
         /\ ev.kind # "tool_use" => Uses(e2) = Uses(e)
         /\ ev.kind \in {"tool_result", "tool_error"} =>
              Outcomes(e2) = Outcomes(e) \union {Len(e) + 1}
         /\ ev.kind \notin {"tool_result", "tool_error"} => Outcomes(e2) = Outcomes(e)
         /\ ev.kind = "claude_response" => Responses(e2) = Responses(e) \union {Len(e) + 1}
         /\ ev.kind # "claude_response" => Responses(e2) = Responses(e)
<1> DEFINE e2 == Append(e, ev)
<1>1. /\ e2 \in Seq(TraceEvent) /\ Len(e) \in Nat /\ Len(e2) = Len(e) + 1
      /\ e2[Len(e) + 1] = ev /\ \A i \in 1..Len(e) : e2[i] = e[i]
  BY AppendProperties, LenProperties
<1> HIDE DEF e2
<1>2. 1..Len(e2) = (1..Len(e)) \union {Len(e) + 1}
  BY <1>1
<1>3. /\ ev.kind = "tool_use" => Uses(e2) = Uses(e) \union {Len(e) + 1}
      /\ ev.kind # "tool_use" => Uses(e2) = Uses(e)
  BY <1>1, <1>2 DEF Uses
<1>4. /\ ev.kind \in {"tool_result", "tool_error"} =>
           Outcomes(e2) = Outcomes(e) \union {Len(e) + 1}
      /\ ev.kind \notin {"tool_result", "tool_error"} => Outcomes(e2) = Outcomes(e)
  BY <1>1, <1>2 DEF Outcomes
<1>5. /\ ev.kind = "claude_response" => Responses(e2) = Responses(e) \union {Len(e) + 1}
      /\ ev.kind # "claude_response" => Responses(e2) = Responses(e)
  BY <1>1, <1>2 DEF Responses
<1>6. QED
  BY <1>1, <1>3, <1>4, <1>5 DEF e2

\* What a reader of the chain sees.
LEMMA HopToolsType ==
  ASSUME NEW e \in Seq(TraceEvent)
  PROVE  /\ Cardinality(Uses(e)) \in Nat /\ IsFiniteSet(Uses(e))
         /\ Uses(e) \subseteq 1..Len(e)
         /\ HopTools(e) \in Seq(Sources \union {NoSource})
         /\ Len(HopTools(e)) = Cardinality(Uses(e))
<1>1. Uses(e) \in SUBSET (1..Len(e))
  BY DEF Uses
<1>2. /\ IsFiniteSet(Uses(e)) /\ Cardinality(Uses(e)) \in Nat
      /\ Select(e, Uses(e)) \in Seq(TraceEvent)
      /\ Len(Select(e, Uses(e))) = Cardinality(Uses(e))
  BY <1>1, SelectType
<1>3. \A n \in 1..Cardinality(Uses(e)) : Select(e, Uses(e))[n].tool \in Sources \union {NoSource}
  <2>1. \A n \in 1..Cardinality(Uses(e)) : Select(e, Uses(e))[n] \in TraceEvent
    BY <1>2, ElementOfSeq
  <2>2. QED
    BY <2>1 DEF TraceEvent
<1>4. QED
  BY <1>1, <1>2, <1>3, IsASeq DEF HopTools

LEMMA HopToolsOfAppend ==
  ASSUME NEW e \in Seq(TraceEvent), NEW ev \in TraceEvent
  PROVE  HopTools(Append(e, ev)) =
           IF ev.kind = "tool_use" THEN Append(HopTools(e), ev.tool) ELSE HopTools(e)
<1> DEFINE e2 == Append(e, ev)
           hops == Select(e, Uses(e))
<1>1. /\ e2 \in Seq(TraceEvent) /\ Len(e) \in Nat /\ Len(e2) = Len(e) + 1
      /\ e2[Len(e) + 1] = ev /\ \A i \in 1..Len(e) : e2[i] = e[i]
      /\ ev.kind = "tool_use" => Uses(e2) = Uses(e) \union {Len(e) + 1}
      /\ ev.kind # "tool_use" => Uses(e2) = Uses(e)
  BY PlacesOfAppend
<1>2. Uses(e) \in SUBSET (1..Len(e)) /\ Len(e) <= Len(e2)
  BY <1>1 DEF Uses
<1>3. hops \in Seq(TraceEvent) /\ Len(hops) \in Nat
  BY <1>2, SelectType, LenProperties
<1> HIDE DEF e2
<1>4. CASE ev.kind # "tool_use"
  <2>1. Select(e2, Uses(e2)) = hops
    BY <1>1, <1>2, <1>4, SelectSame
  <2>2. QED
    BY <1>4, <2>1 DEF HopTools, e2
<1>5. CASE ev.kind = "tool_use"
  <2>1. Select(e2, Uses(e2)) = Append(hops, ev)
    <3>1. Len(e) + 1 \in (Len(e) + 1)..Len(e2)
      BY <1>1
    <3>2. QED
      BY <1>1, <1>2, <1>5, <3>1, SelectGrows
  <2> HIDE DEF hops
  <2> DEFINE old == [n \in 1..Len(hops) |-> hops[n].tool]
             new == [n \in 1..Len(Append(hops, ev)) |-> Append(hops, ev)[n].tool]
  <2>2. /\ Len(Append(hops, ev)) = Len(hops) + 1
        /\ Append(hops, ev)[Len(hops) + 1] = ev
        /\ \A n \in 1..Len(hops) : Append(hops, ev)[n] = hops[n]
    BY <1>3, AppendProperties
  <2>3. HopTools(e) = old /\ HopTools(e2) = new
    BY <2>1 DEF HopTools, hops
  <2>4. new = Append(old, ev.tool)
    <3> DEFINE R == Sources \union {NoSource}
    <3>0. \A n \in 1..Len(hops) : hops[n] \in TraceEvent
      BY <1>3, ElementOfSeq
    <3>1. \A n \in 1..Len(hops) : hops[n].tool \in R
      BY <3>0 DEF TraceEvent
    <3>2. old \in Seq(R) /\ Len(old) = Len(hops) /\ ev.tool \in R
      BY <1>3, <3>1, IsASeq DEF TraceEvent
    <3>3. /\ Append(old, ev.tool) \in Seq(R) /\ Len(Append(old, ev.tool)) = Len(hops) + 1
          /\ Append(old, ev.tool)[Len(hops) + 1] = ev.tool
          /\ \A n \in 1..Len(hops) : Append(old, ev.tool)[n] = hops[n].tool
      <4> HIDE DEF R
      <4>1. \A n \in 1..Len(hops) : old[n] = hops[n].tool
        OBVIOUS
      <4> HIDE DEF old
      <4>2. QED
        BY <3>2, <4>1, AppendProperties
    <3>4. \A n \in 1..(Len(hops) + 1) : Append(hops, ev)[n].tool \in R
      BY <1>3, <2>2, <3>1, <3>2
    <3>5. new \in Seq(R) /\ Len(new) = Len(hops) + 1
      BY <1>3, <2>2, <3>4, IsASeq
    <3>6. \A n \in 1..(Len(hops) + 1) : new[n] = Append(old, ev.tool)[n]
      <4> HIDE DEF R
      <4> TAKE n \in 1..(Len(hops) + 1)
      <4>1. new[n] = Append(hops, ev)[n].tool
        BY <2>2
      <4> HIDE DEF new, old
      <4>2. CASE n = Len(hops) + 1
        BY <2>2, <3>3, <4>1, <4>2
      <4>3. CASE n \in 1..Len(hops)
        BY <2>2, <3>3, <4>1, <4>3
      <4>4. Len(hops) \in Nat
        BY <1>3
      <4>5. n = Len(hops) + 1 \/ n \in 1..Len(hops)
        BY <4>4
      <4>6. QED
        BY <4>2, <4>3, <4>5
    <3> HIDE DEF new, old, R
    <3>7. QED
      BY <3>3, <3>5, <3>6, SeqEqual
  <2> HIDE DEF new, old
  <2>5. QED
    BY <1>5, <2>3, <2>4 DEF e2
<1>6. QED
  BY <1>4, <1>5

\* A retrieval joins the chain.
LEMMA AppendUse ==
  ASSUME NEW e \in Seq(TraceEvent), NEW ev \in TraceEvent, ev.kind = "tool_use"
  PROVE  LET e2 == Append(e, ev) IN
         /\ e2 \in Seq(TraceEvent) /\ Len(e2) = Len(e) + 1
         /\ e2[Len(e) + 1] = ev /\ \A i \in 1..Len(e) : e2[i] = e[i]
         /\ Uses(e2) = Uses(e) \union {Len(e) + 1} /\ Outcomes(e2) = Outcomes(e)
         /\ Responses(e2) = Responses(e) /\ HopTools(e2) = Append(HopTools(e), ev.tool)
BY PlacesOfAppend, HopToolsOfAppend

\* Its outcome does not.
LEMMA AppendOutcome ==
  ASSUME NEW e \in Seq(TraceEvent), NEW ev \in TraceEvent, ev.kind \in {"tool_result", "tool_error"}
  PROVE  LET e2 == Append(e, ev) IN
         /\ e2 \in Seq(TraceEvent) /\ Len(e2) = Len(e) + 1
         /\ e2[Len(e) + 1] = ev /\ \A i \in 1..Len(e) : e2[i] = e[i]
         /\ Uses(e2) = Uses(e) /\ Outcomes(e2) = Outcomes(e) \union {Len(e) + 1}
         /\ Responses(e2) = Responses(e) /\ HopTools(e2) = HopTools(e)
BY PlacesOfAppend, HopToolsOfAppend

\* Neither does a response of the model.
LEMMA AppendResponse ==
  ASSUME NEW e \in Seq(TraceEvent), NEW ev \in TraceEvent, ev.kind = "claude_response"
  PROVE  LET e2 == Append(e, ev) IN
         /\ e2 \in Seq(TraceEvent) /\ Len(e2) = Len(e) + 1
         /\ e2[Len(e) + 1] = ev /\ \A i \in 1..Len(e) : e2[i] = e[i]
         /\ Uses(e2) = Uses(e) /\ Outcomes(e2) = Outcomes(e)
         /\ Responses(e2) = Responses(e) \union {Len(e) + 1} /\ HopTools(e2) = HopTools(e)
BY PlacesOfAppend, HopToolsOfAppend

\* The frame of the trace is none of these.
LEMMA AppendOther ==
  ASSUME NEW e \in Seq(TraceEvent), NEW ev \in TraceEvent, ev.kind \in {"query_meta", "loop_start", "loop_end"}
  PROVE  LET e2 == Append(e, ev) IN
         /\ e2 \in Seq(TraceEvent) /\ Len(e2) = Len(e) + 1
         /\ e2[Len(e) + 1] = ev /\ \A i \in 1..Len(e) : e2[i] = e[i]
         /\ Uses(e2) = Uses(e) /\ Outcomes(e2) = Outcomes(e)
         /\ Responses(e2) = Responses(e) /\ HopTools(e2) = HopTools(e)
BY PlacesOfAppend, HopToolsOfAppend

-----------------------------------------------------------------------------
(* The writer's methods.                                                   *)

\* What every trace that its writer made satisfies, between any two methods: it
\* is well formed, and the counters count.
Sound(tw) ==
  /\ tw \in Trace
  /\ WellFormed(tw)
  /\ Cardinality(Uses(tw.events)) = tw.tool_calls
  /\ Cardinality(Responses(tw.events)) = tw.turn

LEMMA EventType ==
  ASSUME NEW kind \in TraceEventKinds, NEW turn \in Nat,
         NEW tool \in Sources \union {NoSource}, NEW id \in Nat
  PROVE  TEvent(kind, turn, tool, id) \in TraceEvent
BY DEF TEvent, TraceEvent

LEMMA TraceType ==
  ASSUME NEW tw \in Trace
  PROVE  /\ tw.events \in Seq(TraceEvent) /\ tw.turn \in Nat /\ tw.tool_calls \in Nat
         /\ tw.finished \in BOOLEAN /\ Len(tw.events) \in Nat
         /\ IsFiniteSet(Uses(tw.events)) /\ IsFiniteSet(Responses(tw.events))
<1>1. tw.events \in Seq(TraceEvent) /\ Len(tw.events) \in Nat
  BY LenProperties DEF Trace
<1>2. Responses(tw.events) \in SUBSET (1..Len(tw.events))
  BY DEF Responses
<1>3. QED
  BY <1>1, <1>2, HopToolsType, SelectType DEF Trace

\* start(): two events, no retrieval, no response.
LEMMA StartShape ==
  /\ Sound(Start(NewTrace))
  /\ Start(NewTrace).turn = 0 /\ Start(NewTrace).tool_calls = 0
  /\ ~Start(NewTrace).finished
  /\ Uses(Start(NewTrace).events) = {} /\ Outcomes(Start(NewTrace).events) = {}
  /\ Responses(Start(NewTrace).events) = {}
  /\ HopTools(Start(NewTrace).events) = <<>>
<1> DEFINE tw == Start(NewTrace)
           a == TEvent("query_meta", 0, NoSource, 0)
           b == TEvent("loop_start", 0, NoSource, 0)
<1>1. a \in TraceEvent /\ b \in TraceEvent
  BY EventType DEF TraceEventKinds
<1>2. a.kind = "query_meta" /\ b.kind = "loop_start"
  BY DEF TEvent
<1> HIDE DEF a, b
<1>3. tw = [events |-> <<a, b>>, turn |-> 0, tool_calls |-> 0, finished |-> FALSE]
  <2>1. <<>> \o <<a, b>> = <<a, b>>
    OBVIOUS
  <2>2. tw = [NewTrace EXCEPT !.events = @ \o <<a, b>>]
    BY DEF Start, a, b
  <2>3. QED
    BY <2>1, <2>2 DEF NewTrace
<1> HIDE DEF tw
<1>4. tw \in Trace /\ tw.events = <<a, b>>
  BY <1>1, <1>3 DEF Trace
<1>5. \A i \in 1..Len(tw.events) : tw.events[i].kind \in {"query_meta", "loop_start"}
  BY <1>2, <1>4
<1>6. Uses(tw.events) = {} /\ Outcomes(tw.events) = {} /\ Responses(tw.events) = {}
  BY <1>5 DEF Uses, Outcomes, Responses
<1>7. Paired(tw.events) /\ IdsCount(tw) /\ TurnsCount(tw) /\ EndsOnce(tw)
  BY <1>3, <1>5, <1>6 DEF Paired, IdsCount, TurnsCount, EndsOnce
<1>8. Cardinality(Uses(tw.events)) = 0 /\ Cardinality(Responses(tw.events)) = 0
  BY <1>6, FS_EmptySet
<1>9. HopTools(tw.events) = <<>>
  <2>1. HopTools(tw.events) \in Seq(Sources \union {NoSource}) /\ Len(HopTools(tw.events)) = 0
    BY <1>4, <1>8, HopToolsType DEF Trace
  <2>2. QED
    BY <2>1, EmptySeq
<1>10. QED
  BY <1>3, <1>4, <1>6, <1>7, <1>8, <1>9 DEF tw, Sound, WellFormed

\* record_hop and record_hop_error: a retrieval and its outcome, at the end.
Hopped(tw, tw2, s, t, outcome) ==
  LET l == Len(tw.events) IN
  /\ tw2 \in Trace
  /\ tw2.turn = tw.turn /\ tw2.tool_calls = tw.tool_calls + 1
  /\ tw2.finished = tw.finished
  /\ Len(tw2.events) = l + 2 /\ \A i \in 1..l : tw2.events[i] = tw.events[i]
  /\ tw2.events[l + 1] = TEvent("tool_use", t, s, tw.tool_calls + 1)
  /\ tw2.events[l + 2] = TEvent(outcome, t, s, tw.tool_calls + 1)
  /\ Uses(tw2.events) = Uses(tw.events) \union {l + 1}
  /\ Outcomes(tw2.events) = Outcomes(tw.events) \union {l + 2}
  /\ Responses(tw2.events) = Responses(tw.events)
  /\ HopTools(tw2.events) = Append(HopTools(tw.events), s)

LEMMA HopShape ==
  ASSUME NEW tw \in Trace, NEW s \in Sources, NEW t \in Nat,
         NEW outcome \in {"tool_result", "tool_error"}
  PROVE  Hopped(tw, Hop(tw, s, t, outcome), s, t, outcome)
<1> DEFINE tw2 == Hop(tw, s, t, outcome)
           e == tw.events
           a == TEvent("tool_use", t, s, tw.tool_calls + 1)
           b == TEvent(outcome, t, s, tw.tool_calls + 1)
           e1 == Append(e, a)
           e2 == Append(e1, b)
<1>1. e \in Seq(TraceEvent) /\ Len(e) \in Nat /\ tw.tool_calls \in Nat
  BY TraceType
<1>2. a \in TraceEvent /\ b \in TraceEvent
  BY <1>1, EventType DEF TraceEventKinds
<1>3. a.kind = "tool_use" /\ a.tool = s /\ b.kind = outcome
  BY DEF TEvent
<1>4. tw2 = [tw EXCEPT !.tool_calls = @ + 1, !.events = e \o <<a, b>>]
  BY DEF Hop
<1> HIDE DEF a, b
<1>5. e \o <<a, b>> = e2
  BY <1>1, <1>2
<1> HIDE DEF tw2, e
<1>6. /\ e1 \in Seq(TraceEvent) /\ Len(e1) = Len(e) + 1
      /\ e1[Len(e) + 1] = a /\ \A i \in 1..Len(e) : e1[i] = e[i]
      /\ Uses(e1) = Uses(e) \union {Len(e) + 1}
      /\ Outcomes(e1) = Outcomes(e) /\ Responses(e1) = Responses(e)
      /\ HopTools(e1) = Append(HopTools(e), s)
  BY <1>1, <1>2, <1>3, AppendUse
<1> HIDE DEF e1
<1>7. /\ e2 \in Seq(TraceEvent) /\ Len(e2) = Len(e1) + 1
      /\ e2[Len(e1) + 1] = b /\ \A i \in 1..Len(e1) : e2[i] = e1[i]
      /\ Uses(e2) = Uses(e1) /\ Outcomes(e2) = Outcomes(e1) \union {Len(e1) + 1}
      /\ Responses(e2) = Responses(e1) /\ HopTools(e2) = HopTools(e1)
  BY <1>2, <1>3, <1>6, AppendOutcome
<1> HIDE DEF e2
<1>8. /\ tw2 \in Trace /\ tw2.events = e2 /\ tw2.turn = tw.turn
      /\ tw2.tool_calls = tw.tool_calls + 1 /\ tw2.finished = tw.finished
  <2>1. /\ tw2.events = e2 /\ tw2.turn = tw.turn
        /\ tw2.tool_calls = tw.tool_calls + 1 /\ tw2.finished = tw.finished
    BY <1>4, <1>5 DEF Trace
  <2>2. tw.tool_calls + 1 \in Nat
    BY <1>1
  <2>3. tw2 \in Trace
    BY <1>4, <1>5, <1>7, <2>2 DEF Trace
  <2>4. QED
    BY <2>1, <2>3
<1>9. Len(e2) = Len(e) + 2 /\ e2[Len(e) + 2] = b /\ Len(e1) + 1 = Len(e) + 2
  BY <1>1, <1>6, <1>7
<1>10. e2[Len(e) + 1] = a /\ \A i \in 1..Len(e) : e2[i] = e[i]
  <2>1. Len(e) + 1 \in 1..Len(e1) /\ \A i \in 1..Len(e) : i \in 1..Len(e1)
    BY <1>1, <1>6
  <2>2. e2[Len(e) + 1] = e1[Len(e) + 1] /\ \A i \in 1..Len(e) : e2[i] = e1[i]
    BY <1>7, <2>1
  <2>3. e1[Len(e) + 1] = a /\ \A i \in 1..Len(e) : e1[i] = e[i]
    BY <1>6
  <2>4. QED
    BY <2>2, <2>3
<1>11. tw2.events[Len(e) + 1] = a /\ tw2.events[Len(e) + 2] = b
  BY <1>8, <1>9, <1>10
<1>12. Len(tw2.events) = Len(e) + 2 /\ \A i \in 1..Len(e) : tw2.events[i] = e[i]
  BY <1>8, <1>9, <1>10
<1>13. Uses(tw2.events) = Uses(e) \union {Len(e) + 1}
  BY <1>6, <1>7, <1>8
<1>14. Outcomes(tw2.events) = Outcomes(e) \union {Len(e) + 2}
  BY <1>6, <1>7, <1>8, <1>9
<1>15. Responses(tw2.events) = Responses(e) /\ HopTools(tw2.events) = Append(HopTools(e), s)
  BY <1>6, <1>7, <1>8
<1>16. Hopped(tw, tw2, s, t, outcome)
  BY <1>8, <1>11, <1>12, <1>13, <1>14, <1>15 DEF Hopped, e, a, b
<1>17. QED
  BY <1>16 DEF tw2

\* record_turn: a response, at the end, under the next number.
TurnTaken(tw, tw2, tokens) ==
  LET l == Len(tw.events) IN
  /\ tw2 \in Trace
  /\ tw2.turn = tw.turn + 1 /\ tw2.tool_calls = tw.tool_calls
  /\ tw2.finished = tw.finished
  /\ Len(tw2.events) = l + 1 /\ \A i \in 1..l : tw2.events[i] = tw.events[i]
  /\ tw2.events[l + 1].kind = "claude_response"
  /\ tw2.events[l + 1].turn = tw.turn + 1 /\ tw2.events[l + 1].tokens = tokens
  /\ Uses(tw2.events) = Uses(tw.events) /\ Outcomes(tw2.events) = Outcomes(tw.events)
  /\ Responses(tw2.events) = Responses(tw.events) \union {l + 1}
  /\ HopTools(tw2.events) = HopTools(tw.events)

LEMMA TurnShape ==
  ASSUME NEW tw \in Trace, NEW tokens \in Nat
  PROVE  TurnTaken(tw, RecordTurn(tw, tokens), tokens)
<1> DEFINE tw2 == RecordTurn(tw, tokens)
           e == tw.events
           a == [kind |-> "claude_response", turn |-> tw.turn + 1,
                 tool |-> NoSource, id |-> 0, tokens |-> tokens]
           e2 == Append(e, a)
<1>1. e \in Seq(TraceEvent) /\ tw.turn \in Nat
  BY TraceType
<1>2. a \in TraceEvent
  BY <1>1 DEF TraceEvent, TraceEventKinds
<1>3. a.kind = "claude_response" /\ a.turn = tw.turn + 1 /\ a.tokens = tokens
  OBVIOUS
<1>4. tw2 = [tw EXCEPT !.turn = @ + 1, !.events = e2]
  BY DEF RecordTurn
<1> HIDE DEF tw2, e, a
<1>5. /\ e2 \in Seq(TraceEvent) /\ Len(e2) = Len(e) + 1
      /\ e2[Len(e) + 1] = a /\ \A i \in 1..Len(e) : e2[i] = e[i]
      /\ Uses(e2) = Uses(e) /\ Outcomes(e2) = Outcomes(e)
      /\ Responses(e2) = Responses(e) \union {Len(e) + 1}
      /\ HopTools(e2) = HopTools(e)
  BY <1>1, <1>2, <1>3, AppendResponse
<1> HIDE DEF e2
<1>6. /\ tw2 \in Trace /\ tw2.events = e2 /\ tw2.turn = tw.turn + 1
      /\ tw2.tool_calls = tw.tool_calls /\ tw2.finished = tw.finished
  <2>1. /\ tw2.events = e2 /\ tw2.turn = tw.turn + 1
        /\ tw2.tool_calls = tw.tool_calls /\ tw2.finished = tw.finished
    BY <1>4 DEF Trace
  <2>2. tw.turn + 1 \in Nat
    BY <1>1
  <2>3. tw2 \in Trace
    BY <1>4, <1>5, <2>2 DEF Trace
  <2>4. QED
    BY <2>1, <2>3
<1>7. QED
  BY <1>3, <1>5, <1>6 DEF TurnTaken, tw2, e

\* finish(): the end, with the counters.
Ended(tw, tw2) ==
  LET l == Len(tw.events) IN
  /\ tw2 \in Trace
  /\ tw2.turn = tw.turn /\ tw2.tool_calls = tw.tool_calls /\ tw2.finished
  /\ Len(tw2.events) = l + 1 /\ \A i \in 1..l : tw2.events[i] = tw.events[i]
  /\ tw2.events[l + 1] = TEvent("loop_end", tw.turn, NoSource, tw.tool_calls)
  /\ Uses(tw2.events) = Uses(tw.events) /\ Outcomes(tw2.events) = Outcomes(tw.events)
  /\ Responses(tw2.events) = Responses(tw.events)
  /\ HopTools(tw2.events) = HopTools(tw.events)

LEMMA FinishShape ==
  ASSUME NEW tw \in Trace
  PROVE  Ended(tw, Finish(tw))
<1> DEFINE tw2 == Finish(tw)
           e == tw.events
           a == TEvent("loop_end", tw.turn, NoSource, tw.tool_calls)
           e2 == Append(e, a)
<1>1. e \in Seq(TraceEvent) /\ tw.turn \in Nat /\ tw.tool_calls \in Nat
  BY TraceType
<1>2. a \in TraceEvent
  BY <1>1, EventType DEF TraceEventKinds
<1>3. a.kind = "loop_end"
  BY DEF TEvent
<1>4. tw2 = [tw EXCEPT !.finished = TRUE, !.events = e2]
  BY DEF Finish
<1> HIDE DEF tw2, e, a
<1>5. /\ e2 \in Seq(TraceEvent) /\ Len(e2) = Len(e) + 1
      /\ e2[Len(e) + 1] = a /\ \A i \in 1..Len(e) : e2[i] = e[i]
      /\ Uses(e2) = Uses(e) /\ Outcomes(e2) = Outcomes(e)
      /\ Responses(e2) = Responses(e)
      /\ HopTools(e2) = HopTools(e)
  BY <1>1, <1>2, <1>3, AppendOther
<1> HIDE DEF e2
<1>6. /\ tw2 \in Trace /\ tw2.events = e2 /\ tw2.turn = tw.turn
      /\ tw2.tool_calls = tw.tool_calls /\ tw2.finished
  BY <1>1, <1>4, <1>5 DEF Trace
<1>7. QED
  BY <1>5, <1>6 DEF Ended, tw2, e, a

-----------------------------------------------------------------------------
(* A trace not yet finished stays sound, whatever method is called next.   *)

LEMMA HopKeepsSound ==
  ASSUME NEW tw, Sound(tw), ~tw.finished, NEW s \in Sources, NEW t \in Nat,
         NEW outcome \in {"tool_result", "tool_error"}
  PROVE  Sound(Hop(tw, s, t, outcome))
<1> DEFINE tw2 == Hop(tw, s, t, outcome)
           e == tw.events
           e2 == tw2.events
           n == tw.tool_calls
           l == Len(e)
<1>0. tw \in Trace
  BY DEF Sound
<1>1. /\ e \in Seq(TraceEvent) /\ l \in Nat /\ n \in Nat /\ tw.turn \in Nat
      /\ Uses(e) \in SUBSET (1..l) /\ IsFiniteSet(Uses(e))
  BY <1>0, TraceType DEF Uses
<1>2. /\ tw2 \in Trace
      /\ tw2.turn = tw.turn /\ tw2.tool_calls = n + 1 /\ tw2.finished = tw.finished
      /\ Len(e2) = l + 2 /\ \A i \in 1..l : e2[i] = e[i]
      /\ e2[l + 1] = TEvent("tool_use", t, s, n + 1)
      /\ e2[l + 2] = TEvent(outcome, t, s, n + 1)
      /\ Uses(e2) = Uses(e) \union {l + 1} /\ Outcomes(e2) = Outcomes(e) \union {l + 2}
      /\ Responses(e2) = Responses(e)
  <2>1. Hopped(tw, tw2, s, t, outcome)
    BY <1>0, HopShape
  <2>2. QED
    BY <2>1 DEF Hopped
<1>3. /\ e2[l + 1].kind = "tool_use" /\ e2[l + 2].kind = outcome
      /\ e2[l + 1].id = n + 1 /\ e2[l + 2].id = n + 1
      /\ e2[l + 1].tool = e2[l + 2].tool /\ e2[l + 1].turn = e2[l + 2].turn
  BY <1>2 DEF TEvent
<1>4. Paired(e) /\ IdsCount(tw) /\ TurnsCount(tw) /\ EndsOnce(tw)
  BY DEF Sound, WellFormed
<1> HIDE DEF tw2, e2, n, l
<1>5. Paired(e2)
  <2>1. ASSUME NEW i \in Uses(e2)
        PROVE  /\ i + 1 \in Outcomes(e2) /\ e2[i + 1].id = e2[i].id
               /\ e2[i + 1].tool = e2[i].tool /\ e2[i + 1].turn = e2[i].turn
    <3>1. CASE i = l + 1
      <4>1. i + 1 = l + 2
        BY <1>1, <3>1
      <4>2. QED
        BY <1>2, <1>3, <3>1, <4>1
    <3>2. CASE i \in Uses(e)
      <4>1. /\ i + 1 \in Outcomes(e) /\ e[i + 1].id = e[i].id
            /\ e[i + 1].tool = e[i].tool /\ e[i + 1].turn = e[i].turn
        BY <1>4, <3>2 DEF Paired
      <4>2. i \in 1..l /\ i + 1 \in 1..l
        BY <3>2, <4>1 DEF Uses, Outcomes, l
      <4>3. QED
        BY <1>2, <4>1, <4>2
    <3>3. QED
      BY <1>2, <3>1, <3>2
  <2>2. ASSUME NEW i \in Outcomes(e2)
        PROVE  i - 1 \in Uses(e2)
    <3>1. CASE i = l + 2
      BY <1>1, <1>2, <3>1
    <3>2. CASE i \in Outcomes(e)
      BY <1>2, <1>4, <3>2 DEF Paired
    <3>3. QED
      BY <1>2, <3>1, <3>2
  <2>3. QED
    BY <2>1, <2>2 DEF Paired
<1>6. IdsCount(tw2)
  <2>1. /\ \A i \in Uses(e) : e[i].id \in 1..n /\ e2[i] = e[i] /\ i \in 1..l
        /\ \A i, j \in Uses(e) : i < j => e[i].id < e[j].id
        /\ \A k \in 1..n : \E i \in Uses(e) : e[i].id = k
    BY <1>1, <1>2, <1>4 DEF IdsCount, n
  <2>2. ASSUME NEW i \in Uses(e2)
        PROVE  e2[i].id \in 1..(n + 1)
    BY <1>1, <1>2, <1>3, <2>1
  <2>3. ASSUME NEW i \in Uses(e2), NEW j \in Uses(e2), i < j
        PROVE  e2[i].id < e2[j].id
    <3>1. i \in Uses(e)
      BY <1>1, <1>2, <2>1, <2>3
    <3>2. CASE j = l + 1
      BY <1>1, <1>3, <2>1, <3>1, <3>2
    <3>3. CASE j \in Uses(e)
      BY <2>1, <2>3, <3>1, <3>3
    <3>4. QED
      BY <1>2, <3>2, <3>3
  <2>4. ASSUME NEW k \in 1..(n + 1)
        PROVE  \E i \in Uses(e2) : e2[i].id = k
    <3>1. CASE k = n + 1
      BY <1>2, <1>3, <3>1
    <3>2. CASE k \in 1..n
      BY <1>2, <2>1, <3>2
    <3>3. QED
      BY <1>1, <3>1, <3>2
  <2>5. QED
    BY <1>2, <2>2, <2>3, <2>4 DEF IdsCount, e2
<1>7. TurnsCount(tw2)
  <2>1. \A i \in Responses(e) : e2[i] = e[i]
    BY <1>2 DEF Responses, l
  <2>2. QED
    BY <1>2, <1>4, <2>1 DEF TurnsCount, e2
<1>8. EndsOnce(tw2)
  <2>1. \A i \in 1..l : e2[i].kind # "loop_end"
    BY <1>2, <1>4 DEF EndsOnce, l
  <2>2. \A i \in 1..(l + 2) : i \in 1..l \/ i = l + 1 \/ i = l + 2
    BY <1>1
  <2>3. \A i \in 1..Len(e2) : e2[i].kind # "loop_end"
    BY <1>2, <1>3, <2>1, <2>2
  <2>4. QED
    BY <1>2, <2>3 DEF EndsOnce, e2
<1>9. Cardinality(Uses(e2)) = n + 1 /\ Cardinality(Responses(e2)) = tw.turn
  <2>1. l + 1 \notin Uses(e)
    BY <1>1
  <2>2. Cardinality(Uses(e) \union {l + 1}) = Cardinality(Uses(e)) + 1
    BY <1>1, <2>1, FS_AddElement
  <2>3. QED
    BY <1>2, <2>2 DEF Sound, n
<1>10. QED
  BY <1>2, <1>5, <1>6, <1>7, <1>8, <1>9 DEF Sound, WellFormed, tw2, e2

LEMMA TurnKeepsSound ==
  ASSUME NEW tw, Sound(tw), ~tw.finished, NEW tokens \in Nat
  PROVE  Sound(RecordTurn(tw, tokens))
<1> DEFINE tw2 == RecordTurn(tw, tokens)
           e == tw.events
           e2 == tw2.events
           n == tw.turn
           l == Len(e)
<1>0. tw \in Trace
  BY DEF Sound
<1>1. /\ e \in Seq(TraceEvent) /\ l \in Nat /\ n \in Nat
      /\ Responses(e) \in SUBSET (1..l) /\ IsFiniteSet(Responses(e))
  BY <1>0, TraceType DEF Responses
<1>2. /\ tw2 \in Trace
      /\ tw2.turn = n + 1 /\ tw2.tool_calls = tw.tool_calls /\ tw2.finished = tw.finished
      /\ Len(e2) = l + 1 /\ \A i \in 1..l : e2[i] = e[i]
      /\ e2[l + 1].kind = "claude_response" /\ e2[l + 1].turn = n + 1
      /\ Uses(e2) = Uses(e) /\ Outcomes(e2) = Outcomes(e)
      /\ Responses(e2) = Responses(e) \union {l + 1}
  <2>1. TurnTaken(tw, tw2, tokens)
    BY <1>0, TurnShape
  <2>2. QED
    BY <2>1 DEF TurnTaken
<1>4. Paired(e) /\ IdsCount(tw) /\ TurnsCount(tw) /\ EndsOnce(tw)
  BY DEF Sound, WellFormed
<1> HIDE DEF tw2, e2, n, l
<1>5. Paired(e2)
  <2>1. \A i \in Uses(e) : i \in 1..l /\ i + 1 \in Outcomes(e)
    BY <1>4 DEF Paired, Uses, l
  <2>2. \A i \in Outcomes(e) : i \in 1..l
    BY DEF Outcomes, l
  <2>3. QED
    BY <1>2, <1>4, <2>1, <2>2 DEF Paired
<1>6. IdsCount(tw2)
  <2>1. \A i \in Uses(e) : e2[i] = e[i]
    BY <1>2 DEF Uses, l
  <2>2. QED
    BY <1>2, <1>4, <2>1 DEF IdsCount, e2
<1>7. TurnsCount(tw2)
  <2>1. /\ \A i \in Responses(e) : e[i].turn \in 1..n /\ e2[i] = e[i] /\ i \in 1..l
        /\ \A i, j \in Responses(e) : i < j => e[i].turn < e[j].turn
        /\ \A k \in 1..n : \E i \in Responses(e) : e[i].turn = k
    BY <1>1, <1>2, <1>4 DEF TurnsCount, n
  <2>2. ASSUME NEW i \in Responses(e2)
        PROVE  e2[i].turn \in 1..(n + 1)
    BY <1>1, <1>2, <2>1
  <2>3. ASSUME NEW i \in Responses(e2), NEW j \in Responses(e2), i < j
        PROVE  e2[i].turn < e2[j].turn
    <3>1. i \in Responses(e)
      BY <1>1, <1>2, <2>1, <2>3
    <3>2. CASE j = l + 1
      BY <1>1, <1>2, <2>1, <3>1, <3>2
    <3>3. CASE j \in Responses(e)
      BY <2>1, <2>3, <3>1, <3>3
    <3>4. QED
      BY <1>2, <3>2, <3>3
  <2>4. ASSUME NEW k \in 1..(n + 1)
        PROVE  \E i \in Responses(e2) : e2[i].turn = k
    <3>1. CASE k = n + 1
      BY <1>2, <3>1
    <3>2. CASE k \in 1..n
      BY <1>2, <2>1, <3>2
    <3>3. QED
      BY <1>1, <3>1, <3>2
  <2>5. QED
    BY <1>2, <2>2, <2>3, <2>4 DEF TurnsCount, e2
<1>8. EndsOnce(tw2)
  <2>1. \A i \in 1..l : e2[i].kind # "loop_end"
    BY <1>2, <1>4 DEF EndsOnce, l
  <2>2. \A i \in 1..(l + 1) : i \in 1..l \/ i = l + 1
    BY <1>1
  <2>3. \A i \in 1..Len(e2) : e2[i].kind # "loop_end"
    BY <1>2, <2>1, <2>2
  <2>4. QED
    BY <1>2, <2>3 DEF EndsOnce, e2
<1>9. Cardinality(Responses(e2)) = n + 1 /\ Cardinality(Uses(e2)) = tw.tool_calls
  <2>1. l + 1 \notin Responses(e)
    BY <1>1
  <2>2. Cardinality(Responses(e) \union {l + 1}) = Cardinality(Responses(e)) + 1
    BY <1>1, <2>1, FS_AddElement
  <2>3. QED
    BY <1>2, <2>2 DEF Sound, n
<1>10. QED
  BY <1>2, <1>5, <1>6, <1>7, <1>8, <1>9 DEF Sound, WellFormed, tw2, e2

LEMMA FinishKeepsSound ==
  ASSUME NEW tw, Sound(tw), ~tw.finished
  PROVE  Sound(Finish(tw))
<1> DEFINE tw2 == Finish(tw)
           e == tw.events
           e2 == tw2.events
           l == Len(e)
<1>0. tw \in Trace
  BY DEF Sound
<1>1. e \in Seq(TraceEvent) /\ l \in Nat
  BY <1>0, TraceType
<1>2. /\ tw2 \in Trace
      /\ tw2.turn = tw.turn /\ tw2.tool_calls = tw.tool_calls /\ tw2.finished
      /\ Len(e2) = l + 1 /\ \A i \in 1..l : e2[i] = e[i]
      /\ e2[l + 1] = TEvent("loop_end", tw.turn, NoSource, tw.tool_calls)
      /\ Uses(e2) = Uses(e) /\ Outcomes(e2) = Outcomes(e) /\ Responses(e2) = Responses(e)
  <2>1. Ended(tw, tw2)
    BY <1>0, FinishShape
  <2>2. QED
    BY <2>1 DEF Ended
<1>3. /\ e2[l + 1].kind = "loop_end" /\ e2[l + 1].turn = tw.turn
      /\ e2[l + 1].id = tw.tool_calls
  BY <1>2 DEF TEvent
<1>4. Paired(e) /\ IdsCount(tw) /\ TurnsCount(tw) /\ EndsOnce(tw)
  BY DEF Sound, WellFormed
<1> HIDE DEF tw2, e2, l
<1>5. Paired(e2)
  <2>1. \A i \in Uses(e) : i \in 1..l /\ i + 1 \in Outcomes(e)
    BY <1>4 DEF Paired, Uses, l
  <2>2. \A i \in Outcomes(e) : i \in 1..l
    BY DEF Outcomes, l
  <2>3. QED
    BY <1>2, <1>4, <2>1, <2>2 DEF Paired
<1>6. IdsCount(tw2)
  <2>1. \A i \in Uses(e) : e2[i] = e[i]
    BY <1>2 DEF Uses, l
  <2>2. QED
    BY <1>2, <1>4, <2>1 DEF IdsCount, e2
<1>7. TurnsCount(tw2)
  <2>1. \A i \in Responses(e) : e2[i] = e[i]
    BY <1>2 DEF Responses, l
  <2>2. QED
    BY <1>2, <1>4, <2>1 DEF TurnsCount, e2
<1>8. EndsOnce(tw2)
  <2>1. \A i \in 1..l : e2[i].kind # "loop_end"
    BY <1>2, <1>4 DEF EndsOnce, l
  <2>2. \A i \in 1..(l + 1) : i \in 1..l \/ i = l + 1
    BY <1>1
  <2>3. l + 1 \in 1..Len(e2)
    BY <1>1, <1>2
  <2>4. QED
    BY <1>2, <1>3, <2>1, <2>2, <2>3 DEF EndsOnce, e2
<1>9. QED
  BY <1>2, <1>5, <1>6, <1>7, <1>8 DEF Sound, WellFormed, tw2, e2

\* The common end of a driver: the last response, then the end.
Closed(tw, done) ==
  LET l == Len(tw.events) IN
  /\ Sound(done) /\ done.finished
  /\ done.turn = tw.turn + 1 /\ done.tool_calls = tw.tool_calls
  /\ Len(done.events) = l + 2 /\ \A i \in 1..l : done.events[i] = tw.events[i]
  /\ done.events[l + 2] = TEvent("loop_end", tw.turn + 1, NoSource, tw.tool_calls)
  /\ Uses(done.events) = Uses(tw.events) /\ Outcomes(done.events) = Outcomes(tw.events)
  /\ Responses(done.events) = Responses(tw.events) \union {l + 1}
  /\ HopTools(done.events) = HopTools(tw.events)

LEMMA ClosedShape ==
  ASSUME NEW tw, Sound(tw), ~tw.finished, NEW tokens \in Nat
  PROVE  Closed(tw, Finish(RecordTurn(tw, tokens)))
<1> DEFINE mid  == RecordTurn(tw, tokens)
           done == Finish(mid)
<1>1. tw \in Trace
  BY DEF Sound
<1>2. TurnTaken(tw, mid, tokens) /\ Sound(mid)
  BY <1>1, TurnShape, TurnKeepsSound
<1>3. mid \in Trace /\ ~mid.finished
  BY <1>2 DEF TurnTaken
<1> HIDE DEF mid
<1>4. Ended(mid, done) /\ Sound(done)
  BY <1>2, <1>3, FinishShape, FinishKeepsSound
<1> HIDE DEF done
<1>5. Len(tw.events) \in Nat
  BY <1>1, TraceType
<1>6. /\ Len(mid.events) = Len(tw.events) + 1
      /\ \A i \in 1..Len(tw.events) : mid.events[i] = tw.events[i]
      /\ Len(done.events) = Len(mid.events) + 1
      /\ \A i \in 1..Len(mid.events) : done.events[i] = mid.events[i]
      /\ done.events[Len(mid.events) + 1] =
           TEvent("loop_end", mid.turn, NoSource, mid.tool_calls)
  BY <1>2, <1>4 DEF TurnTaken, Ended
<1>7. Len(done.events) = Len(tw.events) + 2 /\ Len(mid.events) + 1 = Len(tw.events) + 2
  BY <1>5, <1>6
<1>8. \A i \in 1..Len(tw.events) : done.events[i] = tw.events[i]
  BY <1>5, <1>6
<1>9. /\ done.finished /\ done.turn = tw.turn + 1 /\ done.tool_calls = tw.tool_calls
      /\ mid.turn = tw.turn + 1 /\ mid.tool_calls = tw.tool_calls
      /\ Uses(done.events) = Uses(tw.events) /\ Outcomes(done.events) = Outcomes(tw.events)
      /\ Responses(done.events) = Responses(tw.events) \union {Len(tw.events) + 1}
      /\ HopTools(done.events) = HopTools(tw.events)
  BY <1>2, <1>4 DEF TurnTaken, Ended
<1>10. QED
  BY <1>4, <1>6, <1>7, <1>8, <1>9 DEF Closed, done, mid

=============================================================================
