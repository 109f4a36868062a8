----------------------------- MODULE LeastNumber -----------------------------
(* Loops and queues of the code take the first of a numbered set; the models *)
(* choose its least element, and this is why there is one.                   *)
EXTENDS Naturals, FiniteSetTheorems, WellFoundedInduction, TLAPS

\* Any set of natural numbers that has an element has a least one: the sets
\* 0 .. x are finite, and strict inclusion is well-founded on those.
LEMMA LeastNumberExists ==
  ASSUME NEW T \in SUBSET Nat, T # {}
  PROVE  \E x \in T : \A y \in T : x <= y
<1> DEFINE R == StrictSubsetOrdering(Nat)
           P == {0 .. x : x \in T}
<1>1. IsWellFoundedOn(R, FiniteSubsetsOf(Nat))
  BY FS_StrictSubsetOrderingWellFounded
<1>2. P \subseteq FiniteSubsetsOf(Nat) /\ P # {}
  <2>1. ASSUME NEW x \in T PROVE 0 .. x \in FiniteSubsetsOf(Nat)
    <3>1. 0 \in Int /\ x \in Int OBVIOUS
    <3>2. IsFiniteSet(0 .. x) BY <3>1, FS_Interval
    <3>3. 0 .. x \in SUBSET Nat OBVIOUS
    <3>4. QED BY <3>2, <3>3 DEF FiniteSubsetsOf
  <2>2. QED BY <2>1
<1>3. \E p \in P : \A q \in P : ~(<<q, p>> \in R)
  <2> HIDE DEF R, P
  <2> QED BY <1>1, <1>2, WFMin
<1>4. PICK x \in T : \A y \in T : ~(<<0 .. y, 0 .. x>> \in R) BY <1>3
<1>5. ASSUME NEW y \in T, y < x PROVE FALSE
  <2>1. 0 .. y \subseteq 0 .. x /\ x \in 0 .. x /\ x \notin 0 .. y BY <1>5
  <2>2. 0 .. y # 0 .. x BY <2>1
  <2>3. 0 .. y \in SUBSET Nat /\ 0 .. x \in SUBSET Nat OBVIOUS
  <2>4. <<0 .. y, 0 .. x>> \in R BY <2>1, <2>2, <2>3 DEF StrictSubsetOrdering
  <2>5. QED BY <2>4, <1>4
<1>6. \A y \in T : x <= y BY <1>5
<1>7. QED BY <1>6

=============================================================================
