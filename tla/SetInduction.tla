---------------------------- MODULE SetInduction ----------------------------
(***************************************************************************)
(* Induction over the natural numbers, stated of a set of them.  To prove  *)
(* P(n) for all n, take S == {n \in Nat : P(n)}.                           *)
(***************************************************************************)
EXTENDS Integers, WellFoundedInduction, TLAPS

NatOrder == {p \in Nat \X Nat : p[1] < p[2]}

LEMMA NatOrderIsWellFounded == IsWellFoundedOn(NatOrder, Nat)
BY NatLessThanWellFounded, Zenon DEF OpToRel, NatOrder

(* A number that is not in S and has none such below it would be neither 0 *)
(* nor the successor of one that is in S.                                  *)
LEMMA NatSetInduction ==
  ASSUME NEW S, 0 \in S, \A n \in Nat : n \in S => n + 1 \in S
  PROVE  Nat \subseteq S
<1> SUFFICES ASSUME Nat \ S # {} PROVE FALSE
  OBVIOUS
<1>1. PICK n \in Nat \ S : \A m \in Nat \ S : ~ (<< m, n >> \in NatOrder)
  BY WFMin, NatOrderIsWellFounded
<1>2. n # 0 /\ n - 1 \in Nat /\ n - 1 < n
  OBVIOUS
<1>3. << n - 1, n >> \in NatOrder
  BY <1>2 DEF NatOrder
<1>4. n - 1 \in S /\ (n - 1) + 1 = n
  BY <1>1, <1>2, <1>3
<1> QED BY <1>2, <1>4
=============================================================================
