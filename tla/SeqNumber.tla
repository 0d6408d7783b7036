----------------------------- MODULE SeqNumber ------------------------------
(***************************************************************************)
(* TCP sequence numbers: unsigned integers of a fixed width that wrap, and *)
(* the comparisons of SeqNumber, which look at the sign of the wrapped     *)
(* difference.  SeqSpace is 2^32 in the code.                              *)
(***************************************************************************)
EXTENDS Integers, TLAPS

CONSTANT HalfSpace   \* 2^31: differences from here on are negative as i32

ASSUME HalfSpaceAssumption == HalfSpace \in Nat \ {0}

SeqSpace == 2 * HalfSpace

Seq32 == 0 .. SeqSpace - 1

(* wrapping_add and wrapping_sub of two sequence numbers. *)
SeqAdd(a, b) == IF a + b >= SeqSpace THEN a + b - SeqSpace ELSE a + b

SeqSub(a, b) == IF a >= b THEN a - b ELSE a - b + SeqSpace

(* lt, le, gt and ge: the sign of the difference cast to i32. *)
SeqLt(a, b) == SeqSub(a, b) >= HalfSpace

SeqLe(a, b) == SeqSub(a, b) = 0 \/ SeqSub(a, b) >= HalfSpace

SeqGt(a, b) == SeqSub(a, b) > 0 /\ SeqSub(a, b) < HalfSpace

SeqGe(a, b) == SeqSub(a, b) < HalfSpace

-----------------------------------------------------------------------------
(***************************************************************************)
(* What the comparisons of sequence numbers are worth: they agree with the *)
(* order of the positions in the stream as long as those are less than     *)
(* half of the space apart, wherever the numbers wrap, and only then.      *)
(***************************************************************************)

(* The arithmetic of SeqNumber stays within the width. *)
LEMMA SeqClosed ==
    ASSUME NEW a \in Seq32, NEW b \in Seq32
    PROVE  SeqAdd(a, b) \in Seq32 /\ SeqSub(a, b) \in Seq32
BY HalfSpaceAssumption DEF SeqAdd, SeqSub, Seq32, SeqSpace

(* Two positions i, j after the same number a: their wrapped difference    *)
(* only depends on i and j.                                                *)
LEMMA SeqDistance ==
    ASSUME NEW a \in Seq32, NEW i \in Seq32, NEW j \in Seq32
    PROVE  SeqSub(SeqAdd(a, i), SeqAdd(a, j)) = SeqSub(i, j)
BY HalfSpaceAssumption DEF SeqAdd, SeqSub, Seq32, SeqSpace

(* Add and Sub of SeqNumber undo one another: a length measured as a       *)
(* difference of numbers and added again gives the number back.            *)
THEOREM SeqInverse ==
    ASSUME NEW a \in Seq32, NEW b \in Seq32
    PROVE  /\ SeqAdd(b, SeqSub(a, b)) = a
           /\ SeqSub(SeqAdd(a, b), b) = a
BY HalfSpaceAssumption DEF SeqAdd, SeqSub, Seq32, SeqSpace

(* lt, le, gt and ge compare two numbers the way their positions compare,  *)
(* for any starting number, if the positions are less than half of the     *)
(* space apart: the receive window and the data in flight stay below that. *)
THEOREM WindowOrder ==
    ASSUME NEW a \in Seq32, NEW i \in Seq32, NEW j \in Seq32,
           i - j < HalfSpace, j - i < HalfSpace
    PROVE  /\ SeqLt(SeqAdd(a, i), SeqAdd(a, j)) <=> i < j
           /\ SeqLe(SeqAdd(a, i), SeqAdd(a, j)) <=> i <= j
           /\ SeqGt(SeqAdd(a, i), SeqAdd(a, j)) <=> i > j
           /\ SeqGe(SeqAdd(a, i), SeqAdd(a, j)) <=> i >= j
<1>1. SeqSub(SeqAdd(a, i), SeqAdd(a, j)) = SeqSub(i, j)
  BY SeqDistance
<1>2. /\ SeqSub(i, j) >= HalfSpace <=> i < j
      /\ SeqSub(i, j) = 0 <=> i = j
  BY HalfSpaceAssumption DEF SeqSub, Seq32, SeqSpace
<1>3. SeqSub(i, j) \in Int
  BY HalfSpaceAssumption DEF SeqSub, Seq32, SeqSpace
<1>4. SeqSub(i, j) >= 0
  BY HalfSpaceAssumption DEF SeqSub, Seq32, SeqSpace
<1>5. i \in Int /\ j \in Int /\ HalfSpace \in Int
  BY HalfSpaceAssumption DEF Seq32
<1> QED
  BY <1>1, <1>2, <1>3, <1>4, <1>5 DEF SeqLt, SeqLe, SeqGt, SeqGe

(* Exactly half of the space apart each of two numbers is "less" than the  *)
(* other one (the test comparison in sequence_number.rs has 0 < 2^31), so  *)
(* the bound of WindowOrder cannot be relaxed.                             *)
THEOREM HalfIsAmbiguous ==
    ASSUME NEW a \in Seq32
    PROVE  /\ SeqLt(a, SeqAdd(a, HalfSpace))
           /\ SeqLt(SeqAdd(a, HalfSpace), a)
BY HalfSpaceAssumption DEF SeqLt, SeqAdd, SeqSub, Seq32, SeqSpace
=============================================================================
