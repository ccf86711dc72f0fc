------------------------------- MODULE Digits --------------------------------
(***************************************************************************)
(* What the remapping of an index is for: a swap of its two lowest digits. *)
(***************************************************************************)
EXTENDS Integers

\* The digits of i of weight 1 and d
Low(i, d) == i % d
High(i, d) == (i \div d) % d

\* i with its two lowest digits in base d swapped
DigitsSwapped(i, d) ==
  i - Low(i, d) - High(i, d) * d + High(i, d) + Low(i, d) * d
=============================================================================
