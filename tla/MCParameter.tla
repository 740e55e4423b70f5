----------------------------- MODULE MCParameter -----------------------------
(* Small instances of Parameter for TLC.                                     *)
EXTENDS Parameter
CONSTANTS n1, n2, p1, p2

Zero == Scalar("Integer", 0)
One == Scalar("Integer", 2)
Half == Scalar("Double", 1)
Text == Scalar("String", NotANumber)

MixedWrites == {One, Half, Text, Invalid}
NumberWrites == {Zero, One, Half}
WideAndPositive == {AnyNumber, {1, 2}}
WideOnly == {AnyNumber}
=============================================================================
