------------------------- MODULE MCRemoteParameter -------------------------
(* Small instances of RemoteParameter for TLC: v1 and v2 are numbers, text *)
(* is a text that is no numeral.                                           *)
EXTENDS RemoteParameter
CONSTANTS v1, v2, text, t1, t2

Numbers == {v1, v2}

\* Numbers are not converted to texts nor texts to numbers.
NumbersAndTexts ==
  [p \in Readable \X Readable |->
     IF p[2] = Undefined \/ (p[1] \in Numbers <=> p[2] \in Numbers) THEN p[1] ELSE Undefined]

\* One target holds a number and the other a text.
NumberAndText == [t \in Targets |-> IF t = t1 THEN v1 ELSE text]
=============================================================================
