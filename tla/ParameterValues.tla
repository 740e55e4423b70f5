--------------------------- MODULE ParameterValues ---------------------------
(***************************************************************************)
(* core/qros2parametervalue_p.h: which ROS parameter type a QVariant       *)
(* suggests, and what a QVariant becomes when it is coerced to a type.     *)
(*                                                                         *)
(* A variant is [kind, num, items].  num is the number the variant reads   *)
(* as, counted in halves (3 is 1.5), or NotANumber; items are the elements *)
(* of a list.  A typed ParameterValue is written as the variant toVariant  *)
(* makes of it, and NOT_SET as Invalid.                                    *)
(***************************************************************************)
EXTENDS Naturals, Sequences

CONSTANT NotANumber     \* what a text that is no numeral reads as

Scalar(kind, num) == [kind |-> kind, num |-> num, items |-> <<>>]
ListOf(items) == [kind |-> "List", num |-> NotANumber, items |-> items]
Invalid == Scalar("Invalid", NotANumber)

Elements(v) == {v.items[i] : i \in DOMAIN v.items}

ElementType ==
  [BoolList |-> "Bool", IntegerList |-> "Integer", DoubleList |-> "Double",
   StringList |-> "String"]
ListTypes == DOMAIN ElementType
ScalarTypes == {"Bool", "Integer", "Double", "String", "ByteArray"}
Types == ScalarTypes \union ListTypes

\* The variants a list may hold, all variants, and those a parameter holds.
Scalars == [kind : ScalarTypes \union {"Invalid"}, num : Nat \union {NotANumber}, items : {<<>>}]
Variants == [kind : ScalarTypes \union {"List", "Invalid"}, num : Nat \union {NotANumber},
             items : Seq(Scalars)]
StoredVariants == {v \in Variants : v.kind # "Invalid"}

\* inferType(): "NotSet" for an empty, nested or mixed list.
InferType(v) ==
  CASE v.kind \in ScalarTypes -> v.kind
    [] v.kind = "List" /\ v.items # <<>> ->
         LET kinds == {e.kind : e \in Elements(v)} IN
           CASE kinds = {"Bool"} -> "BoolList"
             [] kinds = {"String"} -> "StringList"
             [] kinds = {"Integer"} -> "IntegerList"
             [] "Double" \in kinds /\ kinds \subseteq {"Integer", "Double"} -> "DoubleList"
             [] OTHER -> "NotSet"
    [] OTHER -> "NotSet"

Integral(num) == num % 2 = 0

\* QVariant::toLongLong: a real number is rounded, a text must be an integer.
LongLong(v) ==
  IF v.num = NotANumber \/ (v.kind \in {"String", "ByteArray"} /\ ~Integral(v.num)) THEN NotANumber
  ELSE 2 * ((v.num + 1) \div 2)

Number(kind, num) == IF num = NotANumber THEN Invalid ELSE Scalar(kind, num)

\* toParameterValue() for the scalar types.
ConvertedScalar(v, type) ==
  CASE type = "Integer" -> IF v.kind = "Double" /\ ~Integral(v.num)
                             THEN Invalid
                             ELSE Number("Integer", LongLong(v))
    [] type = "Double" -> Number("Double", v.num)
    [] OTHER -> IF v.kind = type THEN v ELSE Invalid

\* The elements of an integer list are rounded without that check.
ConvertedElement(v, elementType) ==
  IF elementType = "Integer"
    THEN Number("Integer", LongLong(v))
    ELSE ConvertedScalar(v, elementType)

\* toParameterValue() followed by toVariant().  QVariant::toList() of anything
\* but a list is an empty list.
ToParameterValue(v, type) ==
  IF type \in ScalarTypes
    THEN ConvertedScalar(v, type)
    ELSE LET elements == [i \in DOMAIN v.items |->
                            ConvertedElement(v.items[i], ElementType[type])] IN
           IF \E i \in DOMAIN elements : elements[i] = Invalid
             THEN Invalid
             ELSE ListOf(elements)

Numeric == {"Bool", "Integer", "Double"}

\* operator== of QVariant: numbers compare by value, whatever their type.
SameScalar(v, w) ==
  IF v.kind \in Numeric /\ w.kind \in Numeric THEN v.num = w.num ELSE v = w

Same(v, w) ==
  IF v.kind = "List" /\ w.kind = "List"
    THEN /\ Len(v.items) = Len(w.items)
         /\ \A i \in DOMAIN v.items : SameScalar(v.items[i], w.items[i])
    ELSE SameScalar(v, w)
=============================================================================
