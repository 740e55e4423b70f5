---------------------------- MODULE FieldTypes ----------------------------
(***************************************************************************)
(* What the code generator makes of the fields of one message: the Qt type *)
(* of each, the conversions the value type's constructor and its           *)
(* conversion operator are assembled from, and the headers the generated   *)
(* files include.  Types are abstract: a shape around a base type.         *)
(***************************************************************************)
EXTENDS Naturals, Sequences, SequencesExt

CONSTANTS Package,     \* the ROS package the code is generated for
          Mapped,      \* NAMESPACED_TYPE_MAPPING: messages replaced by a Qt type
          Opaque,      \* _SINGLE_FIELD_TYPE_OVERRIDES
          Helpers,     \* messages with static factories in _COMPUTED_PROPERTIES
          ExtraIncludes \* the headers those properties add, as pairs <<message, included message>>

Shapes == {"plain", "array", "bounded", "unbounded"}

\* char, octet, int8 and uint8 are "byte", any other number is "basic".
Kinds == {"basic", "byte", "string", "wstring", "nested"}

\* A message is named by its package and name.
NoRef == <<"", "">>
IsType(t) ==
    /\ t = [shape |-> t.shape, kind |-> t.kind, ref |-> t.ref]
    /\ t.shape \in Shapes /\ t.kind \in Kinds /\ t.ref \in STRING \X STRING
    /\ t.kind = "nested" <=> t.ref # NoRef

\* A message has a name and a sequence of field types; no field at all also
\* stands for the dummy member rosidl gives an empty message.
IsEmpty(m) == m.fields = <<>>
NeedsWrapper(m) == Len(m.fields) >= 2
SingleField(m) == Len(m.fields) = 1

IsSequence(t) == t.shape # "plain"
IsMapped(t) == t.kind = "nested" /\ t.ref \in Mapped
IsText(t) == t.kind \in {"string", "wstring"}

-----------------------------------------------------------------------------
(* Types *)

\* The type of one element on the ROS side.  rosidl keeps a wstring in a
\* std::u16string.
RosType(t) == <<IF t.kind = "wstring" THEN "u16string" ELSE t.kind, t.ref>>

\* msg_type_to_cpp(): what the templates take the ROS type for.
MsgTypeToCpp(t) == IF IsText(t) THEN <<"string", NoRef>> ELSE <<t.kind, t.ref>>

\* msg_type_to_qt(): the type of one element on the Qt side.
QtType(t) == IF IsText(t) THEN <<"QString", NoRef>>
             ELSE IF t.kind = "nested" THEN <<IF IsMapped(t) THEN "native" ELSE "wrapper", t.ref>>
             ELSE RosType(t)

\* msg_type_to_qt_full(): what the elements are kept in.
Container(t) == IF t.shape = "plain" THEN "value"
                ELSE IF t.shape = "array" THEN "QList"
                ELSE IF t.kind = "byte" THEN "QByteArray"
                ELSE IF QtType(t) = <<"QString", NoRef>> THEN "QStringList"
                ELSE "QList"

-----------------------------------------------------------------------------
(* Conversions.  An element is its type and its value; an expression that   *)
(* does not compile for the element's type yields an element of no type.    *)

Broken == <<"none", NoRef>>

Convert(how, e) ==
    LET kind == e[1][1]  ref == e[1][2]
    IN <<CASE how = "copy" /\ kind \in {"basic", "byte"} -> e[1]
           [] how = "copy" /\ kind = "nested" /\ ref \notin Mapped -> <<"wrapper", ref>>
           [] how = "fromStdString" /\ kind = "string" -> <<"QString", NoRef>>
           [] how = "fromStdWString" /\ kind = "std::wstring" -> <<"QString", NoRef>>
           [] how = "from_ros" /\ kind = "nested" /\ ref \in Mapped -> <<"native", ref>>
           [] how = "toStdString" /\ kind = "QString" -> <<"string", NoRef>>
           [] how = "toStdWString" /\ kind = "QString" -> <<"std::wstring", NoRef>>
           [] how = "static_cast" /\ kind \in {"basic", "byte"} -> e[1]
           [] how \in {"static_cast", "to_ros"} /\ kind = (IF how = "to_ros" THEN "native" ELSE "wrapper") -> <<"nested", ref>>
           [] OTHER -> Broken,
         e[2]>>

ConvertAll(how, s) == [n \in DOMAIN s |-> Convert(how, s[n])]

Text(t, narrow, wide) == IF t.kind = "wstring" THEN wide ELSE narrow

\* The member initialiser of the constructor from the ROS message.
InitExpr(t, ros) ==
    IF IsSequence(t) /\ Container(t) = "QByteArray" THEN ros
    ELSE IF IsSequence(t) /\ (IsText(t) \/ t.kind = "nested") THEN <<>>
    ELSE IF IsText(t) THEN ConvertAll(Text(t, "fromStdString", "fromStdWString"), ros)
    ELSE ConvertAll(IF IsMapped(t) THEN "from_ros" ELSE "copy", ros)

\* A plausible slip: every nested element goes through its wrapper.
PostInitUnmapped(t, ros) ==
    IF IsSequence(t) /\ IsText(t) THEN ConvertAll(Text(t, "fromStdString", "fromStdWString"), ros)
    ELSE IF IsSequence(t) /\ t.kind = "nested" THEN ConvertAll("copy", ros) ELSE <<>>

\* The loops of the constructor's body, post_init_lines.
PostInit(t, ros) ==
    CASE IsSequence(t) /\ IsText(t) -> ConvertAll(Text(t, "fromStdString", "fromStdWString"), ros)
      [] IsSequence(t) /\ t.kind = "nested" -> ConvertAll(IF IsMapped(t) THEN "from_ros" ELSE "copy", ros)
      [] OTHER -> <<>>

FromRos(t, ros) == InitExpr(t, ros) \o PostInit(t, ros)

\* A vector with a bound throws when it is to hold more; the conversion has
\* no message then.
Thrown == <<<<Broken, 0>>>>

\* The conversion operator to the ROS message.  size is the length of an
\* array, which it keeps whatever list the property has, or the bound of a
\* bounded sequence.
ToRos(t, qt, size) ==
    LET default == <<MsgTypeToCpp(t), 0>>
        fitted == SubSeq(qt, 1, IF Len(qt) < size THEN Len(qt) ELSE size)
        back == IF IsText(t) THEN Text(t, "toStdString", "toStdWString")
                ELSE IF IsMapped(t) THEN "to_ros" ELSE "static_cast"
    IN IF t.shape = "array" THEN ConvertAll(back, fitted) \o [n \in 1..(size - Len(fitted)) |-> default]
       ELSE IF t.shape = "bounded" /\ Len(qt) > size THEN Thrown
       ELSE IF Container(t) = "QByteArray" THEN qt
       ELSE ConvertAll(back, qt)

\* Values of a field with n elements, on either side.
RosValue(t, n) == [k \in 1..n |-> <<RosType(t), k>>]
QtValue(t, n) == [k \in 1..n |-> <<QtType(t), k>>]

\* A message that passes through its value type comes out as it went in,
\* an array stays as long as the message says, whatever list was assigned,
\* and a list beyond the bound is refused.
Faithful(t) ==
    \A n \in IF t.shape = "plain" THEN {1} ELSE 0..2 :
        /\ FromRos(t, RosValue(t, n)) = QtValue(t, n)
        /\ ToRos(t, QtValue(t, n), n) = RosValue(t, n)
        /\ t.shape = "array" => \A k \in 0..3 : LET out == ToRos(t, QtValue(t, k), n) IN
               Len(out) = n /\ \A j \in 1..n : out[j] = <<RosType(t), IF j <= k THEN j ELSE 0>>
        /\ t.shape = "bounded" => ToRos(t, QtValue(t, n + 1), n) = Thrown

-----------------------------------------------------------------------------
(* Includes.  <package/dir/name.hpp> names the directory; "name.hpp" is     *)
(* looked for in every directory of the module, then in those of the        *)
(* modules it links.  The header is one of the roles of a message or file.  *)

Angled(ref, dir) == [form |-> "angled", ref |-> ref, dir |-> dir, role |-> "value"]
Quoted(ref, role) == [form |-> "quoted", ref |-> ref, dir |-> "any", role |-> role]
Nearest(ref) == IF ref[1] = Package THEN Quoted(ref, "value") ELSE Angled(ref, "msg")

Nested(m) == {t.ref : t \in {u \in ToSet(m.fields) : u.kind = "nested"}}
Own(m) == <<Package, m.name>>

\* build_value_type_descriptors(): nested_includes, and the headers its
\* computed properties need.
ValueIncludes(m) ==
    {Nearest(r) : r \in Nested(m) \ Mapped}
    \cup {Quoted(p[2], "value") : p \in {q \in ExtraIncludes : q[1] = Own(m)}}

\* build_single_field_info(): a message of one plain field is published as
\* that field, by the name of its header alone; any other through its own
\* value type.
PublishedAs(m) ==
    IF Own(m) \in Opaque THEN {}
    ELSE IF SingleField(m) /\ ~IsSequence(m.fields[1]) THEN {Quoted(r, "value") : r \in Nested(m)}
    ELSE {Quoted(Own(m), "value")}

\* What a client or server includes for a request, response, goal, result or
\* feedback: its wrapper or, get_single_field_include(), that of its field.
PayloadIncludes(m, kind) ==
    IF NeedsWrapper(m) THEN {IF kind = "srv" THEN Angled(Own(m), "srv") ELSE Quoted(Own(m), "value")}
    ELSE {IF kind = "srv" THEN Angled(r, "msg") ELSE Nearest(r) : r \in IF SingleField(m) THEN Nested(m) ELSE {}}
=============================================================================
