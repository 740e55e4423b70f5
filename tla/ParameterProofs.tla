-------------------------- MODULE ParameterProofs --------------------------
(***************************************************************************)
(* Proofs about Parameter, for every set of nodes, names, ranges and       *)
(* written values, and any number of writes, changes and external sets.    *)
(***************************************************************************)
EXTENDS Parameter, TLAPS

-----------------------------------------------------------------------------
(* Values.                                                                 *)

\* An integer read from a variant is a number again, or none.
LEMMA LongLongType ==
  ASSUME NEW v, v.num \in Nat \union {NotANumber}
  PROVE  LongLong(v) \in Nat \union {NotANumber}
<1>1. ASSUME NEW k \in Nat PROVE 2 * ((k + 1) \div 2) \in Nat
  OBVIOUS
<1>2. CASE v.num = NotANumber
  BY <1>2 DEF LongLong
<1>3. CASE v.num # NotANumber
  <2>1. v.num \in Nat
    BY <1>3
  <2> QED BY <1>1, <1>3, <2>1 DEF LongLong
<1> QED BY <1>2, <1>3

\* A number as a variant: typed, and of the wanted kind unless there is none.
LEMMA NumberType ==
  ASSUME NEW kind \in ScalarTypes, NEW num \in Nat \union {NotANumber}
  PROVE  /\ Number(kind, num) \in Scalars
         /\ Number(kind, num) = Invalid \/ Number(kind, num).kind # "Invalid"
BY DEF Number, Scalar, Invalid, Scalars, ScalarTypes

LEMMA ScalarsAreVariants == Scalars \subseteq Variants
<1>1. <<>> \in Seq(Scalars)
  OBVIOUS
<1> QED BY <1>1 DEF Scalars, Variants

\* toParameterValue() for a scalar type gives a stored value or NOT_SET.
LEMMA ScalarConversion ==
  ASSUME NEW S \in {Scalars, Variants}, NEW v \in S, NEW type \in ScalarTypes
  PROVE  /\ ConvertedScalar(v, type) \in S
         /\ ConvertedScalar(v, type) = Invalid \/ ConvertedScalar(v, type).kind # "Invalid"
<1>1. v.num \in Nat \union {NotANumber}
  <2>1. CASE S = Scalars
    BY <2>1 DEF Scalars
  <2>2. CASE S = Variants
    BY <2>2 DEF Variants
  <2> QED BY <2>1, <2>2
<1>2. LongLong(v) \in Nat \union {NotANumber}
  BY <1>1, LongLongType
<1>3. "Integer" \in ScalarTypes /\ "Double" \in ScalarTypes /\ "Invalid" \notin ScalarTypes
  BY DEF ScalarTypes
<1>4. Invalid \in Scalars
  BY DEF Invalid, Scalar, Scalars
<1>5. Scalars \subseteq S
  BY ScalarsAreVariants
<1>6. CASE type = "Integer"
  BY <1>2, <1>3, <1>4, <1>5, <1>6, NumberType DEF ConvertedScalar
<1>7. CASE type = "Double"
  BY <1>1, <1>3, <1>4, <1>5, <1>7, NumberType DEF ConvertedScalar
<1>8. CASE type # "Integer" /\ type # "Double"
  <2>1. ConvertedScalar(v, type) = IF v.kind = type THEN v ELSE Invalid
    BY <1>8 DEF ConvertedScalar
  <2> QED BY <2>1, <1>3, <1>4, <1>5
<1> QED BY <1>6, <1>7, <1>8

\* An element keeps within the values an array may hold.
LEMMA ElementConversion ==
  ASSUME NEW v \in Scalars, NEW type \in ScalarTypes
  PROVE  ConvertedElement(v, type) \in Scalars
<1>1. CASE type = "Integer"
  <2>1. LongLong(v) \in Nat \union {NotANumber}
    BY LongLongType DEF Scalars
  <2> QED BY <1>1, <2>1, NumberType DEF ConvertedElement
<1>2. CASE type # "Integer"
  BY <1>2, ScalarConversion DEF ConvertedElement
<1> QED BY <1>1, <1>2

\* toParameterValue() gives a value a parameter can hold, or NOT_SET.
LEMMA ConversionType ==
  ASSUME NEW v \in Variants, NEW type \in Types
  PROVE  ToParameterValue(v, type) \in StoredVariants \/ ToParameterValue(v, type) = Invalid
<1>1. CASE type \in ScalarTypes
  BY <1>1, ScalarConversion DEF ToParameterValue, StoredVariants
<1>2. CASE type \notin ScalarTypes
  <2>1. ElementType[type] \in ScalarTypes
    BY <1>2 DEF Types, ListTypes, ElementType, ScalarTypes
  <2> DEFINE elements == [i \in DOMAIN v.items |-> ConvertedElement(v.items[i], ElementType[type])]
  <2>2. v.items \in Seq(Scalars)
    BY DEF Variants
  <2>3. elements \in Seq(Scalars)
    <3>1. Len(v.items) \in Nat /\ DOMAIN v.items = 1..Len(v.items)
      BY <2>2
    <3>2. \A i \in 1..Len(v.items) : ConvertedElement(v.items[i], ElementType[type]) \in Scalars
      BY <2>1, <2>2, ElementConversion
    <3>3. elements \in [1..Len(v.items) -> Scalars]
      BY <3>1, <3>2
    <3> QED BY <3>1, <3>3
  <2> HIDE DEF elements
  <2>4. ListOf(elements) \in StoredVariants
    BY <2>3 DEF ListOf, StoredVariants, Variants
  <2>5. ToParameterValue(v, type) \in {Invalid, ListOf(elements)}
    BY <1>2 DEF ToParameterValue, elements
  <2> QED BY <2>4, <2>5
<1> QED BY <1>1, <1>2

\* A value of a type: of its kind, or a list of values of its elements' kind.
IsOf(v, type) ==
    IF type \in ScalarTypes THEN v.kind = type
    ELSE v.kind = "List" /\ \A i \in DOMAIN v.items : v.items[i].kind = ElementType[type]

LEMMA NumberSettles ==
  ASSUME NEW num \in Nat \union {NotANumber}, NEW kind \in {"Integer", "Double"},
         kind = "Integer" => num = NotANumber \/ \E k \in Nat : num = 2 * k,
         NEW w, w = Number(kind, num), w # Invalid
  PROVE  w.kind = kind /\ w.num = num /\ num # NotANumber /\ ConvertedScalar(w, kind) = w /\ ConvertedElement(w, kind) = w
<1>1. num # NotANumber /\ w = Scalar(kind, num)
  BY DEF Number
<1>2. w.kind = kind /\ w.num = num /\ num \in Nat
  BY <1>1 DEF Scalar
<1>3. CASE kind = "Double"
  BY <1>1, <1>2, <1>3 DEF ConvertedScalar, ConvertedElement, Number
<1>4. CASE kind = "Integer"
  <2>1. PICK k \in Nat : num = 2 * k
    BY <1>1, <1>4
  <2>2. (num + 1) \div 2 = k
    BY <2>1
  <2>3. Integral(num)
    BY <2>1 DEF Integral
  <2>4. LongLong(w) = num
    <3>1. 2 * ((num + 1) \div 2) = num
      BY <2>1, <2>2
    <3>2. LongLong(w) = 2 * ((w.num + 1) \div 2)
      BY <1>1, <1>2, <1>4 DEF LongLong
    <3> QED BY <1>2, <3>1, <3>2
  <2>5. Number("Integer", LongLong(w)) = w
    BY <1>1, <1>4, <2>4 DEF Number
  <2> QED BY <1>1, <1>2, <1>4, <2>5 DEF ConvertedScalar, ConvertedElement
<1> QED BY <1>2, <1>1, <1>3, <1>4

\* An integer is a whole number of halves.
LEMMA LongLongIntegral ==
  ASSUME NEW v, v.num \in Nat \union {NotANumber}
  PROVE  LongLong(v) = NotANumber \/ \E k \in Nat : LongLong(v) = 2 * k
<1>1. CASE v.num = NotANumber
  BY <1>1 DEF LongLong
<1>2. CASE v.num # NotANumber
  <2>1. (v.num + 1) \div 2 \in Nat
    <3>1. PICK n \in Nat : n = v.num
      BY <1>2
    <3>2. (n + 1) \div 2 \in Nat
      OBVIOUS
    <3> QED BY <3>1, <3>2
  <2> QED BY <1>2, <2>1 DEF LongLong
<1> QED BY <1>1, <1>2

LEMMA ScalarSettles ==
  ASSUME NEW v, v.num \in Nat \union {NotANumber}, NEW type \in ScalarTypes
  PROVE  /\ ConvertedScalar(v, type) # Invalid =>
                ConvertedScalar(v, type).kind = type /\ ConvertedScalar(ConvertedScalar(v, type), type) = ConvertedScalar(v, type)
         /\ ConvertedElement(v, type) # Invalid =>
                ConvertedElement(v, type).kind = type /\ ConvertedElement(ConvertedElement(v, type), type) = ConvertedElement(v, type)
<1>1. CASE type = "Integer"
  <2>1. LongLong(v) \in Nat \union {NotANumber} /\ (LongLong(v) = NotANumber \/ \E k \in Nat : LongLong(v) = 2 * k)
    BY LongLongType, LongLongIntegral
  <2>2. ConvertedScalar(v, type) \in {Invalid, Number("Integer", LongLong(v))} /\ ConvertedElement(v, type) = Number("Integer", LongLong(v))
    BY <1>1 DEF ConvertedScalar, ConvertedElement
  <2>3. PICK w : w = Number("Integer", LongLong(v))
    OBVIOUS
  <2>4. w # Invalid => w.kind = "Integer" /\ ConvertedScalar(w, "Integer") = w /\ ConvertedElement(w, "Integer") = w
    <3>1. PICK num \in Nat \union {NotANumber} : num = LongLong(v)
      BY <2>1
    <3>2. (num = NotANumber \/ \E k \in Nat : num = 2 * k) /\ w = Number("Integer", num)
      BY <2>1, <2>3, <3>1
    <3> QED BY <3>2, NumberSettles
  <2> QED BY <1>1, <2>2, <2>3, <2>4
<1>2. CASE type = "Double"
  <2>1. ConvertedScalar(v, type) = Number("Double", v.num) /\ ConvertedElement(v, type) = Number("Double", v.num)
    BY <1>2 DEF ConvertedScalar, ConvertedElement
  <2>2. PICK w : w = Number("Double", v.num)
    OBVIOUS
  <2>3. w # Invalid => w.kind = "Double" /\ ConvertedScalar(w, "Double") = w /\ ConvertedElement(w, "Double") = w
    BY <2>2, NumberSettles
  <2> QED BY <1>2, <2>1, <2>2, <2>3
<1>3. CASE type # "Integer" /\ type # "Double"
  <2>1. \A w : ConvertedElement(w, type) = ConvertedScalar(w, type) /\ ConvertedScalar(w, type) = IF w.kind = type THEN w ELSE Invalid
    BY <1>3 DEF ConvertedScalar, ConvertedElement
  <2> QED BY <2>1
<1> QED BY <1>1, <1>2, <1>3

\* What toParameterValue() makes of any variant is of the type it was asked
\* for, and to convert it once more, as a redeclaration of a stored value
\* does, changes nothing, for each of the nine types.
THEOREM ConversionSettles ==
  ASSUME NEW v \in Variants, NEW type \in Types, ToParameterValue(v, type) # Invalid
  PROVE  /\ IsOf(ToParameterValue(v, type), type)
         /\ ToParameterValue(ToParameterValue(v, type), type) = ToParameterValue(v, type)
<1>1. CASE type \in ScalarTypes
  <2>1. \A w : ToParameterValue(w, type) = ConvertedScalar(w, type)
    BY <1>1 DEF ToParameterValue
  <2>2. v.num \in Nat \union {NotANumber}
    BY DEF Variants
  <2> QED BY <1>1, <2>1, <2>2, ScalarSettles DEF IsOf
<1>2. CASE type \notin ScalarTypes
  <2>1. PICK kind \in ScalarTypes : kind = ElementType[type]
    BY <1>2 DEF Types, ListTypes, ElementType, ScalarTypes
  <2> DEFINE Converted(w) == [i \in DOMAIN w.items |-> ConvertedElement(w.items[i], kind)]
  <2>2. \A w : ToParameterValue(w, type) =
                   IF \E i \in DOMAIN w.items : Converted(w)[i] = Invalid THEN Invalid ELSE ListOf(Converted(w))
    BY <1>2, <2>1 DEF ToParameterValue
  <2>3. PICK list : list = ListOf(Converted(v))
    OBVIOUS
  <2>4. list.items = Converted(v) /\ list.kind = "List" /\ DOMAIN list.items = DOMAIN v.items
    BY <2>3 DEF ListOf
  <2>5. \A i \in DOMAIN v.items : list.items[i] = ConvertedElement(v.items[i], kind) /\ list.items[i] # Invalid
    BY <2>2, <2>4
  <2>6. ToParameterValue(v, type) = list
    BY <2>2, <2>3
  <2>7. \A i \in DOMAIN v.items : v.items[i].num \in Nat \union {NotANumber}
    <3>1. v.items \in Seq(Scalars)
      BY DEF Variants
    <3>2. \A i \in DOMAIN v.items : v.items[i] \in Scalars
      BY <3>1
    <3> QED BY <3>2 DEF Scalars
  <2>8. ASSUME NEW i \in DOMAIN v.items PROVE list.items[i].kind = kind /\ ConvertedElement(list.items[i], kind) = list.items[i]
    BY <2>1, <2>5, <2>7, ScalarSettles
  <2>9. Converted(list) = list.items
    BY <2>4, <2>8
  <2>10. ToParameterValue(list, type) = list
    BY <2>2, <2>3, <2>4, <2>5, <2>9
  <2>11. IsOf(list, type)
    BY <1>2, <2>1, <2>4, <2>8 DEF IsOf
  <2> QED BY <2>6, <2>10, <2>11
<1> QED BY <1>1, <1>2

\* Every type has a value of its own.
LEMMA ZeroType ==
  ASSUME NEW type \in Types
  PROVE  ZeroVariant(type) \in StoredVariants
<1>1. <<>> \in Seq(Scalars)
  OBVIOUS
<1> QED BY <1>1 DEF ZeroVariant, StoredVariants, Variants, Scalar, ListOf, Types, ListTypes, ElementType,
                    ScalarTypes, Numeric

\* operator== of QVariant is reflexive and symmetric.
LEMMA SameReflexive == \A v : Same(v, v)
BY DEF Same, SameScalar

LEMMA SameSymmetric ==
  ASSUME NEW v \in Variants, NEW w \in Variants, Same(v, w)
  PROVE  Same(w, v)
<1>1. CASE v.kind = "List" /\ w.kind = "List"
  <2>1. v.items \in Seq(Scalars) /\ w.items \in Seq(Scalars)
    BY DEF Variants
  <2>2. Len(v.items) = Len(w.items) /\ DOMAIN v.items = DOMAIN w.items
    BY <1>1, <2>1 DEF Same
  <2>3. \A i \in DOMAIN w.items : SameScalar(w.items[i], v.items[i])
    BY <1>1, <2>2 DEF Same, SameScalar
  <2> QED BY <1>1, <2>2, <2>3 DEF Same
<1>2. CASE ~(v.kind = "List" /\ w.kind = "List")
  BY <1>2 DEF Same, SameScalar
<1> QED BY <1>1, <1>2

-----------------------------------------------------------------------------
(* Declaring and undeclaring.                                              *)

Items ==
  [name : Names \union {None}, type : Choices, value : Variants,
   readOnly : BOOLEAN, range : Ranges, node : Nodes \union {None},
   declaring : BOOLEAN, declared : BOOLEAN, resolvedType : Types \union {"NotSet"},
   boundTo : Places \union {None}, moved : BOOLEAN]
Stores == [Places -> Cells \union {None}]
State == [item : Items, store : Stores, nodeUp : SUBSET Nodes]

\* A declared item has a name, a type and a callback, one that is being
\* declared has the first two; any other has neither callback nor a node it
\* left behind.
Tied(it) ==
  /\ it.declared => it.name # None /\ it.boundTo \in Places /\ it.resolvedType \in Types
  /\ ~it.declared => it.boundTo = None /\ ~it.moved
  /\ it.declaring => ~it.declared /\ it.name # None /\ it.resolvedType \in Types

\* The node of the item has its parameter.
Present(it) == it.declaring \/ (it.declared /\ ~it.moved)

\* DescriptorInForce as a function of the state, together with what keeps it
\* true: the item is bound to the place it names on a node that runs.
Served(it, st, up) ==
  Present(it) =>
    /\ it.declared => it.boundTo = PlaceOf(it)
    /\ it.node \in up /\ it.name # None
    /\ st[PlaceOf(it)] # None
    /\ st[PlaceOf(it)].type = it.resolvedType
    /\ st[PlaceOf(it)].readOnly = it.readOnly
    /\ st[PlaceOf(it)].range = it.range

\* The result of a declare_parameter that succeeded.
Fresh(r) ==
  /\ r.item.declaring /\ ~r.item.declared
  /\ Served(r.item, r.store, r.nodeUp)
  /\ Same(r.item.value, r.store[PlaceOf(r.item)].value)

LackingIn(s) ==
  /\ s.item.node \in s.nodeUp /\ s.item.name # None
  /\ ResolveType(s.item) # "NotSet"
  /\ InRange(s.item.range, ResolveType(s.item), InitialValue(s.item, ResolveType(s.item)))
  /\ s.store[PlaceOf(s.item)] = None

LEMMA ResolvedType ==
  ASSUME NEW it \in Items
  PROVE  ResolveType(it) \in Types \union {"NotSet"}
<1>1. InferType(it.value) \in Types \union {"NotSet"}
  BY DEF InferType, Types, ListTypes, ElementType
<1>2. it.type \in Types \union {"Auto"}
  BY ChoicesAssumption DEF Items
<1> QED BY <1>1, <1>2 DEF ResolveType

LEMMA InitialType ==
  ASSUME NEW it \in Items, NEW type \in Types
  PROVE  InitialValue(it, type) \in StoredVariants
<1>1. it.value \in Variants
  BY DEF Items
<1> QED BY <1>1, ConversionType, ZeroType DEF InitialValue

\* A declaration either changes nothing, and then there was an obstacle, or it
\* leaves an item served with its own descriptor and value.
LEMMA TryDeclareFacts ==
  ASSUME NEW s \in State, Tied(s.item), ~s.item.declaring, NEW r, r = TryDeclare(s)
  PROVE  /\ r \in State /\ Tied(r.item) /\ r.nodeUp = s.nodeUp
         /\ \/ r = s /\ (s.item.declared \/ ~LackingIn(s))
            \/ ~s.item.declared /\ Fresh(r)
<1> DEFINE it == s.item
           type == ResolveType(it)
           v == InitialValue(it, type)
           place == PlaceOf(it)
<1>1. it \in Items /\ s.store \in Stores /\ s.nodeUp \subseteq Nodes
  BY DEF State
<1>2. CASE it.declared \/ ~LackingIn(s)
  <2>1. r = s
    BY <1>2 DEF TryDeclare, LackingIn
  <2> QED BY <2>1, <1>2
<1>3. CASE ~it.declared /\ LackingIn(s)
  <2> DEFINE cell == [type |-> type, value |-> v, readOnly |-> it.readOnly, range |-> it.range]
             kept == IF Same(v, it.value) THEN it.value ELSE v
  <2>1. type \in Types /\ v \in StoredVariants
    BY <1>1, <1>3, ResolvedType, InitialType DEF LackingIn
  <2>2. place \in Places /\ it.node \in s.nodeUp /\ it.name # None
    BY <1>1, <1>3 DEF LackingIn, PlaceOf, Places, Items
  <2>3. cell \in Cells /\ cell # None
    BY <1>1, <2>1, NoneAssumption DEF Cells, Items
  <2>4. kept \in Variants /\ v \in Variants /\ Same(kept, v)
    BY <1>1, <2>1, SameReflexive, SameSymmetric DEF StoredVariants, Items
  <2>5. /\ r.nodeUp = s.nodeUp
        /\ r.store = [s.store EXCEPT ![place] = cell]
        /\ r.item = [it EXCEPT !.declaring = TRUE, !.resolvedType = type, !.value = kept]
        /\ r = [nodeUp |-> r.nodeUp, store |-> r.store, item |-> r.item]
    BY <1>3 DEF TryDeclare, LackingIn
  <2> HIDE DEF cell, kept, v, type, place
  <2>6. r.store \in Stores /\ r.store[place] = cell
    BY <1>1, <2>2, <2>3, <2>5 DEF Stores
  <2>7. r.item \in Items
    BY <1>1, <2>1, <2>2, <2>4, <2>5 DEF Items
  <2>8. /\ r.item.declaring /\ ~r.item.declared /\ r.item.resolvedType = type
        /\ r.item.value = kept /\ r.item.boundTo = it.boundTo
        /\ r.item.node = it.node /\ r.item.name = it.name /\ r.item.moved = it.moved
        /\ r.item.readOnly = it.readOnly /\ r.item.range = it.range
    BY <1>1, <1>3, <2>5 DEF Items
  <2>9. cell.type = type /\ cell.value = v /\ cell.readOnly = it.readOnly /\ cell.range = it.range
    BY DEF cell
  <2>10. r \in State
    BY <1>1, <2>5, <2>6, <2>7 DEF State
  <2>11. Tied(r.item)
    BY <1>3, <2>1, <2>2, <2>8 DEF Tied
  <2>12. PlaceOf(r.item) = place
    BY <2>8 DEF PlaceOf, place
  <2>13. Fresh(r)
    BY <2>2, <2>3, <2>4, <2>5, <2>6, <2>8, <2>9, <2>12 DEF Fresh, Served
  <2> QED BY <1>3, <2>5, <2>10, <2>11, <2>13
<1> QED BY <1>2, <1>3

\* clearConnection() leaves an undeclared item and at most erases its cell.
LEMMA ClearedFacts ==
  ASSUME NEW s \in State, ~s.item.declaring, NEW r \in Cleared(s)
  PROVE  /\ r \in State /\ Tied(r.item) /\ ~r.item.declared /\ ~r.item.declaring
         /\ r.nodeUp = s.nodeUp
         /\ r.item = [s.item EXCEPT !.boundTo = None, !.declared = FALSE,
                                    !.resolvedType = "NotSet", !.moved = FALSE]
         /\ \A p \in Places : p # PlaceOf(s.item) => r.store[p] = s.store[p]
<1> DEFINE it == s.item
           place == PlaceOf(it)
           forgotten == [it EXCEPT !.boundTo = None, !.declared = FALSE,
                                   !.resolvedType = "NotSet", !.moved = FALSE]
<1>1. it \in Items /\ s.store \in Stores /\ s.nodeUp \subseteq Nodes
  BY DEF State
<1>2. forgotten \in Items
  BY <1>1 DEF Items
<1>3. Tied(forgotten) /\ ~forgotten.declared /\ ~forgotten.declaring
  BY <1>1 DEF Items, Tied
<1>4. r \in {[s EXCEPT !.item = forgotten, !.store[place] = None], [s EXCEPT !.item = forgotten]}
  <2>1. CASE it.declared /\ it.node \in s.nodeUp /\ ~it.readOnly
    BY <2>1 DEF Cleared
  <2>2. CASE ~(it.declared /\ it.node \in s.nodeUp /\ ~it.readOnly)
    BY <2>2 DEF Cleared
  <2> QED BY <2>1, <2>2
<1> HIDE DEF forgotten, place
<1>5. [s.store EXCEPT ![place] = None] \in Stores
  BY <1>1 DEF Stores
<1>6. CASE r = [s EXCEPT !.item = forgotten, !.store[place] = None]
  <2>1. r = [item |-> forgotten, store |-> [s.store EXCEPT ![place] = None], nodeUp |-> s.nodeUp]
    BY <1>6 DEF State
  <2>2. r \in State
    BY <1>1, <1>2, <1>5, <2>1 DEF State
  <2>3. \A p \in Places : p # place => r.store[p] = s.store[p]
    BY <1>1, <2>1 DEF Stores
  <2> QED BY <1>3, <2>1, <2>2, <2>3 DEF forgotten, place
<1>7. CASE r = [s EXCEPT !.item = forgotten]
  <2>1. r = [item |-> forgotten, store |-> s.store, nodeUp |-> s.nodeUp]
    BY <1>7 DEF State
  <2>2. r \in State
    BY <1>1, <1>2, <2>1 DEF State
  <2> QED BY <1>3, <2>1, <2>2 DEF forgotten
<1> QED BY <1>4, <1>6, <1>7

-----------------------------------------------------------------------------
(* The inductive invariant.  ValueSettles speaks of an empty queue only;   *)
(* it is inductive with NewestPosted: as long as nothing overtook the      *)
(* posted calls, the newest of them carries the value of the store, and    *)
(* with FreshSettles, its counterpart before the callback is registered.   *)
(* The descriptor is kept by Tied and Served: an attached item is bound to *)
(* the place it names, so no other place it writes to or clears is its own.*)

Typed ==
  /\ item \in Items /\ store \in Stores /\ nodeUp \subseteq Nodes
  /\ guiQueue \in Seq(Variants)
  /\ aborted \in BOOLEAN /\ overtaken \in BOOLEAN /\ missed \in BOOLEAN

NewestPosted ==
  item.declared /\ ~overtaken /\ guiQueue # <<>> /\ store[item.boundTo] # None
    => guiQueue[Len(guiQueue)] = store[item.boundTo].value

FreshSettles ==
  item.declaring /\ ~missed => Same(item.value, store[PlaceOf(item)].value)

IInv ==
  /\ Typed /\ Tied(item) /\ Served(item, store, nodeUp)
  /\ NewestPosted /\ FreshSettles /\ ValueSettles

LEMMA TypedTypeOK == Typed => TypeOK
BY DEF Typed, TypeOK, Items, Stores

LEMMA ServedDescriptor == Served(item, store, nodeUp) => DescriptorInForce
BY DEF Served, Present, DescriptorInForce, Attached

LEMMA WithState ==
  ASSUME Typed, NEW it \in Items
  PROVE  With(it) \in State /\ With(it).item = it /\ With(it).store = store /\ With(it).nodeUp = nodeUp
BY DEF Typed, With, State

\* An item with another value is otherwise the item it was.
LEMMA WithValue ==
  ASSUME IInv, NEW w \in Variants, NEW it, it = [item EXCEPT !.value = w]
  PROVE  /\ it \in Items /\ it.value = w
         /\ it.declared = item.declared /\ it.moved = item.moved /\ it.boundTo = item.boundTo
         /\ it.declaring = item.declaring /\ PlaceOf(it) = PlaceOf(item)
         /\ Tied(it) /\ Served(it, store, nodeUp)
<1>1. /\ it \in Items /\ it.value = w
      /\ it.declared = item.declared /\ it.moved = item.moved /\ it.boundTo = item.boundTo
      /\ it.declaring = item.declaring
      /\ it.node = item.node /\ it.name = item.name /\ it.resolvedType = item.resolvedType
      /\ it.readOnly = item.readOnly /\ it.range = item.range
  BY DEF IInv, Typed, Items
<1>2. Tied(it) /\ Served(it, store, nodeUp) /\ PlaceOf(it) = PlaceOf(item)
  BY <1>1 DEF IInv, Tied, Served, Present, PlaceOf
<1> QED BY <1>1, <1>2

\* Ending a step in an undeclared item, in a fresh declaration, or in a
\* declared item that keeps its callback and is either untouched or moved.
LEMMA BecomeInv ==
  ASSUME IInv, NEW s \in State, Tied(s.item), Become(s), nodeUp' = s.nodeUp,
         guiQueue' = guiQueue, aborted' \in BOOLEAN,
         \/ ~s.item.declared /\ ~s.item.declaring
         \/ Fresh(s)
         \/ /\ item.declared /\ s.item.declared /\ s.store = store /\ s.item.boundTo = item.boundTo
            /\ s.item.moved \/ s.item = item
            /\ nodeUp \subseteq s.nodeUp
  PROVE  IInv'
<1>1. /\ item' = s.item /\ store' = s.store /\ Typed' /\ Tied(item')
      /\ overtaken' = overtaken /\ (missed' => missed)
  BY DEF Become, IInv, Typed, State
<1>2. CASE ~s.item.declared /\ ~s.item.declaring
  BY <1>1, <1>2 DEF IInv, Served, Present, NewestPosted, FreshSettles, ValueSettles, Attached
<1>3. CASE Fresh(s)
  <2>1. Served(item', store', nodeUp')
    BY <1>1, <1>3 DEF Fresh
  <2>2. Same(item'.value, store'[PlaceOf(item)'].value) /\ ~item'.declared
    BY <1>1, <1>3 DEF Fresh, PlaceOf
  <2> QED BY <1>1, <2>1, <2>2 DEF IInv, NewestPosted, FreshSettles, ValueSettles, Attached
<1>4. CASE /\ item.declared /\ s.item.declared /\ s.store = store /\ s.item.boundTo = item.boundTo
           /\ s.item.moved \/ s.item = item
           /\ nodeUp \subseteq s.nodeUp
  <2>1. NewestPosted'
    BY <1>1, <1>4 DEF IInv, NewestPosted
  <2>2. ~item'.declaring /\ FreshSettles'
    BY <1>1, <1>4 DEF Tied, FreshSettles
  <2>3. missed' = missed
    BY <1>1, <1>4, <2>2 DEF Become, IInv, Typed
  <2>4. Served(item', store', nodeUp') /\ ValueSettles'
    <3>1. CASE s.item.moved
      BY <1>1, <2>2, <3>1 DEF Served, Present, ValueSettles, Attached
    <3>2. CASE s.item = item
      BY <1>1, <1>4, <2>3, <3>2 DEF IInv, Served, Present, ValueSettles, Attached
    <3> QED BY <1>4, <3>1, <3>2
  <2> QED BY <1>1, <2>1, <2>2, <2>4 DEF IInv
<1> QED BY <1>2, <1>3, <1>4

\* The same for a step that tries to declare an undeclared item.
LEMMA DeclareInv ==
  ASSUME IInv, NEW s \in State, Tied(s.item), ~s.item.declared, ~s.item.declaring,
         Become(TryDeclare(s)),
         nodeUp' = s.nodeUp, guiQueue' = guiQueue, aborted' \in BOOLEAN
  PROVE  IInv'
<1> DEFINE r == TryDeclare(s)
<1>1. /\ r \in State /\ Tied(r.item) /\ r.nodeUp = s.nodeUp
      /\ r = s \/ Fresh(r)
  BY TryDeclareFacts
<1> HIDE DEF r
<1>2. Become(r)
  BY DEF r
<1>3. (~r.item.declared /\ ~r.item.declaring) \/ Fresh(r)
  BY <1>1
<1> QED BY <1>1, <1>2, <1>3, BecomeInv

\* redeclare() after a change of property, or the change alone.
LEMMA RedeclareInv ==
  ASSUME IInv, NEW it \in Items, ~it.declaring,
         it.declared = item.declared, it.moved = item.moved, it.boundTo = item.boundTo,
         \/ DescriptorChanged(it)
         \/ ~it.declared /\ Become(TryDeclare(With(it))),
         UNCHANGED <<nodeUp, guiQueue, aborted>>
  PROVE  IInv'
<1>1. With(it) \in State /\ With(it).item = it /\ With(it).nodeUp = nodeUp
  BY WithState DEF IInv
<1>2. aborted' \in BOOLEAN
  BY DEF IInv, Typed
<1>3. CASE it.declared
  <2>1. PICK s \in Cleared(With(it)) : Become(TryDeclare(s))
    BY <1>3 DEF DescriptorChanged
  <2>2. s \in State /\ Tied(s.item) /\ ~s.item.declared /\ ~s.item.declaring /\ s.nodeUp = nodeUp
    BY <1>1, ClearedFacts
  <2> QED BY <1>2, <2>1, <2>2, DeclareInv
<1>4. CASE ~it.declared
  <2>1. Tied(it)
    BY <1>4 DEF IInv, Tied
  <2>2. CASE Become(With(it))
    BY <1>1, <1>2, <1>4, <2>1, <2>2, BecomeInv
  <2>3. CASE Become(TryDeclare(With(it)))
    BY <1>1, <1>2, <1>4, <2>1, <2>3, DeclareInv
  <2> QED BY <1>4, <2>2, <2>3 DEF DescriptorChanged
<1> QED BY <1>3, <1>4

\* setValue() of a declared item.
LEMMA WriteDeclaredInv ==
  ASSUME IInv, NEW v \in Variants, item.declared, item.node \in nodeUp, WriteDeclared(v),
         UNCHANGED <<nodeUp, guiQueue>>
  PROVE  IInv'
<1> DEFINE new == ToParameterValue(v, item.resolvedType)
           place == PlaceOf(item)
           cell == store[place]
<1>1. item.resolvedType \in Types /\ item.boundTo \in Places
  BY DEF IInv, Tied
<1>2. new \in StoredVariants \/ new = Invalid
  BY <1>1, ConversionType
<1>3. Typed /\ Tied(item) /\ Served(item, store, nodeUp) /\ NewestPosted /\ ValueSettles
  BY DEF IInv
<1>f. ~item.declaring
  BY <1>3 DEF Tied
<1>4. ~item.moved => place = item.boundTo /\ cell # None
  BY <1>3 DEF Served, Present
<1>5. CASE new = Invalid \/ Same(new, item.value)
  <2>1. UNCHANGED <<item, store, aborted, overtaken, missed>>
    BY <1>5 DEF WriteDeclared
  <2> QED BY <1>3, <2>1 DEF IInv, Typed, NewestPosted, FreshSettles, ValueSettles, Attached, PlaceOf
<1>6. CASE ~(new = Invalid \/ Same(new, item.value))
  <2>1. new \in StoredVariants /\ new \in Variants
    BY <1>2, <1>6 DEF StoredVariants
  <2>2. CASE cell = None
    <3>1. aborted' = TRUE /\ item' = [item EXCEPT !.value = new] /\ UNCHANGED <<store, overtaken, missed>>
      BY <1>6, <2>2 DEF WriteDeclared
    <3>2. /\ item' \in Items /\ item'.moved = item.moved /\ item'.boundTo = item.boundTo
          /\ item'.declared = item.declared /\ ~item'.declaring /\ Tied(item') /\ Served(item', store, nodeUp)
      BY <1>f, <2>1, <3>1, WithValue
    <3>3. item'.moved
      BY <1>3, <1>4, <2>2, <3>2 DEF Typed, Items
    <3>4. Typed' /\ NewestPosted' /\ FreshSettles' /\ ValueSettles'
      BY <1>3, <3>1, <3>2, <3>3 DEF Typed, NewestPosted, FreshSettles, ValueSettles, Attached
    <3> QED BY <3>1, <3>2, <3>4 DEF IInv
  <2>3. CASE cell # None /\ Accepts(cell, item.resolvedType, new)
    <3>1. /\ item' = [item EXCEPT !.value = new] /\ store' = [store EXCEPT ![place].value = new]
          /\ overtaken' = (guiQueue # <<>>) /\ missed' = FALSE /\ aborted' = aborted
      BY <1>6, <2>3 DEF WriteDeclared
    <3>2. /\ item' \in Items /\ item'.moved = item.moved /\ item'.boundTo = item.boundTo
          /\ item'.declared = item.declared /\ ~item'.declaring /\ item'.value = new
          /\ Tied(item') /\ Served(item', store, nodeUp)
      BY <1>f, <2>1, <3>1, WithValue
    <3>3. \A p \in Places : store[p] # None => store[p] \in Cells
      BY <1>3 DEF Typed, Stores
    <3>4. /\ store' \in Stores
          /\ \A p \in Places : p # place => store'[p] = store[p]
          /\ place \in Places => /\ store'[place] \in Cells /\ store'[place].value = new
                                 /\ store'[place].type = cell.type
                                 /\ store'[place].readOnly = cell.readOnly
                                 /\ store'[place].range = cell.range
      <4> DEFINE after == [cell EXCEPT !.value = new]
      <4>1. CASE place \in Places
        <5>1. /\ after \in Cells /\ after.value = new /\ after.type = cell.type
              /\ after.readOnly = cell.readOnly /\ after.range = cell.range
          BY <2>1, <2>3, <3>3, <4>1 DEF Cells
        <5>2. store' = [store EXCEPT ![place] = after]
          BY <3>1
        <5> HIDE DEF after, place
        <5> QED BY <1>3, <4>1, <5>1, <5>2 DEF Typed, Stores
      <4>2. CASE place \notin Places
        <5>1. store' = store
          BY <1>3, <3>1, <4>2 DEF Typed, Stores
        <5> QED BY <1>3, <4>2, <5>1 DEF Typed
      <4> QED BY <4>1, <4>2
    <3>5. ~item.moved => store'[item.boundTo] # None
      BY <1>1, <1>4, <3>4, NoneAssumption
    <3>6. Served(item', store', nodeUp')
      <4> SUFFICES ASSUME ~item.moved PROVE Served(item', store', nodeUp')
        BY <3>2 DEF Served, Present
      <4>1. place \in Places /\ PlaceOf(item') = place
        BY <1>1, <1>4, <3>2, <2>1, <3>1, WithValue
      <4> HIDE DEF place, new
      <4> QED BY <1>1, <1>4, <3>2, <3>4, <3>5, <4>1 DEF Served, Present
    <3>7. ValueSettles'
      <4>1. ~item.moved => Same(item'.value, store'[item.boundTo].value)
        BY <1>1, <1>4, <3>2, <3>4, SameReflexive
      <4> QED BY <3>2, <3>5, <4>1 DEF ValueSettles, Attached
    <3>8. NewestPosted'
      BY <3>1 DEF NewestPosted
    <3>9. Typed'
      BY <1>3, <3>1, <3>2, <3>4 DEF Typed, Items
    <3>10. FreshSettles'
      BY <3>2 DEF FreshSettles
    <3> QED BY <3>2, <3>6, <3>7, <3>8, <3>9, <3>10 DEF IInv
  <2>4. CASE cell # None /\ ~Accepts(cell, item.resolvedType, new)
    <3>1. /\ item' = [item EXCEPT !.value = Restore(new, cell.value)]
          /\ overtaken' = (overtaken /\ guiQueue # <<>>) /\ missed' = FALSE
          /\ UNCHANGED <<store, aborted>>
      BY <1>6, <2>4 DEF WriteDeclared
    <3>2. place \in Places /\ cell \in Cells
      <4>1. place \in Places
        BY <1>3 DEF PlaceOf, Places, Tied, Typed, Items
      <4> QED BY <1>3, <2>4, <4>1 DEF Typed, Stores
    <3>3. cell.value \in Variants
      BY <3>2 DEF Cells, StoredVariants
    <3>4. Restore(new, cell.value) \in Variants /\ Same(Restore(new, cell.value), cell.value)
      BY <2>1, <3>3, SameReflexive, SameSymmetric DEF Restore
    <3>5. /\ item' \in Items /\ item'.moved = item.moved /\ item'.boundTo = item.boundTo
          /\ item'.declared = item.declared /\ ~item'.declaring /\ item'.value = Restore(new, cell.value)
          /\ Tied(item') /\ Served(item', store, nodeUp)
      BY <1>f, <3>1, <3>4, WithValue
    <3>6. NewestPosted'
      BY <1>3, <3>1, <3>5 DEF NewestPosted
    <3>7. ValueSettles'
      BY <1>4, <2>4, <3>1, <3>4, <3>5 DEF ValueSettles, Attached
    <3>8. Typed'
      BY <1>3, <3>1, <3>5 DEF Typed, Items
    <3>9. FreshSettles'
      BY <3>5 DEF FreshSettles
    <3> QED BY <3>1, <3>5, <3>6, <3>7, <3>8, <3>9 DEF IInv
  <2> QED BY <2>2, <2>3, <2>4
<1> QED BY <1>5, <1>6

\* setValue() of any item.
LEMMA SetValueInv ==
  ASSUME IInv, NEW v \in Writes, SetValue(v)
  PROVE  IInv'
<1>1. v \in Variants /\ item \in Items /\ ~item.declaring
  BY WritesAssumption DEF IInv, Typed, SetValue, Free
<1>2. CASE item.declared /\ item.node \in nodeUp
  <2>1. WriteDeclared(v) /\ UNCHANGED <<nodeUp, guiQueue>>
    BY <1>2 DEF SetValue
  <2> QED BY <1>1, <1>2, <2>1, WriteDeclaredInv
<1>3. CASE ~(item.declared /\ item.node \in nodeUp)
  <2>1. StoreUndeclared(v) /\ UNCHANGED <<nodeUp, guiQueue, aborted>>
    BY <1>3 DEF SetValue
  <2>2. aborted' \in BOOLEAN
    BY <2>1 DEF IInv, Typed
  <2>3. CASE Same(v, item.value)
    <3>1. Become(With(item))
      BY <2>1, <2>3 DEF StoreUndeclared, Now
    <3>2. /\ With(item) \in State /\ With(item).item = item
          /\ With(item).store = store /\ With(item).nodeUp = nodeUp /\ Tied(item)
      BY <1>1, WithState DEF IInv
    <3>3. \/ ~With(item).item.declared /\ ~With(item).item.declaring
          \/ /\ item.declared /\ With(item).item.declared
             /\ With(item).store = store /\ With(item).item.boundTo = item.boundTo
             /\ With(item).item.moved \/ With(item).item = item
             /\ nodeUp \subseteq With(item).nodeUp
      BY <1>1, <3>2
    <3> QED BY <2>1, <2>2, <3>1, <3>2, <3>3, BecomeInv
  <2>4. CASE ~Same(v, item.value)
    <3> DEFINE it == [item EXCEPT !.value = v]
    <3>1. /\ it \in Items /\ it.declared = item.declared /\ it.moved = item.moved
          /\ it.boundTo = item.boundTo /\ Tied(it) /\ ~it.declaring
      BY <1>1, WithValue
    <3>2. Become(TryDeclare(With(it)))
      BY <2>1, <2>4 DEF StoreUndeclared
    <3> HIDE DEF it
    <3>3. With(it) \in State /\ With(it).item = it /\ With(it).store = store /\ With(it).nodeUp = nodeUp
      BY <3>1, WithState DEF IInv
    <3>4. CASE ~item.declared
      BY <2>1, <2>2, <3>1, <3>2, <3>3, <3>4, DeclareInv
    <3>5. CASE item.declared
      <4>1. TryDeclare(With(it)) = With(it)
        BY <3>1, <3>3, <3>5 DEF TryDeclare
      <4>2. Become(With(it))
        BY <3>2, <4>1
      <4>3. item.moved
        BY <1>3, <3>5 DEF IInv, Served, Present
      <4>4. /\ With(it).item.declared /\ With(it).store = store /\ With(it).item.boundTo = item.boundTo
            /\ With(it).item.moved /\ nodeUp \subseteq With(it).nodeUp
        BY <3>1, <3>3, <3>5, <4>3
      <4> QED BY <2>1, <2>2, <3>1, <3>3, <3>5, <4>2, <4>4, BecomeInv
    <3> QED BY <3>4, <3>5
  <2> QED BY <2>3, <2>4
<1> QED BY <1>2, <1>3

LEMMA SetNameInv ==
  ASSUME IInv, NEW name \in Names \union {None}, SetName(name)
  PROVE  IInv'
<1>1. PICK s \in IF item.declared THEN Cleared(Now) ELSE {Now} :
        Become(TryDeclare([s EXCEPT !.item.name = name]))
  BY DEF SetName
<1>2. /\ With(item) \in State /\ With(item).item = item /\ With(item).nodeUp = nodeUp /\ Tied(item)
  BY WithState DEF IInv, Typed
<1>3. s \in State /\ Tied(s.item) /\ ~s.item.declared /\ ~s.item.declaring /\ s.nodeUp = nodeUp
  <2>f. ~item.declaring
    BY DEF SetName, Change, Free
  <2>1. CASE item.declared
    BY <1>1, <1>2, <2>f, <2>1, ClearedFacts DEF Now
  <2>2. CASE ~item.declared
    BY <1>1, <1>2, <2>f, <2>2 DEF Now
  <2> QED BY <2>1, <2>2
<1> DEFINE t == [s EXCEPT !.item.name = name]
<1>4. s.item \in Items /\ s.store \in Stores /\ s.nodeUp \subseteq Nodes
  BY <1>3 DEF State
<1>5. /\ t = [item |-> [s.item EXCEPT !.name = name], store |-> s.store, nodeUp |-> s.nodeUp]
  BY <1>3 DEF State
<1>6. [s.item EXCEPT !.name = name] \in Items
  BY <1>4 DEF Items
<1>7. t \in State /\ t.nodeUp = nodeUp
  BY <1>3, <1>4, <1>5, <1>6 DEF State
<1>8. Tied(t.item) /\ ~t.item.declared /\ ~t.item.declaring
  BY <1>3, <1>4, <1>5 DEF Items, Tied
<1>9. nodeUp' = nodeUp /\ guiQueue' = guiQueue /\ aborted' \in BOOLEAN
  BY DEF SetName, IInv, Typed
<1>10. Become(TryDeclare(t))
  BY <1>1
<1> HIDE DEF t
<1> QED BY <1>7, <1>8, <1>9, <1>10, DeclareInv

LEMMA SetNodeInv ==
  ASSUME IInv, NEW n \in Nodes \union {None}, SetNode(n)
  PROVE  IInv'
<1> DEFINE it == [item EXCEPT !.node = n, !.moved = item.declared]
<1>1. /\ it \in Items /\ it.declared = item.declared /\ it.moved = item.declared /\ ~it.declaring
      /\ it.boundTo = item.boundTo /\ it.name = item.name /\ it.resolvedType = item.resolvedType
  BY DEF IInv, Typed, Items, SetNode, Change, Free
<1>2. Tied(it)
  BY <1>1 DEF IInv, Tied
<1>3. Become(TryDeclare(With(it))) /\ UNCHANGED <<nodeUp, guiQueue, aborted>>
  BY DEF SetNode
<1> HIDE DEF it
<1>4. With(it) \in State /\ With(it).item = it /\ With(it).store = store /\ With(it).nodeUp = nodeUp
  BY <1>1, WithState DEF IInv
<1>5. aborted' \in BOOLEAN
  BY <1>3 DEF IInv, Typed
<1>6. CASE ~item.declared
  BY <1>1, <1>2, <1>3, <1>4, <1>5, <1>6, DeclareInv
<1>7. CASE item.declared
  <2>1. TryDeclare(With(it)) = With(it)
    BY <1>1, <1>4, <1>7 DEF TryDeclare
  <2>2. Become(With(it))
    BY <1>3, <2>1
  <2>3. /\ With(it).item.declared /\ With(it).store = store /\ With(it).item.boundTo = item.boundTo
        /\ With(it).item.moved /\ nodeUp \subseteq With(it).nodeUp
    BY <1>1, <1>4, <1>7
  <2> QED BY <1>2, <1>3, <1>4, <1>5, <1>7, <2>2, <2>3, BecomeInv
<1> QED BY <1>6, <1>7

LEMMA NodeUpInv ==
  ASSUME IInv, NEW n \in Nodes, NodeUp(n)
  PROVE  IInv'
<1> DEFINE s == [Now EXCEPT !.nodeUp = nodeUp']
<1>1. nodeUp' = nodeUp \union {n} /\ guiQueue' = guiQueue /\ aborted' = aborted
  BY DEF NodeUp
<1>2. Become(IF item.node = n THEN TryDeclare(s) ELSE s)
  BY DEF NodeUp
<1>3. s = [item |-> item, store |-> store, nodeUp |-> nodeUp']
  BY DEF Now, With
<1>4. s \in State /\ s.item = item /\ s.store = store /\ s.nodeUp = nodeUp' /\ Tied(item)
  BY <1>1, <1>3 DEF State, IInv, Typed
<1>f. ~item.declaring
  BY DEF NodeUp, Free
<1> HIDE DEF s
<1>5. aborted' \in BOOLEAN
  BY <1>1 DEF IInv, Typed
<1>6. CASE Become(s)
  <2>1. \/ ~s.item.declared /\ ~s.item.declaring
        \/ /\ item.declared /\ s.item.declared /\ s.store = store /\ s.item.boundTo = item.boundTo
           /\ s.item.moved \/ s.item = item
           /\ nodeUp \subseteq s.nodeUp
    BY <1>1, <1>4, <1>f
  <2> QED BY <1>1, <1>4, <1>5, <1>6, <2>1, BecomeInv
<1>7. CASE Become(TryDeclare(s)) /\ item.declared
  <2>1. TryDeclare(s) = s
    BY <1>4, <1>7 DEF TryDeclare
  <2> QED BY <1>6, <1>7, <2>1
<1>8. CASE Become(TryDeclare(s)) /\ ~item.declared
  BY <1>1, <1>4, <1>f, <1>5, <1>8, DeclareInv
<1> QED BY <1>2, <1>6, <1>7, <1>8

LEMMA NodeDownInv ==
  ASSUME IInv, NEW n \in Nodes, NodeDown(n)
  PROVE  IInv'
<1>1. PICK s \in ShutDown(n) :
        /\ item' = s.item
        /\ store' = [p \in Places |-> IF p[1] = n THEN None ELSE s.store[p]]
  BY DEF NodeDown
<1>2. nodeUp' = nodeUp \ {n} /\ UNCHANGED <<guiQueue, aborted, overtaken, missed>> /\ ~item.declaring
  BY DEF NodeDown, Change, Free
<1>3. With(item) \in State /\ With(item).item = item /\ With(item).store = store /\ Tied(item)
  BY WithState DEF IInv, Typed
<1>4. s \in State /\ Tied(s.item) /\ ~s.item.declaring /\ (item.node = n => ~s.item.declared)
      /\ (item.node # n => s.item = item /\ s.store = store)
  BY <1>1, <1>2, <1>3, ClearedFacts DEF ShutDown, Now
<1>5. Typed'
  BY <1>1, <1>2, <1>4 DEF IInv, Typed, State, Stores
<1>6. CASE item.node = n
  BY <1>1, <1>4, <1>5, <1>6 DEF IInv, Served, Present, NewestPosted, FreshSettles, ValueSettles, Attached
<1>7. CASE item.node # n
  <2>1. item' = item /\ \A p \in Places : store'[p] = IF p[1] = n THEN None ELSE store[p]
    BY <1>1, <1>4, <1>7
  <2>2. NewestPosted'
    BY <1>2, <2>1 DEF IInv, NewestPosted, Tied
  <2>3. item.declared /\ ~item.moved =>
          /\ item.boundTo \in Places /\ item.boundTo[1] # n
          /\ store'[item.boundTo] = store[item.boundTo]
    BY <1>7, <2>1 DEF IInv, Served, Present, Tied, PlaceOf
  <2>4. Served(item', store', nodeUp')
    <3>1. PlaceOf(item)' = PlaceOf(item)
      BY <2>1 DEF PlaceOf
    <3> QED BY <1>2, <1>7, <2>1, <2>3, <3>1 DEF IInv, Served, Present
  <2>5. ValueSettles'
    BY <1>2, <2>1, <2>3 DEF IInv, ValueSettles, Attached
  <2>6. FreshSettles'
    BY <1>2, <2>1 DEF FreshSettles
  <2> QED BY <1>4, <1>5, <1>7, <2>1, <2>2, <2>4, <2>5, <2>6 DEF IInv
<1> QED BY <1>6, <1>7

LEMMA ExternalSetInv ==
  ASSUME IInv, NEW place \in Places, NEW v \in Writes, ExternalSet(place, v)
  PROVE  IInv'
<1> DEFINE cell == store[place]
           after == [cell EXCEPT !.value = v]
<1>1. Typed /\ Tied(item) /\ Served(item, store, nodeUp) /\ NewestPosted /\ FreshSettles /\ ValueSettles
  BY DEF IInv
<1>2. cell \in Cells /\ cell # None
  BY <1>1 DEF ExternalSet, Typed, Stores
<1>3. v \in StoredVariants /\ v \in Variants
  <2>1. cell.type \in Types /\ v \in Variants
    BY <1>2, WritesAssumption DEF Cells
  <2> QED BY <2>1, ConversionType DEF ExternalSet
<1>4. /\ after \in Cells /\ after # None /\ after.value = v /\ after.type = cell.type
      /\ after.readOnly = cell.readOnly /\ after.range = cell.range
  BY <1>2, <1>3, NoneAssumption DEF Cells
<1>5. store' = [store EXCEPT ![place] = after]
  BY DEF ExternalSet
<1> HIDE DEF after
<1>6. /\ store' \in Stores /\ store'[place] = after
      /\ \A p \in Places : p # place => store'[p] = store[p]
  BY <1>1, <1>4, <1>5 DEF Typed, Stores
<1>7. UNCHANGED <<item, nodeUp, aborted>> /\ overtaken' = (overtaken /\ item.boundTo # place)
  BY DEF ExternalSet
<1>8. /\ item.boundTo = place => guiQueue' = Append(guiQueue, v)
      /\ item.boundTo # place => guiQueue' = guiQueue
  BY DEF ExternalSet, PostExternal
<1>9. Typed'
  <2>1. missed' \in BOOLEAN
    BY <1>1 DEF ExternalSet, Typed, Items
  <2> QED BY <1>1, <1>3, <1>6, <1>7, <1>8, <2>1 DEF Typed
<1>10. Served(item', store', nodeUp') /\ FreshSettles'
  <2>1. PlaceOf(item') = PlaceOf(item) /\ item' = item /\ nodeUp' = nodeUp
    BY <1>7
  <2>2. Present(item) => PlaceOf(item) \in Places
    BY <1>1 DEF Typed, Items, Served, PlaceOf, Places
  <2>3. CASE PlaceOf(item) = place
    <3>1. Served(item', store', nodeUp')
      BY <1>1, <1>4, <1>6, <2>1, <2>3 DEF Served, Present
    <3>2. item.declaring => item.boundTo # place
      BY <1>1, NoneAssumption DEF Tied
    <3>3. item.declaring => missed'
      BY <2>3, <3>2 DEF ExternalSet
    <3> QED BY <2>1, <3>1, <3>3 DEF FreshSettles
  <2>4. CASE PlaceOf(item) # place
    <3>1. Present(item) => store'[PlaceOf(item)] = store[PlaceOf(item)]
      BY <1>6, <2>2, <2>4
    <3>2. item.declaring => ~item.declared /\ item.boundTo # place
      BY <1>1, NoneAssumption DEF Tied
    <3>3. item.declaring /\ missed => missed'
      BY <3>2 DEF ExternalSet
    <3> QED BY <1>1, <2>1, <3>1, <3>3 DEF Served, Present, FreshSettles
  <2> QED BY <2>3, <2>4
<1>11. CASE item.boundTo = place
  <2>1. guiQueue' # <<>> /\ guiQueue'[Len(guiQueue')] = v
    BY <1>1, <1>3, <1>8, <1>11 DEF Typed
  <2>2. NewestPosted' /\ ValueSettles'
    BY <1>4, <1>6, <1>7, <1>11, <2>1 DEF NewestPosted, ValueSettles
  <2> QED BY <1>1, <1>7, <1>9, <1>10, <2>2 DEF IInv
<1>12. CASE item.boundTo # place
  <2>1. item.declared => store'[item.boundTo] = store[item.boundTo]
    BY <1>1, <1>6, <1>12 DEF Tied
  <2>2. overtaken' = overtaken /\ guiQueue' = guiQueue /\ (missed => missed')
    BY <1>1, <1>8, <1>12 DEF ExternalSet, Typed
  <2>3. NewestPosted'
    BY <1>1, <1>7, <2>1, <2>2 DEF NewestPosted
  <2>4. ValueSettles'
    BY <1>1, <1>7, <2>1, <2>2 DEF ValueSettles, Attached
  <2> QED BY <1>1, <1>7, <1>9, <1>10, <2>3, <2>4 DEF IInv
<1> QED BY <1>11, <1>12

\* Running the oldest posted call leaves the newest one, unless it was that one.
LEMMA TailKeepsLast ==
  ASSUME NEW q \in Seq(Variants), q # <<>>
  PROVE  /\ Tail(q) = <<>> => Len(q) = 1
         /\ Tail(q) # <<>> => Tail(q)[Len(Tail(q))] = q[Len(q)]
<1> DEFINE t == Tail(q)
<1>1. t = <<>> <=> Len(t) = 0
  <2>1. t \in Seq(Variants)
    OBVIOUS
  <2> HIDE DEF t
  <2> QED BY <2>1
<1>2. Len(q) \in Nat /\ Len(t) = Len(q) - 1
  OBVIOUS
<1>3. \A i \in 1..Len(t) : t[i] = q[i + 1]
  OBVIOUS
<1> HIDE DEF t
<1>4. t # <<>> => Len(t) \in 1..Len(t) /\ Len(t) + 1 = Len(q)
  BY <1>1, <1>2
<1>5. t # <<>> => t[Len(t)] = q[Len(q)]
  BY <1>3, <1>4
<1>6. t = <<>> => Len(q) = 1
  BY <1>1, <1>2
<1> QED BY <1>5, <1>6 DEF t

LEMMA HandleExternalInv ==
  ASSUME IInv, HandleExternalSet
  PROVE  IInv'
<1> DEFINE v == Head(guiQueue)
<1>1. Typed /\ Tied(item) /\ Served(item, store, nodeUp) /\ NewestPosted /\ ValueSettles
  BY DEF IInv
<1>2. /\ guiQueue # <<>> /\ guiQueue' = Tail(guiQueue)
      /\ item' = [item EXCEPT !.value = ExternalValue(v)]
      /\ UNCHANGED <<store, nodeUp, aborted, overtaken, missed>>
      /\ ~item.declaring
  BY DEF HandleExternalSet, Free
<1>3. guiQueue \in Seq(Variants)
  BY <1>1 DEF Typed
<1>4. v \in Variants /\ Tail(guiQueue) \in Seq(Variants) /\ v = guiQueue[1]
  BY <1>2, <1>3
<1>5. /\ Tail(guiQueue) = <<>> => Len(guiQueue) = 1
      /\ Tail(guiQueue) # <<>> => Tail(guiQueue)[Len(Tail(guiQueue))] = guiQueue[Len(guiQueue)]
  BY <1>2, <1>3, TailKeepsLast
<1> HIDE DEF v
<1>6. ExternalValue(v) \in Variants /\ Same(ExternalValue(v), v)
  BY <1>1, <1>4, SameReflexive, SameSymmetric DEF ExternalValue, Typed, Items
<1>7. /\ item' \in Items /\ item'.moved = item.moved /\ item'.boundTo = item.boundTo
      /\ item'.declared = item.declared /\ item'.value = ExternalValue(v) /\ ~item'.declaring
      /\ Tied(item') /\ Served(item', store, nodeUp)
  BY <1>2, <1>6, WithValue
<1>8. NewestPosted'
  BY <1>1, <1>2, <1>5, <1>7 DEF NewestPosted
<1>9. ValueSettles'
  <2> SUFFICES ASSUME item.declared, ~item.moved, Tail(guiQueue) = <<>>, ~overtaken
               PROVE  store[item.boundTo] # None /\ Same(ExternalValue(v), store[item.boundTo].value)
    BY <1>2, <1>7 DEF ValueSettles, Attached
  <2>1. store[item.boundTo] # None
    BY <1>1 DEF Served, Present
  <2>2. v = store[item.boundTo].value
    BY <1>1, <1>2, <1>4, <1>5, <2>1 DEF NewestPosted
  <2> QED BY <1>6, <2>1, <2>2
<1>10. Typed' /\ FreshSettles'
  BY <1>1, <1>2, <1>4, <1>7 DEF Typed, FreshSettles
<1> QED BY <1>2, <1>7, <1>8, <1>9, <1>10 DEF IInv

\* The end of tryDeclare(): the declared value is the item's, and so is the
\* stored one, unless an external set was missed; nothing posted is newer.
LEMMA FinishDeclareInv ==
  ASSUME IInv, FinishDeclare
  PROVE  IInv'
<1>1. /\ item \in Items /\ item.declaring /\ Tied(item) /\ Served(item, store, nodeUp) /\ FreshSettles
      /\ item' = [item EXCEPT !.declaring = FALSE, !.declared = TRUE, !.boundTo = PlaceOf(item)]
      /\ overtaken' = (guiQueue # <<>>) /\ UNCHANGED <<store, nodeUp, guiQueue, aborted, missed>>
  BY DEF FinishDeclare, IInv, Typed
<1>2. item.node \in nodeUp /\ item.name # None /\ PlaceOf(item) \in Places
  BY <1>1 DEF Served, Present, IInv, Typed, Items, PlaceOf, Places
<1>3. /\ item' \in Items /\ ~item'.declaring /\ item'.declared /\ item'.boundTo = PlaceOf(item)
      /\ item'.node = item.node /\ item'.name = item.name /\ item'.value = item.value
      /\ item'.resolvedType = item.resolvedType /\ item'.readOnly = item.readOnly
      /\ item'.range = item.range
  BY <1>1, <1>2 DEF Items
<1>4. Tied(item') /\ PlaceOf(item') = PlaceOf(item)
  BY <1>1, <1>2, <1>3 DEF Tied, PlaceOf
<1>5. Served(item', store', nodeUp')
  BY <1>1, <1>2, <1>3, <1>4 DEF Served, Present
<1>6. Typed'
  BY <1>1, <1>3 DEF IInv, Typed
<1>7. NewestPosted' /\ FreshSettles'
  BY <1>1, <1>3 DEF NewestPosted, FreshSettles
<1>8. ValueSettles'
  BY <1>1, <1>3, <1>4 DEF ValueSettles, FreshSettles, Attached, Served, Present
<1> QED BY <1>4, <1>5, <1>6, <1>7, <1>8 DEF IInv

LEMMA IInvStep == IInv /\ [Next]_vars => IInv'
<1> SUFFICES ASSUME IInv, [Next]_vars PROVE IInv'
  OBVIOUS
<1>a. item \in Items
  BY DEF IInv, Typed
<1>0. CASE FinishDeclare
  BY <1>0, FinishDeclareInv
<1>1. CASE SetDescription
  BY <1>1, <1>a, RedeclareInv DEF SetDescription, Change, Free
<1>2. CASE SetReadOnly
  <2> DEFINE it == [item EXCEPT !.readOnly = ~@]
  <2>1. /\ it \in Items /\ it.declared = item.declared /\ it.moved = item.moved /\ it.boundTo = item.boundTo
        /\ ~it.declaring
    BY <1>a, <1>2 DEF Items, SetReadOnly, Change, Free
  <2>2. DescriptorChanged(it) /\ UNCHANGED <<nodeUp, guiQueue, aborted>>
    BY <1>2 DEF SetReadOnly
  <2> HIDE DEF it
  <2> QED BY <2>1, <2>2, RedeclareInv
<1>3. ASSUME NEW r \in Ranges, SetRange(r) PROVE IInv'
  <2> DEFINE it == [item EXCEPT !.range = r]
  <2>1. /\ it \in Items /\ it.declared = item.declared /\ it.moved = item.moved /\ it.boundTo = item.boundTo
        /\ ~it.declaring
    BY <1>a, <1>3 DEF Items, SetRange, Change, Free
  <2>2. DescriptorChanged(it) /\ UNCHANGED <<nodeUp, guiQueue, aborted>>
    BY <1>3 DEF SetRange
  <2> HIDE DEF it
  <2> QED BY <2>1, <2>2, RedeclareInv
<1>4. ASSUME NEW t \in Choices, SetType(t) PROVE IInv'
  <2> DEFINE it == [item EXCEPT !.type = t]
  <2>1. /\ it \in Items /\ it.declared = item.declared /\ it.moved = item.moved /\ it.boundTo = item.boundTo
        /\ ~it.declaring
    BY <1>a, <1>4 DEF Items, SetType, Change, Free
  <2>2. DescriptorChanged(it) \/ (~it.declared /\ Become(TryDeclare(With(it))))
    BY <1>4, <2>1 DEF SetType, DescriptorChanged
  <2>3. UNCHANGED <<nodeUp, guiQueue, aborted>>
    BY <1>4 DEF SetType
  <2> HIDE DEF it
  <2> QED BY <2>1, <2>2, <2>3, RedeclareInv
<1>5. ASSUME NEW name \in Names \union {None}, SetName(name) PROVE IInv'
  BY <1>5, SetNameInv
<1>6. ASSUME NEW n \in Nodes \union {None}, SetNode(n) PROVE IInv'
  BY <1>6, SetNodeInv
<1>7. ASSUME NEW v \in Writes, SetValue(v) PROVE IInv'
  BY <1>7, SetValueInv
<1>8. ASSUME NEW n \in Nodes, NodeUp(n) PROVE IInv'
  BY <1>8, NodeUpInv
<1>9. ASSUME NEW n \in Nodes, NodeDown(n) PROVE IInv'
  BY <1>9, NodeDownInv
<1>10. ASSUME NEW p \in Places, NEW v \in Writes, ExternalSet(p, v) PROVE IInv'
  BY <1>10, ExternalSetInv
<1>11. CASE HandleExternalSet
  BY <1>11, HandleExternalInv
<1>12. CASE UNCHANGED vars
  <2>1. item' = item /\ store' = store /\ nodeUp' = nodeUp
    BY <1>12 DEF vars
  <2> QED BY <1>12, <2>1 DEF vars, IInv, Typed, NewestPosted, FreshSettles, ValueSettles, Attached
<1> QED BY <1>0, <1>1, <1>2, <1>3, <1>4, <1>5, <1>6, <1>7, <1>8, <1>9, <1>10, <1>11, <1>12 DEF Next

LEMMA IInvInit == Init => IInv
<1> SUFFICES ASSUME Init PROVE IInv
  OBVIOUS
<1>1. Invalid \in Variants
  <2>1. Invalid \in Scalars
    BY DEF Invalid, Scalar, Scalars
  <2> QED BY <2>1, ScalarsAreVariants
<1>2. item \in Items /\ Tied(item) /\ ~item.declared /\ ~item.declaring
  BY <1>1 DEF Init, Items, Tied
<1>3. store \in Stores /\ <<>> \in Seq(Variants)
  BY DEF Init, Stores
<1>4. Typed
  BY <1>2, <1>3 DEF Init, Typed
<1> QED BY <1>2, <1>4 DEF IInv, Served, Present, NewestPosted, FreshSettles, ValueSettles, Attached

LEMMA Invariance == Spec => []IInv
BY IInvInit, IInvStep, PTL DEF Spec

\* Every variable of the parameter, its event queue and the stores keeps its
\* type: whatever is written, a store never holds a value without a type.
THEOREM TypeCorrect == Spec => []TypeOK
<1>1. IInv => TypeOK
  BY TypedTypeOK DEF IInv
<1> QED BY <1>1, Invariance, PTL

\* The node always serves an attached item with the type, read-only flag and
\* range the item shows.
THEOREM DescriptorCorrect == Spec => []DescriptorInForce
<1>1. IInv => DescriptorInForce
  BY ServedDescriptor DEF IInv
<1> QED BY <1>1, Invariance, PTL

\* Once the posted calls have run, an attached item shows the value rclcpp
\* holds, unless one of them was overtaken by the item's own set or declaration,
\* or the last external set fell between declare_parameter and the registration.
THEOREM ValueCorrect == Spec => []ValueSettles
<1>1. IInv => ValueSettles
  BY DEF IInv
<1> QED BY <1>1, Invariance, PTL

-----------------------------------------------------------------------------
(* Declaring at once.                                                      *)

\* A step that tries to declare leaves an undeclared item with an obstacle.
LEMMA TryLeavesObstacle ==
  ASSUME NEW s \in State, Tied(s.item), ~s.item.declared, ~s.item.declaring,
         Become(TryDeclare(s)), nodeUp' = s.nodeUp
  PROVE  ~Lacking'
<1> DEFINE r == TryDeclare(s)
<1>1. (r = s /\ ~LackingIn(s)) \/ Fresh(r)
  BY TryDeclareFacts
<1> HIDE DEF r
<1>2. item' = r.item /\ store' = r.store
  BY DEF Become, r
<1>3. CASE r = s /\ ~LackingIn(s)
  BY <1>2, <1>3 DEF Lacking, LackingIn
<1>4. CASE Fresh(r)
  BY <1>2, <1>4 DEF Fresh, Served, Present, Lacking
<1> QED BY <1>1, <1>3, <1>4

\* Neither the read-only flag nor the descriptor's text stands in the way.
LEMMA RedeclareAtOnce ==
  ASSUME IInv, NEW it \in Items, UNCHANGED nodeUp, DescriptorChanged(it), ~Lacking,
         it.name = item.name, it.node = item.node, it.type = item.type, it.value = item.value,
         it.range = item.range, ~it.declaring
  PROVE  ~Lacking'
<1>1. With(it) \in State /\ With(it).item = it /\ With(it).store = store /\ With(it).nodeUp = nodeUp
  BY WithState DEF IInv
<1>2. CASE it.declared
  <2>1. PICK s \in Cleared(With(it)) : Become(TryDeclare(s))
    BY <1>2 DEF DescriptorChanged
  <2>2. s \in State /\ Tied(s.item) /\ ~s.item.declared /\ ~s.item.declaring /\ s.nodeUp = nodeUp
    BY <1>1, ClearedFacts
  <2> QED BY <2>1, <2>2, TryLeavesObstacle
<1>3. CASE ~it.declared
  <2>1. item' = it /\ store' = store
    BY <1>1, <1>3 DEF DescriptorChanged, Become
  <2>2. /\ ResolveType(it) = ResolveType(item) /\ PlaceOf(it) = PlaceOf(item)
        /\ \A type : InitialValue(it, type) = InitialValue(item, type)
    BY DEF ResolveType, InitialValue, PlaceOf
  <2> QED BY <2>1, <2>2 DEF Lacking
<1> QED BY <1>2, <1>3

LEMMA DeclaredAtOnceStep ==
  ASSUME IInv, Next, ~Lacking, item.range = item'.range, guiQueue = guiQueue', ~item'.moved
  PROVE  ~Lacking'
<1>a. item \in Items /\ store \in Stores /\ guiQueue \in Seq(Variants) /\ Tied(item)
  BY DEF IInv, Typed
<1>b. /\ With(item) \in State /\ With(item).item = item
      /\ With(item).store = store /\ With(item).nodeUp = nodeUp
  BY <1>a, WithState DEF IInv
<1>0. CASE FinishDeclare
  <2>1. store[PlaceOf(item)] # None /\ UNCHANGED store
    BY <1>0 DEF FinishDeclare, IInv, Served, Present
  <2>2. item'.node = item.node /\ item'.name = item.name
    BY <1>0, <1>a DEF FinishDeclare, Items
  <2>3. PlaceOf(item') = PlaceOf(item)
    BY <2>2 DEF PlaceOf
  <2> QED BY <2>1, <2>3 DEF Lacking
<1>1. CASE SetDescription
  BY <1>1, <1>a, RedeclareAtOnce DEF SetDescription, Change, Free
<1>2. CASE SetReadOnly
  <2> DEFINE it == [item EXCEPT !.readOnly = ~@]
  <2>1. /\ it \in Items /\ it.name = item.name /\ it.node = item.node /\ it.type = item.type
        /\ it.value = item.value /\ it.range = item.range /\ ~it.declaring
    BY <1>a, <1>2 DEF Items, SetReadOnly, Change, Free
  <2>2. DescriptorChanged(it) /\ UNCHANGED nodeUp
    BY <1>2 DEF SetReadOnly
  <2> HIDE DEF it
  <2> QED BY <2>1, <2>2, RedeclareAtOnce
<1>3. ASSUME NEW r \in Ranges, SetRange(r) PROVE ~Lacking'
  <2> DEFINE it == [item EXCEPT !.range = r]
  <2>1. it \in Items /\ it.range = r /\ ~it.declaring
    BY <1>a, <1>3 DEF Items, SetRange, Change, Free
  <2>2. DescriptorChanged(it) /\ UNCHANGED nodeUp /\ r # item.range
    BY <1>3 DEF SetRange
  <2> HIDE DEF it
  <2>3. With(it) \in State /\ With(it).item = it /\ With(it).nodeUp = nodeUp
    BY <2>1, WithState DEF IInv
  <2>4. CASE it.declared
    <3>1. PICK s \in Cleared(With(it)) : Become(TryDeclare(s))
      BY <2>2, <2>4 DEF DescriptorChanged
    <3>2. s \in State /\ Tied(s.item) /\ ~s.item.declared /\ ~s.item.declaring /\ s.nodeUp = nodeUp
      BY <2>1, <2>3, ClearedFacts
    <3> QED BY <2>2, <3>1, <3>2, TryLeavesObstacle
  <2>5. CASE ~it.declared
    <3>1. item' = it
      BY <2>2, <2>3, <2>5 DEF DescriptorChanged, Become
    <3> QED BY <2>1, <2>2, <3>1
  <2> QED BY <2>4, <2>5
<1>4. ASSUME NEW t \in Choices, SetType(t) PROVE ~Lacking'
  <2> DEFINE it == [item EXCEPT !.type = t]
  <2>1. it \in Items /\ it.declared = item.declared /\ it.boundTo = item.boundTo /\ it.moved = item.moved
        /\ it.name = item.name /\ it.resolvedType = item.resolvedType /\ ~it.declaring
    BY <1>a, <1>4 DEF Items, SetType, Change, Free
  <2>2. /\ IF it.declared THEN \E s \in Cleared(With(it)) : Become(TryDeclare(s))
                          ELSE Become(TryDeclare(With(it)))
        /\ UNCHANGED nodeUp
    BY <1>4 DEF SetType
  <2> HIDE DEF it
  <2>3. With(it) \in State /\ With(it).item = it /\ With(it).nodeUp = nodeUp
    BY <2>1, WithState DEF IInv
  <2>4. Tied(it)
    BY <1>a, <2>1 DEF Tied
  <2>5. CASE it.declared
    <3>1. PICK s \in Cleared(With(it)) : Become(TryDeclare(s))
      BY <2>2, <2>5
    <3>2. s \in State /\ Tied(s.item) /\ ~s.item.declared /\ ~s.item.declaring /\ s.nodeUp = nodeUp
      BY <2>1, <2>3, ClearedFacts
    <3> QED BY <2>2, <3>1, <3>2, TryLeavesObstacle
  <2>6. CASE ~it.declared
    BY <2>1, <2>2, <2>3, <2>4, <2>6, TryLeavesObstacle
  <2> QED BY <2>5, <2>6
<1>5. ASSUME NEW name \in Names \union {None}, SetName(name) PROVE ~Lacking'
  <2>1. PICK s \in IF item.declared THEN Cleared(Now) ELSE {Now} :
          Become(TryDeclare([s EXCEPT !.item.name = name]))
    BY <1>5 DEF SetName
  <2>2. s \in State /\ Tied(s.item) /\ ~s.item.declared /\ ~s.item.declaring /\ s.nodeUp = nodeUp
    <3>f. ~item.declaring
      BY <1>5 DEF SetName, Change, Free
    <3>1. CASE item.declared
      BY <1>b, <2>1, <3>f, <3>1, ClearedFacts DEF Now
    <3>2. CASE ~item.declared
      BY <1>a, <1>b, <2>1, <3>f, <3>2 DEF Now
    <3> QED BY <3>1, <3>2
  <2> DEFINE t == [s EXCEPT !.item.name = name]
  <2>3. s.item \in Items /\ s.store \in Stores /\ s.nodeUp \subseteq Nodes
    BY <2>2 DEF State
  <2>4. t = [item |-> [s.item EXCEPT !.name = name], store |-> s.store, nodeUp |-> s.nodeUp]
    BY <2>2 DEF State
  <2>5. [s.item EXCEPT !.name = name] \in Items
    BY <2>3 DEF Items
  <2>6. t \in State /\ t.nodeUp = nodeUp
    BY <2>2, <2>3, <2>4, <2>5 DEF State
  <2>7. Tied(t.item) /\ ~t.item.declared /\ ~t.item.declaring
    BY <2>2, <2>3, <2>4 DEF Items, Tied
  <2>8. Become(TryDeclare(t)) /\ nodeUp' = nodeUp
    BY <1>5, <2>1 DEF SetName
  <2> HIDE DEF t
  <2> QED BY <2>6, <2>7, <2>8, TryLeavesObstacle
<1>6. ASSUME NEW n \in Nodes \union {None}, SetNode(n) PROVE ~Lacking'
  <2> DEFINE it == [item EXCEPT !.node = n, !.moved = item.declared]
  <2>1. /\ it \in Items /\ it.declared = item.declared /\ it.moved = item.declared
        /\ it.boundTo = item.boundTo /\ it.name = item.name /\ it.resolvedType = item.resolvedType
        /\ ~it.declaring
    BY <1>a, <1>6 DEF Items, SetNode, Change, Free
  <2>2. Tied(it)
    BY <1>a, <2>1 DEF Tied
  <2>3. Become(TryDeclare(With(it))) /\ UNCHANGED nodeUp
    BY <1>6 DEF SetNode
  <2> HIDE DEF it
  <2>4. With(it) \in State /\ With(it).item = it /\ With(it).nodeUp = nodeUp
    BY <2>1, WithState DEF IInv
  <2>5. CASE item.declared
    <3>1. TryDeclare(With(it)) = With(it)
      BY <2>1, <2>4, <2>5 DEF TryDeclare
    <3>2. item'.moved
      BY <2>1, <2>3, <2>4, <2>5, <3>1 DEF Become
    <3> QED BY <3>2
  <2>6. CASE ~item.declared
    BY <2>1, <2>2, <2>3, <2>4, <2>6, TryLeavesObstacle
  <2> QED BY <2>5, <2>6
<1>7. ASSUME NEW v \in Writes, SetValue(v) PROVE ~Lacking'
  <2>1. CASE item.declared /\ item.node \in nodeUp
    <3>1. item'.moved = item.moved /\ item'.node = item.node /\ item'.name = item.name
      <4>1. \/ item' = item
            \/ \E w : item' = [item EXCEPT !.value = w]
        BY <1>7, <2>1 DEF SetValue, WriteDeclared
      <4> QED BY <1>a, <4>1 DEF Items
    <3>2. PlaceOf(item') = PlaceOf(item) /\ ~item.moved
      BY <3>1 DEF PlaceOf
    <3>3. store[PlaceOf(item)] # None /\ PlaceOf(item) \in Places
      BY <1>a, <2>1, <3>2 DEF IInv, Typed, Served, Present, PlaceOf, Places, Items
    <3>4. store'[PlaceOf(item)] # None
      <4> DEFINE new == ToParameterValue(v, item.resolvedType)
      <4>1. CASE store' = store
        BY <3>3, <4>1
      <4>2. CASE store' = [store EXCEPT ![PlaceOf(item)].value = new] /\ new # Invalid
        <5>1. store[PlaceOf(item)] \in Cells
          BY <1>a, <3>3 DEF Stores
        <5>2. v \in Variants /\ item.resolvedType \in Types
          BY <1>a, <2>1, WritesAssumption DEF Tied
        <5>3. new \in StoredVariants
          BY <4>2, <5>2, ConversionType
        <5> HIDE DEF new
        <5>4. [store[PlaceOf(item)] EXCEPT !.value = new] \in Cells
          BY <5>1, <5>3 DEF Cells
        <5>5. store'[PlaceOf(item)] \in Cells
          BY <1>a, <3>3, <4>2, <5>4 DEF Stores
        <5> QED BY <5>5, NoneAssumption
      <4>3. store' = store \/ (store' = [store EXCEPT ![PlaceOf(item)].value = new] /\ new # Invalid)
        BY <1>7, <2>1 DEF SetValue, WriteDeclared
      <4> QED BY <4>1, <4>2, <4>3
    <3> QED BY <3>2, <3>4 DEF Lacking
  <2>2. CASE ~(item.declared /\ item.node \in nodeUp)
    <3>1. StoreUndeclared(v) /\ UNCHANGED nodeUp
      BY <1>7, <2>2 DEF SetValue
    <3>2. CASE Same(v, item.value)
      <4>1. item' = item /\ store' = store
        BY <1>b, <3>1, <3>2 DEF StoreUndeclared, Become, Now
      <4> QED BY <3>1, <4>1 DEF Lacking
    <3>3. CASE ~Same(v, item.value)
      <4> DEFINE it == [item EXCEPT !.value = v]
      <4>1. it \in Items /\ Tied(it) /\ it.declared = item.declared /\ ~it.declaring
            /\ it.moved = item.moved
        BY <1>7, WithValue, WritesAssumption DEF SetValue, Free
      <4>2. Become(TryDeclare(With(it)))
        BY <3>1, <3>3 DEF StoreUndeclared
      <4> HIDE DEF it
      <4>3. With(it) \in State /\ With(it).item = it /\ With(it).nodeUp = nodeUp
        BY <4>1, WithState DEF IInv
      <4>4. ~item.declared
        <5>1. CASE item.declared
          <6>1. item' = it
            BY <4>1, <4>2, <4>3, <5>1 DEF TryDeclare, Become
          <6>2. item.moved
            BY <2>2, <5>1 DEF IInv, Served, Present
          <6> QED BY <4>1, <6>1, <6>2
        <5> QED BY <5>1
      <4> QED BY <3>1, <4>1, <4>2, <4>3, <4>4, TryLeavesObstacle
    <3> QED BY <3>2, <3>3
  <2> QED BY <2>1, <2>2
<1>8. ASSUME NEW n \in Nodes, NodeUp(n) PROVE ~Lacking'
  <2> DEFINE s == [Now EXCEPT !.nodeUp = nodeUp']
  <2>1. nodeUp' = nodeUp \union {n} /\ Become(IF item.node = n THEN TryDeclare(s) ELSE s)
    BY <1>8 DEF NodeUp
  <2>2. s = [item |-> item, store |-> store, nodeUp |-> nodeUp']
    BY DEF Now, With
  <2>3. s \in State /\ s.item = item /\ s.store = store /\ s.nodeUp = nodeUp'
    BY <2>1, <2>2 DEF State, IInv, Typed
  <2> HIDE DEF s
  <2>4. CASE item.node = n
    <3>1. ~item.declaring /\ item.node \notin nodeUp
      BY <1>8, <2>4 DEF NodeUp, Free
    <3>2. CASE item.declared
      <4>1. item' = item
        BY <2>1, <2>3, <2>4, <3>2 DEF TryDeclare, Become
      <4>2. item.moved
        BY <3>1, <3>2 DEF IInv, Served, Present
      <4> QED BY <4>1, <4>2
    <3>3. CASE ~item.declared
      BY <1>a, <2>1, <2>3, <2>4, <3>1, <3>3, TryLeavesObstacle
    <3> QED BY <3>2, <3>3
  <2>5. CASE item.node # n
    <3>1. item' = item /\ store' = store
      BY <2>1, <2>3, <2>5 DEF Become
    <3> QED BY <2>1, <2>5, <3>1 DEF Lacking
  <2> QED BY <2>4, <2>5
<1>9. ASSUME NEW n \in Nodes, NodeDown(n) PROVE ~Lacking'
  <2>1. PICK s \in ShutDown(n) :
          /\ item' = s.item
          /\ store' = [p \in Places |-> IF p[1] = n THEN None ELSE s.store[p]]
    BY <1>9 DEF NodeDown
  <2>2. nodeUp' = nodeUp \ {n}
    BY <1>9 DEF NodeDown
  <2>3. CASE item.node = n
    <3>1. s \in Cleared(With(item))
      BY <2>1, <2>3 DEF ShutDown, Now
    <3>2. s.item = [item EXCEPT !.boundTo = None, !.declared = FALSE,
                                !.resolvedType = "NotSet", !.moved = FALSE]
      <4>1. ~item.declaring
        BY <1>9 DEF NodeDown, Change, Free
      <4> QED BY <1>b, <3>1, <4>1, ClearedFacts
    <3>3. item'.node = n
      BY <1>a, <2>1, <2>3, <3>2 DEF Items
    <3> QED BY <2>2, <3>3 DEF Lacking
  <2>4. CASE item.node # n
    <3>1. item' = item /\ \A p \in Places : p[1] # n => store'[p] = store[p]
      BY <1>b, <2>1, <2>4 DEF ShutDown, Now
    <3>2. PlaceOf(item)[1] # n
      BY <2>4 DEF PlaceOf
    <3>3. item.node \in nodeUp /\ item.name # None => PlaceOf(item) \in Places
      BY <1>a DEF PlaceOf, Places, Items, IInv, Typed
    <3>4. Lacking' => PlaceOf(item) \in Places /\ store'[PlaceOf(item)] = None
      BY <2>2, <3>1, <3>3 DEF Lacking
    <3>5. Lacking' => store[PlaceOf(item)] = None
      BY <3>1, <3>2, <3>4
    <3> QED BY <2>2, <3>1, <3>5 DEF Lacking
  <2> QED BY <2>3, <2>4
<1>10. ASSUME NEW p \in Places, NEW v \in Writes, ExternalSet(p, v) PROVE ~Lacking'
  <2> DEFINE after == [store[p] EXCEPT !.value = v]
  <2>1. /\ store[p] # None /\ store' = [store EXCEPT ![p] = after]
        /\ UNCHANGED <<item, nodeUp>>
    BY <1>10 DEF ExternalSet
  <2> HIDE DEF after
  <2>2. store'[PlaceOf(item)] = None => PlaceOf(item) # p \/ after = None
    BY <1>a, <2>1 DEF Stores
  <2>3. after # None
    <3>1. store[p] \in Cells
      BY <1>a, <2>1 DEF Stores
    <3>2. v \in StoredVariants
      <4>1. store[p].type \in Types /\ v \in Variants
        BY <3>1, WritesAssumption DEF Cells
      <4> QED BY <1>10, <4>1, ConversionType DEF ExternalSet
    <3>3. after \in Cells
      BY <3>1, <3>2 DEF after, Cells
    <3> QED BY <3>3, NoneAssumption
  <2>4. store'[PlaceOf(item)] = None => store[PlaceOf(item)] = None
    BY <1>a, <2>1, <2>2, <2>3 DEF Stores
  <2> QED BY <2>1, <2>4 DEF Lacking
<1>11. CASE HandleExternalSet
  <2>1. guiQueue # <<>> /\ guiQueue' = Tail(guiQueue)
    BY <1>11 DEF HandleExternalSet
  <2>2. Len(Tail(guiQueue)) # Len(guiQueue)
    BY <1>a, <2>1
  <2> QED BY <2>1, <2>2
<1> QED BY <1>0, <1>1, <1>2, <1>3, <1>4, <1>5, <1>6, <1>7, <1>8, <1>9, <1>10, <1>11 DEF Next

\* Whichever setter or node event takes the last obstacle away declares the
\* parameter in the same step, except for an item declared on a node it left.
THEOREM DeclarationCorrect == Spec => DeclaredAtOnce
<1>1. IInv /\ [Next]_vars =>
        [~Lacking /\ Lacking' /\ item.range = item'.range /\ guiQueue = guiQueue'
           => item'.moved]_vars
  BY DeclaredAtOnceStep
<1> QED BY <1>1, Invariance, PTL DEF Spec, DeclaredAtOnce
=============================================================================
