----------------------------- MODULE Parameter -----------------------------
(***************************************************************************)
(* core/qros2parameter.cpp: a QML value declared as a parameter of a node, *)
(* with the parameter store that rclcpp keeps for each node.               *)
(*                                                                         *)
(* GUI thread: the setters, node start-up and shutdown, and the posted     *)
(* handleExternalSet() calls.  Executor thread: set_parameters requests of *)
(* other nodes, which change the store under rclcpp's own lock and post.   *)
(***************************************************************************)
EXTENDS ParameterValues, FiniteSets

CONSTANTS
  Nodes, Names,    \* the nodes of the process and the names the item is given
  None,            \* no node, an empty name, an absent cell of a store
  Choices,         \* the values of the type property: types, or "Auto"
  Ranges,          \* sets of numbers minimum, maximum and step may describe
  AnyNumber,       \* the range of an item without minimum and maximum
  Writes,          \* the values the application and other nodes write
  UndeclareFails,  \* TRUE when rclcpp may refuse to undeclare a parameter
  MaxWrites,       \* bound: application writes to value
  MaxChanges,      \* bound: changes of the other properties and node shutdowns
  MaxExternal      \* bound: sets by other nodes

Places == Nodes \X Names

\* What rclcpp keeps of a declared parameter.
Cells == [type : Types, value : StoredVariants, readOnly : BOOLEAN, range : Ranges]

\* None is none of the things it stands in for.
ASSUME NoneAssumption == None \notin Nodes \union Names \union Places \union Cells
ASSUME ChoicesAssumption == Choices \subseteq Types \union {"Auto"}
ASSUME RangesAssumption == AnyNumber \in Ranges
ASSUME WritesAssumption == Writes \subseteq Variants

VARIABLES
  item,       \* the m_ fields of the Parameter; boundTo: where m_postSetHandle is
              \* registered; declaring: tryDeclare() has declared the parameter and
              \* not yet registered that callback; moved: setNode() was called on
              \* it while declared
  store,      \* what rclcpp holds for each node and name
  nodeUp,     \* the nodes that run
  guiQueue,   \* posted handleExternalSet() calls, oldest first
  aborted,    \* set_parameter threw out of setValue()
  overtaken,  \* a posted call is older than the last own set or declaration
  missed,     \* the last set by another node came while nothing was registered
  writes, changes, external     \* counters behind the bounds

boundVars == <<writes, changes, external>>
vars == <<item, store, nodeUp, guiQueue, aborted, overtaken, missed, boundVars>>

Init ==
  /\ item \in [name : Names \union {None}, type : Choices, value : {Invalid},
               readOnly : BOOLEAN, range : Ranges, node : {None},
               declaring : {FALSE}, declared : {FALSE}, resolvedType : {"NotSet"},
               boundTo : {None}, moved : {FALSE}]
  /\ store = [p \in Places |-> None]
  /\ nodeUp = {}
  /\ guiQueue = <<>> /\ aborted = FALSE /\ overtaken = FALSE /\ missed = FALSE
  /\ writes = 0 /\ changes = 0 /\ external = 0

-----------------------------------------------------------------------------
(* Declaring and undeclaring, as functions of a state s = [item, store,    *)
(* nodeUp].                                                                *)

PlaceOf(it) == <<it.node, it.name>>

\* rclcpp enforces ranges for the numeric types only.
InRange(range, type, v) ==
  type \in {"Integer", "Double"} /\ range # AnyNumber => v.num \in range

\* zeroVariant(); the empty text is no numeral.
ZeroVariant(type) ==
  CASE type \in Numeric -> Scalar(type, 0)
    [] type \in {"String", "ByteArray"} -> Scalar(type, NotANumber)
    [] OTHER -> ListOf(<<>>)

ResolveType(it) == IF it.type = "Auto" THEN InferType(it.value) ELSE it.type

\* A plausible slip: an item without a convertible value gets no default.
RawInitialValue(it, type) == ToParameterValue(it.value, type)

\* What tryDeclare() declares the parameter with.
InitialValue(it, type) ==
  LET v == ToParameterValue(it.value, type) IN
    IF v = Invalid THEN ZeroVariant(type) ELSE v

\* tryDeclare() up to declare_parameter, which throws when the name is taken or
\* the value is outside the range, and then nothing is declared.
TryDeclare(s) ==
  LET it == s.item
      type == ResolveType(it)
      v == InitialValue(it, type) IN
    IF \/ it.declared \/ it.node \notin s.nodeUp \/ it.name = None
       \/ type = "NotSet"
       \/ s.store[PlaceOf(it)] # None
       \/ ~InRange(it.range, type, v)
      THEN s
      ELSE [nodeUp |-> s.nodeUp,
            store |-> [s.store EXCEPT ![PlaceOf(it)] =
                         [type |-> type, value |-> v,
                          readOnly |-> it.readOnly, range |-> it.range]],
            item |-> [it EXCEPT !.declaring = TRUE,
                                !.resolvedType = type,
                                !.value = IF Same(v, @) THEN @ ELSE v]]

\* Whether undeclare_parameter() gets to erase the cell; it throws for a
\* read-only one.
Erasures(cell) ==
  IF cell = None THEN {TRUE}
  ELSE IF cell.readOnly THEN {FALSE}
  ELSE IF UndeclareFails THEN BOOLEAN ELSE {TRUE}

\* The results clearConnection() may have.
Cleared(s) ==
  LET it == s.item
      place == PlaceOf(it)
      forgotten == [it EXCEPT !.boundTo = None, !.declared = FALSE,
                              !.resolvedType = "NotSet", !.moved = FALSE] IN
    IF it.declared /\ it.node \in s.nodeUp /\ ~it.readOnly
      THEN {IF erased THEN [s EXCEPT !.item = forgotten, !.store[place] = None]
                      ELSE [s EXCEPT !.item = forgotten]
              : erased \in Erasures(s.store[place])}
      ELSE {[s EXCEPT !.item = forgotten]}

\* The step ends in state s.  What was missed before a declaration is history.
Become(s) ==
  /\ item' = s.item
  /\ store' = s.store
  /\ overtaken' = overtaken
  /\ missed' = (missed /\ ~s.item.declaring)

With(it) == [item |-> it, store |-> store, nodeUp |-> nodeUp]
Now == With(item)

\* The GUI thread is between two calls.
Free == ~aborted /\ ~item.declaring

\* tryDeclare() from declare_parameter on: only now is the post-set callback
\* registered.  What is posted is older than the declaration.
FinishDeclare ==
  /\ item.declaring
  /\ item' = [item EXCEPT !.declaring = FALSE, !.declared = TRUE, !.boundTo = PlaceOf(item)]
  /\ overtaken' = (guiQueue # <<>>)
  /\ UNCHANGED <<store, nodeUp, guiQueue, aborted, missed, boundVars>>

-----------------------------------------------------------------------------
(* The setters.                                                            *)

Change == Free /\ changes < MaxChanges /\ changes' = changes + 1

\* A plausible slip: the descriptor of a declared parameter is left alone.
ForgetDescriptor(it) == Become(With(it))

\* descriptorChanged(), after the property changed in `it`.
DescriptorChanged(it) ==
  IF it.declared
    THEN \E s \in Cleared(With(it)) : Become(TryDeclare(s))
    ELSE Become(With(it))

SetReadOnly ==
  /\ Change
  /\ DescriptorChanged([item EXCEPT !.readOnly = ~@])
  /\ UNCHANGED <<nodeUp, guiQueue, aborted, writes, external>>

\* setDescription(): no property shows the text, but the item is redeclared.
SetDescription ==
  /\ Change
  /\ DescriptorChanged(item)
  /\ UNCHANGED <<nodeUp, guiQueue, aborted, writes, external>>

\* setMinimum(), setMaximum() and setStep()
SetRange(range) ==
  /\ Change
  /\ range # item.range
  /\ DescriptorChanged([item EXCEPT !.range = range])
  /\ UNCHANGED <<nodeUp, guiQueue, aborted, writes, external>>

SetType(type) ==
  /\ Change
  /\ type # item.type
  /\ LET it == [item EXCEPT !.type = type] IN
       IF it.declared
         THEN \E s \in Cleared(With(it)) : Become(TryDeclare(s))
         ELSE Become(TryDeclare(With(it)))
  /\ UNCHANGED <<nodeUp, guiQueue, aborted, writes, external>>

\* setName(): undeclared under the old name, declared under the new one.
SetName(name) ==
  /\ Change
  /\ name # item.name
  /\ \E s \in IF item.declared THEN Cleared(Now) ELSE {Now} :
       Become(TryDeclare([s EXCEPT !.item.name = name]))
  /\ UNCHANGED <<nodeUp, guiQueue, aborted, writes, external>>

\* setNode(): nothing is undeclared on the node that is left.
SetNode(n) ==
  /\ Change
  /\ n # item.node
  /\ Become(TryDeclare(With([item EXCEPT !.node = n, !.moved = item.declared])))
  /\ UNCHANGED <<nodeUp, guiQueue, aborted, writes, external>>

\* The cell that answers a set_parameter of the item, as setValue() sees it.
Accepts(cell, type, v) ==
  ~cell.readOnly /\ cell.type = type /\ InRange(cell.range, type, v)

\* A plausible slip: a rejected value stays in the property.
RestoreNothing(v, actual) == v

\* A rejected write: m_value goes back to the actual value.
Restore(v, actual) == IF Same(actual, v) THEN v ELSE actual

\* setValue() of a declared item.  set_parameter runs on the GUI thread, where
\* the item's own post-set callback ignores it; it throws if the node does not
\* know the parameter.
WriteDeclared(v) ==
  LET new == ToParameterValue(v, item.resolvedType)
      cell == store[PlaceOf(item)] IN
    IF new = Invalid \/ Same(new, item.value)
      THEN UNCHANGED <<item, store, aborted, overtaken, missed>>
      ELSE \/ /\ cell = None
              /\ aborted' = TRUE
              /\ item' = [item EXCEPT !.value = new]
              /\ UNCHANGED <<store, overtaken, missed>>
           \/ /\ cell # None
              /\ Accepts(cell, item.resolvedType, new)
              /\ item' = [item EXCEPT !.value = new]
              /\ store' = [store EXCEPT ![PlaceOf(item)].value = new]
              /\ overtaken' = (guiQueue # <<>>) /\ missed' = FALSE
              /\ UNCHANGED aborted
           \/ /\ cell # None
              /\ ~Accepts(cell, item.resolvedType, new)
              /\ item' = [item EXCEPT !.value = Restore(new, cell.value)]
              /\ overtaken' = (overtaken /\ guiQueue # <<>>) /\ missed' = FALSE
              /\ UNCHANGED <<store, aborted>>

\* A plausible slip: a value written before the declaration is only stored.
StoreOnly(v) == Become(With([item EXCEPT !.value = v]))

\* setValue() of an item that is not declared, or has lost its node.
StoreUndeclared(v) ==
  IF Same(v, item.value)
    THEN Become(Now)
    ELSE Become(TryDeclare(With([item EXCEPT !.value = v])))

SetValue(v) ==
  /\ Free
  /\ writes < MaxWrites
  /\ writes' = writes + 1
  /\ nodeUp' = nodeUp
  /\ IF item.declared /\ item.node \in nodeUp
       THEN WriteDeclared(v)
       ELSE StoreUndeclared(v) /\ UNCHANGED aborted
  /\ UNCHANGED <<guiQueue, changes, external>>

-----------------------------------------------------------------------------
(* The nodes.                                                              *)

\* setupConnection() once a node runs, with the empty store it starts with.
NodeUp(n) ==
  /\ Free
  /\ n \notin nodeUp
  /\ nodeUp' = nodeUp \union {n}
  /\ LET s == [Now EXCEPT !.nodeUp = nodeUp'] IN
       Become(IF item.node = n THEN TryDeclare(s) ELSE s)
  /\ UNCHANGED <<guiQueue, aborted, boundVars>>

ShutDown(n) == IF item.node = n THEN Cleared(Now) ELSE {Now}

\* shutdownNode(): clearConnection() of its items, then the node is destroyed,
\* with any callback registered on it.
NodeDown(n) ==
  /\ Change
  /\ n \in nodeUp
  /\ nodeUp' = nodeUp \ {n}
  /\ \E s \in ShutDown(n) :
       /\ item' = s.item
       /\ store' = [p \in Places |-> IF p[1] = n THEN None ELSE s.store[p]]
  /\ UNCHANGED <<guiQueue, aborted, overtaken, missed, writes, external>>

-----------------------------------------------------------------------------
(* Other nodes and the event loop.                                         *)

\* The post-set callback posts what it sees at the place it was registered for.
PostExternal(place, v) ==
  IF item.boundTo = place THEN Append(guiQueue, v) ELSE guiQueue

\* A set_parameters request that the store accepts, on the executor thread,
\* also while the GUI thread is inside tryDeclare(); a parameter with a type is
\* never set to NOT_SET.
ExternalSet(place, v) ==
  /\ external < MaxExternal
  /\ store[place] # None /\ v # Invalid
  /\ Accepts(store[place], store[place].type, v)
  /\ ToParameterValue(v, store[place].type) = v
  /\ external' = external + 1
  /\ store' = [store EXCEPT ![place].value = v]
  /\ guiQueue' = PostExternal(place, v)
  /\ overtaken' = (overtaken /\ item.boundTo # place)
  /\ missed' = IF item.boundTo = place THEN FALSE
               ELSE missed \/ (item.declaring /\ place = PlaceOf(item))
  /\ UNCHANGED <<item, nodeUp, aborted, writes, changes>>

\* What handleExternalSet() leaves in m_value.
ExternalValue(v) == IF Same(v, item.value) THEN item.value ELSE v

HandleExternalSet ==
  /\ Free
  /\ guiQueue # <<>>
  /\ guiQueue' = Tail(guiQueue)
  /\ item' = [item EXCEPT !.value = ExternalValue(Head(guiQueue))]
  /\ UNCHANGED <<store, nodeUp, aborted, overtaken, missed, boundVars>>

-----------------------------------------------------------------------------
Next ==
  \/ FinishDeclare
  \/ SetDescription
  \/ SetReadOnly
  \/ \E r \in Ranges : SetRange(r)
  \/ \E t \in Choices : SetType(t)
  \/ \E name \in Names \union {None} : SetName(name)
  \/ \E n \in Nodes \union {None} : SetNode(n)
  \/ \E v \in Writes : SetValue(v)
  \/ \E n \in Nodes : NodeUp(n)
  \/ \E n \in Nodes : NodeDown(n)
  \/ \E p \in Places, v \in Writes : ExternalSet(p, v)
  \/ HandleExternalSet

Spec == Init /\ [][Next]_vars

-----------------------------------------------------------------------------
(* Properties.                                                             *)

TypeOK ==
  /\ item \in [name : Names \union {None}, type : Choices, value : Variants,
               readOnly : BOOLEAN, range : Ranges, node : Nodes \union {None},
               declaring : BOOLEAN, declared : BOOLEAN, resolvedType : Types \union {"NotSet"},
               boundTo : Places \union {None},
               moved : BOOLEAN]
  /\ store \in [Places -> Cells \union {None}]
  /\ nodeUp \subseteq Nodes
  /\ guiQueue \in Seq(Variants)
  /\ aborted \in BOOLEAN /\ overtaken \in BOOLEAN /\ missed \in BOOLEAN

Attached == item.declared /\ ~item.moved

\* Once the event loop has drained, value is the value rclcpp holds, whoever
\* wrote last and whether or not the write was rejected.  Two races escape: an
\* external set still posted when the item itself wrote or was declared, and
\* one that fell between declare_parameter and the registration.
ValueSettles ==
  Attached /\ guiQueue = <<>> /\ ~overtaken /\ ~missed =>
    /\ store[item.boundTo] # None
    /\ Same(item.value, store[item.boundTo].value)

\* The node serves the parameter with the type, read-only flag and range that
\* the item shows, also after any of them was changed on a declared item.
DescriptorInForce ==
  Attached =>
    LET cell == store[item.boundTo] IN
      /\ cell # None
      /\ cell.type = item.resolvedType
      /\ cell.readOnly = item.readOnly
      /\ cell.range = item.range

\* The node runs and could have the parameter, and it has none of that name.
Lacking ==
  /\ item.node \in nodeUp /\ item.name # None
  /\ ResolveType(item) # "NotSet"
  /\ InRange(item.range, ResolveType(item), InitialValue(item, ResolveType(item)))
  /\ store[PlaceOf(item)] = None

\* Whichever setter or node event takes away the last obstacle also declares
\* the parameter on the node, in the same step.  The range and a late external
\* value do not; nor does a move of a declared item to another running node,
\* whose declared flag is that of the node it left.
DeclaredAtOnce ==
  [][~Lacking /\ Lacking' /\ item.range = item'.range /\ guiQueue = guiQueue'
       => item'.moved]_vars
=============================================================================
