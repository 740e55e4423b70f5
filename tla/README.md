# Formal models of QtROS

TLA+ specifications of QtROS, the Qt Quick bindings for ROS 2: at run time, the
C++ classes of `src/src/core` and the per-interface classes that
`src/src/rosidl_generator_qtros2/resource/*.em` expand to; at build time, the
code generator in Python and CMake that expands them and the exporter that turns
a URDF robot into QML. TLC checks small instances of every model; TLAPS proves what matters most for all values of the
constants. Paths below are relative to the repository, whose top directory is
written `src/`.

## 1. The system

A QML scene declares a `Node` with child elements. A process has

* **the GUI thread**, with one FIFO of posted events for all objects that live
  in it. Property setters, posted lambdas and timers run here, one at a time.
* **executor threads** owned by `Context`, which run the callbacks of
  subscriptions, services and actions. The callbacks of one node exclude each
  other (one default callback group), but nothing orders a callback of one
  subscription or client after one of another. QtROS callbacks only copy and
  post to the GUI thread.
* **the middleware and the other nodes**, which lose samples, disappear, come
  back, answer late or not at all. Whether a peer is there is polled by the
  node's 100 ms health timer (`checkHealth()` of every entity), so what an
  element believes is always a little old.

| Component | State | Operations | What makes it correct |
|---|---|---|---|
| `Context` | initialised once, executor, spin thread | `init`, destructor | initialised before the first node; joined at exit |
| `Node` | rclcpp node, entity list, timers, network signature | `initializeNode`, `shutdownNode`, `registerEntity`, `unregisterEntity`, health tick, network tick | an initialised node has set up every entity, also after a failure half way |
| `Entity`, `NodeChild` | node, topic, QoS | `setNode`, `setTopic`, `setQos` | the connection always belongs to the current node, topic and QoS |
| Service client | request, dirty, autoCall, scheduled, ready, pending, response | setters, queued attempt, response callback, health tick, connect, disconnect | no lost wake-up; one call at a time; latest request wins; it is dispatched eventually |
| `RemoteParameter` | value, dirty, autoApply, pending, ready, reported | setters, `apply`, `refresh`, queued attempt, service answers, events, health tick, reconnect | the remote value converges to the desired one; `reported` follows the remote value |
| `Parameter` | value, type, descriptor, declared | setters, `tryDeclare`, `clearConnection`, own set, external set | item and node agree on value, descriptor and declaration once events have drained |
| Publisher | stored message, pending, interval, subscriber count | setters, `publish`, queued publish, heartbeat, connect | no update is lost, a latched writer keeps the latest state |
| Subscriber | connected, message | callback, queued `handleMessage`, health tick, connect | every message is delivered in order; `connected` describes the current subscription |
| Service server | handler, active, reply objects | `dispatchRequest`, `ServiceReply::send`, default reply | each request is answered at most once, also when deferred |
| Action client | state, goal handle, feedback | `sendGoal`, goal/feedback/result callbacks, `cancelGoal` | the state is that of the newest goal; an ended goal changes nothing |
| Action server | goal handles by id | accept, cancel, `succeed`/`abort`/`canceled`, connect | one terminal state per goal; cancel requests reach their goal |
| `TransformBuffer`, `FrameNode` | tf buffer, coalesced notification, validity | ingest, notify, lookup | the last update is always announced; `valid` tells the truth |
| `JsFutureWrapper` | promise, watcher | resolve, reject | settled exactly once |
| Code generator | IDL files, stamp, generated files, manifest, the packages linked | the analysis of dependencies, the configure check, a run: reading a file, rendering an artifact, manifest; comments to qdoc | a configure that succeeds has read the present files; what it hands to the build is whole, its includes are found and no field or comment is lost, but for gaps that are named |
| URDF exporter | the output directory: modules, files, manifest; the environment while xacro runs | xacro, parse, convert or discover meshes, write, report; edits between runs | the user's files survive; the environment is restored; what a good run refers to and names is there, but for cases that are named; every link is shown once |
| URDF viewer | a window and a process | starts the exporter, shows its preview | nothing the exporter does not decide |

The elements interact through the node (start, shutdown, health tick), through
the GUI event queue, and, across processes, through topics and services. The
generator and the exporter meet the rest through files only: both leave a
directory and a manifest that a CMake function or macro reads.

What is hard here: wake-ups that several setters have to remember; flags that
mirror the event queue; state read when a call is posted and used when it runs;
answers that cross a reconnection; readiness that is up to 100 ms old; two
readers of the same fact (an answer and an event) that overtake each other;
`undeclare` and `declare` as two steps of which the second may fail; at build
time, one step of many failing, a run cut short, and files that earlier runs left
behind or that change while a run reads them.
`PROJECT.json` lists the hazards one by one, at their lines.

## 2. The modules

| Module | Models | Extends |
|---|---|---|
| `LatestWins` | the abstract coalescing writer | |
| `ServiceClient` | `core/qros2serviceclientbase.cpp`, `resource/srv__client.cpp.em` | implements `LatestWins` |
| `ServiceClientProofs` | proofs about it | `ServiceClient`, `TLAPS` |
| `RemoteParameter` | `core/qros2remoteparameter.cpp` | implements `LatestWins` |
| `RemoteParameterProofs` | proofs about it | `RemoteParameter`, `TLAPS` |
| `ParameterValues` | `core/qros2parametervalue_p.h`, as pure operators | |
| `Parameter` | `core/qros2parameter.cpp` with rclcpp's parameter store | `ParameterValues` |
| `ParameterProofs` | proofs about it | `Parameter`, `TLAPS` |
| `Topic` | `core/qros2publisherbase.cpp`, `resource/msg__publisher.cpp.em`, `resource/msg__subscriber.cpp.em` | |
| `TopicProofs` | proofs about it | `Topic`, `SequenceTheorems`, `TLAPS` |
| `GoalLifecycle` | the abstract life cycle of an action's goals | |
| `ActionWire` | rclcpp_action's goals, services and feedback topic (external) | |
| `ActionClient` | `resource/action__client.cpp.em`, `core/qros2actionclientbase.cpp` | `ActionWire` |
| `ActionServer` | `resource/action__server.cpp.em`, `core/qros2actionserverbase.cpp` | `ActionWire` |
| `Action` | client and server composed | both; implements `GoalLifecycle` |
| `ActionProofs` | proofs about it | `Action`, `SequenceTheorems`, `TLAPS` |
| `FieldTypes` | the Qt types, conversions and includes of a message, as pure operators: `template_helpers.py` and the template of the value type | |
| `Generator` | configure and run: `rosidl_generator_qtros2/__init__.py`, `__main__.py`, `dependency_analyzer.py`, the CMake function | `FieldTypes` |
| `GeneratorProofs` | proofs about it | `Generator`, `TLAPS` |
| `MsgComments` | the walk over `.msg` comments and their markup: `template_helpers.py` | |
| `MsgCommentsProofs` | proofs about it | `MsgComments`, `SequenceTheorems`, `FiniteSetTheorems`, `WellFoundedInduction`, `TLAPS` |
| `RobotModel` | the tree of links and the order of rendering, as pure operators: `urdf2quickexporter.py` | |
| `MeshSources` | mesh lookup, units and module names, as pure operators: the same | |
| `UrdfExport` | one run of the exporter after another: the same, and what `QtRos2Macros.cmake` registers | `RobotModel`, `MeshSources` |
| `UrdfExportProofs` | proofs about it | `UrdfExport`, `FiniteSetTheorems`, `WellFoundedInduction`, `TLAPS` |
| `MC*` | model values and small sets for TLC | the module of that name |

Conventions in all of them:

* A handler that runs on the GUI thread is one action, with every call it makes.
  `sequence` variables named `guiQueue` hold what is posted, oldest first; a
  `Run...`/`Handle...` action takes the head.
* A callback on the executor is one action that only appends to `guiQueue`.
* `SetupConnection`, `NodeUp`, `NodeDown` and so on are what `Node` does to its
  children. `setTopic`/`setQos` are no-ops without a running node, as in
  `qros2entity.cpp`.
* `matched` is what the graph answers when polled; `Discover`/`Match` let it
  follow the facts.
* Definitions introduced by a comment "A plausible slip" are not used by the
  specification. Each is the mutated form of the definition after it; TLC shows
  that a property fails with it in place.

### ServiceClient

`request`, `requestDirty`, `autoCall`, `attemptScheduled`, `serviceReady`,
`callPending`, `response` are the `m_` fields. `SetRequest`, `SetAutoCall`,
`CallService` are the application; `RunAttempt` is `attemptStoredCall()`
including `callServiceFuture()`; `RunCompletion` the lambda a response callback
posted; `CheckHealth`, `SetupConnection`, `ClearConnection` the node's calls;
`Respond` the response callback on the executor. `inFlight` holds the calls whose
callback may still run: replacing the client or losing the server may lose any of
them. `handed` (what the last attempt passed on) and `sent` are history variables.

The order inside `RunAttempt` matters: the dirty flag is cleared first, then the
call is refused if the client is gone while `m_serviceReady` is stale. The model
keeps that.

### RemoteParameter

The same machinery plus the remote node: two request queues answered in order,
two answer channels and one event channel that the executor drains in any order,
the remote node's death and return, changes and deletions by others, and a
target that is incomplete (empty `remoteNode` or `name`). Requests
carry `live`: once the client is replaced nobody hears the answer, but the
remote node still carries the request out. `Coerced[v, r]` is what
`attemptApply()` makes of a value `v` when `r` is reported: the type it converts to is that
of `m_reported`, which may be a late report of an earlier target. A value given up for
that sets `gaveUp`.

A remote node that comes back has the values it declares (`Declared`), whatever was set
before. `SetNode` is `setNode()` to another running node, `LeaveNode` to none or one that
does not run: `setupConnection()` returns first, so the client of the node that was left
stays, with no health timer. `refused` and `replaced` are history variables: what
the remote node last rejected, and what it held until a restart or another node changed it.

### Parameter

`item` is the record of `m_` fields, `store` is rclcpp's parameter storage for
each node and name, with the checks `set_parameter`, `declare_parameter` and
`undeclare_parameter` make. `minimum`, `maximum` and `step` are one set of
admitted numbers. `clearConnection()` and the part of `tryDeclare()` up to
`declare_parameter()` are functions on states so that the setters can chain them
(`Cleared`, `TryDeclare`). The executor sees the declared parameter before the GUI thread
has registered the post-set callback, which is the next step of the GUI thread
(`declaring`, `FinishDeclare`): between the two only other nodes act. Writing an undeclared name ends the behaviour
(`aborted`): the exception leaves a QML setter and nothing catches it.
Three history variables: `overtaken` says that a queued external set is older
than the item's own last write or declaration, `missed` that the last external set fell
between the two steps of a declaration, where nobody posts it, and `moved` that the item
left the node it is declared on, which `setNode()` does without undeclaring.

`ParameterValues` translates type inference and coercion case by case. Numbers
are counted in halves, so that rounding and integrality are visible with small
integers; a text is a text that reads as a number, or not.

### Topic

A publisher and a subscriber in two processes. `posted` counts the `publish()`
calls in the publisher's event queue: no other call reads the flag in between, so
their order does not matter. `reader` is the data reader's history
(`KEEP_LAST Depth`), `guiQueue` the posted `handleMessage()` calls. A new writer
is empty, a re-created writer may cost the reader what it has not received, a
volatile topic may lose samples (`Lose`). `requested` is a history variable: what
the application last asked the present writer to send. Timers have no duration:
the heartbeat may fire at any moment while it runs.

### Action

`ActionWire` holds what the two processes share: the state rclcpp_action keeps
for each goal (`status`), the goals each side knows (`known`, `mine`, `tracked`,
`due`) and what is on its way between them. A goal is its number in the order of
sending. `ActionClient` and `ActionServer` each add the fields of their class, a
queue of posted events and their actions; `Action` interleaves the two, which have
only the wire in common.

On the client, `TakeAnswer`, `TakeFeedback` and `TakeResult` are the callbacks on
the executor. `TakeAnswer` writes `handle` (`m_goalHandle`) itself and posts only the
state; the posted event of an answer names no goal, as in the code. The event of a
result is two actions, `RunEnd` up to `setState()` and `ResetHandle`, because
`stateChanged` handlers and the executor both run between them: an
application that sends its next goal from that handler is the normal one.
`CancelGoal` fails (`failed`, an uncaught exception, ends the behaviour) where rclcpp
throws or `m_client` is null. `promise` says only what the callbacks did with the
promise.

On the server, `AcceptCancel` and `FinishCancel` are one cancel request: the code
posts `routeCancel()` from the callback, and rclcpp changes the goal's status only
after the callback has returned. `EndGoal` and `Canceled` are what the application
calls on a `GoalHandle` (`open`, `finished`, `cancelRequested`); the code guards them
with `m_finished` only, so that whether rclcpp's rules for a goal are kept is
something to be shown. The one thing asked of the application is that it calls
`canceled()` only once it has seen `cancelRequested`; rclcpp throws otherwise. `DeclineGoal` stands for servers that are not QtROS's,
which always accepts.

`overlapped`, `accepted`, `lost` and `cut` are history variables: a goal was sent
before the last had ended, the newest goal known to be accepted, the goals whose
handle a reset took away on another goal's behalf, and the goals whose connection
was replaced.

### Generator

A configure is `ConfigureFails`, or `Analyse` followed by `SkipGeneration` or by
`StartRun ... FinishRun`. `Analyse` is a process of its own, which every configure starts
before it looks at the stamp. What it finds is what CMake links (`Linked`); a failure is a
warning and an empty list (`Analyse(FALSE)`), after which the declared dependencies built in the same
tree remain. `Ends` is the check that each package found has a wrapper,
built in the same tree (`Local`) or installed.

`idl` is what the files hold, `newer` the files whose date is later than the stamp's, so
an edit is `fresh` or carries an old date; the generator's own sources and templates are
one more such file (`Tools`, `Upgrade`). `BeginFile` reads a file for its code; `RenderArtifact`
is one turn of the loop over the templates, which survives an exception with part
of the file on disk; `Abort` is a message without a directory, an exception
nobody catches, or the process being killed. `FinishRun` writes the manifest and,
in CMake, touches the stamp: an edit made during the run is then older than the
stamp. `unseen` and `late` are history variables: which of three readers has not read the
present content of a file, and which of those edits the dates cannot show. The readers are
the analysis that decides what is linked (`links`), the one whose result named the packages
for the generator (`names`), and the rendering (`code`).

A content has a kind, the directory its path names, and its messages with the types
of their fields. An artifact is a file and a pair of role and suffix, which is also
how a header is included. `Includes` says which headers an artifact asks for and how: by
package and directory (`Angled`) or by the bare name (`Quoted`), which only the directories of
packages in the same tree can answer. The module `FieldTypes` says what becomes of a field: `Faithful` composes
the conversions the templates emit in both directions. It is a function on lists
of small lengths, so that a list too short or too long for an array or a bound is seen. An expression that does not
compile yields an element of no type: `rosidl` keeps a `wstring` in a `std::u16string`, and the
templates take it for a `std::wstring`, or a `std::string` in the default of an array.

### MsgComments

A line is its kind, a comment is its line number, so what is lost, repeated or
moved can be told. `BlankLine`, `CommentLine`, `ConstantLine`, `FieldLine` are
the branches of `_parse_msg_comments()`; `ExtractDocInfo` is the rest, one operator for
each of the Python functions it calls. `BannerStep` is the body of the loop that finds
section titles, `Wrapped` what the loop over list items appends for one line. `Overridden`
are the fields for which the generator has a text of its own, which replaces the comments
(`Documented`).

### UrdfExport

`main()` from the command line to the manifest, with `pc` for the place in it, and
`RobotModel` and `MeshSources` for what it computes. In `RobotModel` links and joints are
places in the model's lists; `Roots` is the dictionary of `build_tree()`, in which links of
one name are one node, `Nest` and `Children` are the template's `render()` of a link, and
`Nested` unfolds its recursion to as many levels as there are links. The environment
(`env`, `overlay`) is what two Python context managers change and restore; `saved` holds
the locals they restore it from, and the copy made for the command line.
`RunXacroModule` leaves one of them on its failure and both on its success.
`Convert`, `ConvertFails` and `FinishAssets` are the loop over balsam, in which
`pending` holds the places in the robot's list of meshes that are still to convert,
one for each module (`Collected`: the first mesh that needs it);
`AssetsFail` is the fallback to `Discover`. `ConvertRaises` and `FinishAssetsRaises` are what an
`OSError` leaves: it is not among the errors that fall back, and ends any run. `assets` is what the run may refer to. `WriteFile` is one file of
`WriteOrder`; `LeftAlone` are the once-only files that exist, whatever is in them. `failed` is a history
variable: the files and modules whose last writing or conversion broke off. `SceneOf` has the sources
of collision meshes in every run, the code only with `--physics`. `robot` and `meshes` may change between runs, `EditFile` makes a file
the user's own. Directory listings and walks take some fixed choice where the code
leaves the order to the file system.

## 3. What TLC checks

| Run | Question | Result |
|---|---|---|
| `service_client` | wake-ups, one call at a time, latest-wins, eventual dispatch | holds |
| `service_client_stuck` | "dispatched as soon as possible" after a lost answer | violated |
| `remote_parameter` | wake-ups, latest-wins, convergence of the remote value | holds |
| `remote_parameter_stale` | `reported` is "the value the remote node actually holds" | violated |
| `parameter` | item and store agree; descriptor in force; declared at once | holds |
| `topic` | latching, heartbeat, delivery after any restart | holds |
| `action` | each goal's life cycle, what both applications see, what late callbacks may change | holds |
| `action_observable` | a goal's status "is observable throughout" | violated |
| `msg_comments` | whose comment a line is; no line lost; balanced markup | holds |
| `generator` | fresh, whole, self-contained and faithful output after any configure that succeeds | holds |
| `urdf_export` | the user's files, the environment, references, meshes, links, reported files | holds |
| `urdf_pregenerated` | meshes "already pre-generated" are registered as resources | violated |

The passing runs take from 20 seconds to three minutes each on two workers and visit
between 160 000 and 1 500 000 states. Each violated run has an entry under "findings"
with the documented sentence and the code that contradicts it. The properties of
the passing runs say what *does* hold around those findings: for instance
`DispatchedUnlessOrphaned` shows that a lost answer is the only way to lose a
wake-up, `ValueSettles` that an external set that is overtaken or falls into a declaration
is the only way for value and store to drift apart, `EndNotForgotten` that the reset of an
earlier goal is the only way to miss the end of the newest one, and `ReferencesExist` that a
mesh the macro does not register is at least there.

Several properties hold only up to gaps of the code. Each gap is a named operator or a
disjunct of the property, as narrow as the code allows, so that nothing else can go wrong;
the next list has them all.

### Gaps and disagreements without a run

In the models as the code has them. The name in brackets is the exception that a
property makes for it.

`RemoteParameter`:

* The header says that the desired state is reconciled with the remote node
  (`qros2remoteparameter.cpp:35-42`). A set that was acknowledged is not repeated when the remote node restarts
  with its declared value: `checkHealth()` marks the value unsent only while a call is pending
  (`qros2remoteparameter.cpp:384-406`) [`Replaced`].
* A value is converted to the type last reported, and given up when that is impossible,
  also if the report belongs to an earlier target (`248-257`, `303`) [`Refused`].
* A request lost between two health checks leaves `m_pending` set for good [`Orphaned`].
* `apply()` promises to defer while the service is unavailable;
  with `autoApply` off the deferred attempt does nothing (`233`).

`Parameter`:

* An external set between `declare_parameter()` and the registration of the callback
  is accepted and never shown (`qros2parameter.cpp:360`, `381`) [`missed`].
* A queued external set overwrites the item's newer value (`405`) [`overtaken`].
* An item moved to another running node while declared is not declared there:
  `tryDeclare()` returns on `m_declared`, which is about the old node (`311`) [`moved`, in
  `DeclaredAtOnce` and `Attached`].
* After a change of `readOnly` whose redeclaration fails, `declared` is
  false while the node still has the parameter (`423`).

`Topic`: `publish()` right after a property write sends twice (`qros2publisherbase.cpp:166`).

`Generator`:

* A failed analysis is a warning; packages are then missing from the link, and from the names
  the generator was given (`analyze_idl_dependencies.cmake:71-88`) [`AnalysisLost`].
* A message of one mapped field makes the generator include a header of the mapped
  message, which is never generated (`template_helpers.py:770-776`, against
  `__init__.py:547-548`) [`Headerless`].
* A message of one field of another package's message includes that one's header by its bare name
  (`template_helpers.py:776`). It is not found when the package is installed, and it is
  the wrong one when the package itself has a message of that name [`Unqualified`].
* Code for a `wstring` does not compile (`template_helpers.py:954-971`,
  `msg__value_type.cpp.em:179`, `215`, `223`, `255`). `ConversionsFaithful` says that exactly the
  fields of that kind fail.
* An edit during a configure, or with an old date, is not noticed [`late`].
* A package is never excluded from its own dependencies: the analyser compares it
  with the name of the Qt module. The model leaves the package out.

`UrdfExport`:

* Existing assets are "already converted" meshes (`urdf2quickexporter.py:1418-1421`); the search
  takes any `.mesh` file, also what a failed balsam left (`1433-1444`) [`failed.modules`].
* `robot.qml` imports a module for every visual mesh (`1467-1475`), also when the run was told
  not to convert, has no balsam or only a warning [`Unprepared`].
* A once-only file that a failed run wrote in part is not repaired (`1684`, `1821-1831`)
  [`failed.files`].
* The generated `CMakeLists.txt` names `main.cpp` also with `--no-main-qml`, which
  does not write it, and the directory of the modules when there is none
  (`model.cmake:10`, `45-47`) [two disjuncts of `FilesWhole`].
* The collision mesh of a link keeps the scale of a metre when the unit policy finds
  another unit for the visual one (`522`), and a collision
  mesh under another spelling of the same URI gets no shape (`SourceOf`).

### Bounds

* `service_client`: two values, three writes (a write while one is in flight and
  one while the attempt for it is posted), one explicit call (to overlap a stored
  one), two resets (down and up again, or two reconnections), one outage.
* `remote_parameter`: two numbers and a text, neither of which converts to the
  other; two targets, one declared with a number and one with a text, so that a report of
  the wrong one has the wrong type; two inputs, one disturbance or one foreign change. One
  disturbance is enough for a restart after an acknowledged set.
* `parameter`: two nodes, one name, values that are integral, fractional and
  textual, types Auto, Double and IntegerList, an open range and one that excludes
  zero, two writes (one of them possibly the invalid variant, which erases the value),
  four changes, two external sets: one of them between the steps of a declaration and one
  after it.
* `topic`: two values, two topics, a reader and a heartbeat backlog of one, two
  writes, two changes, one loss. A backlog bound below the number of writes is
  what makes overwriting in the reader happen.
* `action`: two goals, so that one can overtake or follow the other; one cancel
  request, one feedback message, one goal declined; one reconnection or shutdown
  of either node, which is enough for a goal to outlive the client or server it
  was sent with.
* `msg_comments`: every file of up to five lines over all eleven kinds of line. Five
  lines hold a banner of three with a neighbour on either side, two owners with a
  gap between them, and a run of one kind of markup that ends in the other. A field on the
  fourth line has a text of its own, so that up to three lines of comments are replaced.
* `generator`: a mapped message, one with one field, one that has a field of every type or one
  field of another package's message, a service and an action; packages built in the same tree (one with a message of the
  same name), installed, and without a wrapper; a file that breaks or disappears; one edit or upgrade, at any
  moment and with either date, and one failed analysis, failed artifact or kill. One
  template is missing so that the loop passes one over. Two configures in a row and
  the second's skip need no bound: they repeat states. One failed run before a good one
  is enough for its remains to be there, and one edit for the three readers to differ.
* `urdf_export`: six robots (meshes under two URIs, several roots with the virtual
  root's name taken and one link there twice, a cycle beside and below the root, two files for one module, an
  xacro that does not parse, a robot without a link), three states of the mesh directory, six command lines;
  two runs, one edit, one fault. What a run inherits is what one earlier run left.

Every counter bounds what the application or the environment does; what the
elements themselves do is never bounded, except for the backlog the heartbeat may
build up in a subscriber that is not scheduled (`MaxPosted`). `parameter` and
`action` have no deadlock check: when the bounds are used up the event loops are
idle, and an uncaught exception ends the process. Neither have `msg_comments` and the
exporter's two runs, which end with the file and with the last run.

### Fairness

Weak fairness on the event loop, the health timer, executor callbacks and
discovery. The Qt event loop runs every posted event, the timer runs whenever the
node is up, the executor is a dedicated thread, and DDS discovery converges while
both ends exist. A live server is assumed to answer: that is a property of the
peer, and the liveness properties say so by requiring it to be there for good
(`<>[]`). In `RemoteParameter` executor and discovery are fair only while the item has a
running node: whether the node of a client left behind is still spun is open. There the
executor is fair as a whole, and so is the remote node: neither has to favour one kind of message. In `Action` the executors, both event loops and rclcpp's part of a cancel
request are fair; neither node's timer nor discovery is needed. Nothing is assumed
of the application. The generator and the exporter are started by somebody and may be
killed, so they have no fairness and no liveness property.

## 4. What is proved

TLAPS checks these for every value of the constants: all sets of values, topics,
targets, files and robots, all bounds, every reader depth. "The invariant" below is
the inductive one: it holds at first, each action keeps it, and it implies the property.
Each is written as a conjunction of named parts, with a lemma for each action or
for each part that several actions leave alone.

**ServiceClient**

* `TypeCorrect`; `WakeupsCorrect`: `NoLostWakeup`, and with it that the flag mirrors
  the queue (`AttemptPostedOnce`). The conjunction is inductive together
  with the type invariant; neither part is alone. `NoLostWakeup` needs the flag to
  be honest, because a suppressed attempt is harmless only if one is really posted;
  when the attempt runs, that it was the only one posted is what re-establishes
  `AttemptPostedOnce`.
* `CallsCorrect`: `DeclarativeCallsSerialised`. The code has one flag for "a call is
  outstanding" and clears it for any completion. `SerialInv` says why that is enough
  without imperative calls: the newest call is the only one that can still be
  answered, it is answered once, and `response` is never newer than it.
* `ImplementsLatestWins`: the refinement of `LatestWins`, one
  step at a time. `RunAttempt` that finds its guards true is a hand-over, a setter
  is a write, everything else stutters.

**RemoteParameter**

* `TypeCorrect`, `WakeupsCorrect` (`NoLostWakeup`) and `ImplementsLatestWins`, along the
  same argument, here across changes of the target, reconnections, the death and
  return of the remote node and changes by others. The type invariant carries one
  fact beyond types: the client exists only for a complete target, so every request
  has an address.

**Parameter**

* `TypeCorrect`, `DescriptorCorrect`, `ValueCorrect` and the action property
  `DeclarationCorrect`, from one invariant. `ValueSettles` speaks of an empty queue
  only; `NewestPosted` says what holds before: as long as nothing overtook the posted
  external sets, the newest of them carries the store's value, and `FreshSettles` that between the two
  steps of a declaration the store has the item's value or `missed` is set. The descriptor is kept by
  `Tied` and `Served`: an attached item is bound to the place it names, so no other
  place it writes to or clears is its own. As each setter chains `clearConnection()` and
  `tryDeclare()`, these are first proved as lemmas about functions on states.
  `DeclarationCorrect` rests on what a call of `tryDeclare()` leaves (`TryLeavesObstacle`): a declared
  item, or one of the obstacles.
* `ConversionSettles`, about `ToParameterValue` alone: its result has the type asked for, and
  converting it again changes nothing. What an item holds after a write is
  therefore what a later declaration of the same type starts from.

**Topic**

* `TypeCorrect`; `PublishesCorrect`: `PendingIsPosted` and `LatchedIsLatest`. The
  invariant adds `WriterNeedsNode`: without a node there is no writer.
  Otherwise a durability change made while the node is down would turn an existing
  volatile writer into a latched one with nothing in it.
* `ConnectedCorrect`: `connected` needs a subscription.

**Action**, for any number of goals, cancel requests and reconnections

* `TypeCorrect`, and `ImplementsLifecycle`: client and server
  implement `GoalLifecycle`. A step that ends a goal has to start from a running one, and
  nothing in that step says so: `succeed()` looks at `m_finished` only. Hence
  `LifeInv` (`LifeCorrect`): every handle that can still act belongs to a
  running goal; for that to survive `dispatchAccepted()`, a goal waiting to be
  dispatched runs, has no handle yet and waits only once; for that to survive
  `AcceptGoal`, requests on the wire are for goals that were sent, have no status
  and occur once.
* `OrderCorrect`: requests, answers and posted answers stand in the order of sending, each
  stage behind the one before it, and the executor holds the newest accepted goal
  or none (`OrderInv`). From it `SupersededCorrect`, the action property
  `SupersededGoalsSilent`.
* `KnownCorrect` (`KnownInv`): what is on its way to the client says what became of
  its goal, unless the connection the goal was sent on is gone.
* `PromisesCorrect`: `PromiseTellsOutcome`. `PromiseInv` justifies every rejection, not
  only that of a goal that succeeded, as a goal may succeed after it.
* `EndsCorrect`: `EndNotForgotten`. `EndInv` speaks of the newest goal from its acceptance
  on, and says that its handle is reset only once the state shows its end, or on behalf
  of an earlier goal, which is the case the property excuses (`lost`).
* `ViewCorrect`: `SerialViewTrue`. `SerialInv` says that nothing of an earlier goal is
  left, and that the event that ends a goal is the last to come (`FinalLast`).
* `ServedCorrect`: `RunningGoalsServed`. `ServedInv` adds the order of the posted calls:
  a cancel request routed before its goal was dispatched would find no handle.

**Generator**, for any files and contents, any number of edits, failures and killed runs

* `TypeCorrect`; `StampFresh`: `FreshWhenConfigured`. The dates alone
  are not inductive. `FreshInv` adds, while nothing runs, that an edit not read for its code or names is
  newer than the stamp or late (`StampShows`), and, while a run goes on, that it has
  been given the names of the present files and has read all but those still before it for their
  code (`RunReads`). Both are needed: `StampShows` carries over a run that dies,
  `RunReads` re-establishes it when `FinishRun` touches the stamp. `LinksFirst`: a run is
  given what the analysis of its configure found, so nobody knows the names of a file that has not been analysed.
* `ListedCorrect`: `ListedIsComplete`. What a killed run leaves behind may be listed
  by an older manifest and be in pieces. `ManifestSound` says why nobody builds that: from
  the start of a run to its good end the next configure will not skip or has something
  to read (`Stirred`, `Stale`); and a file rendered in this run is not rendered again, because no
  two files share an artifact (`ArtifactsAssumption`).
* `IncludesCorrect`: `IncludesResolved`. `AnalysisKnown`: the analysis that is linked knows the
  packages of every file that it has read in its present content. `RunCovers` and
  `ManifestCovers`: a run has listed, failed or still to render what it has read, from what the analysis told
  it; the manifest and the printed errors together then cover every file, unless there is something
  to read. It rests on what rosidl accepts as a reference (`ReferencesAssumption`).
* `ConversionsCorrect`: `ConversionsFaithful`, from theorems about `FieldTypes` for
  any type other than a `wstring` and any number of elements: `FieldsArrive`, `ArraysFilled`,
  `FieldsReturn`, which includes that a list beyond a bound is refused (`BoundRefuses`); for a
  `wstring` the first conversion already has no type (`WideBroken`).

**MsgComments**

* `TypeCorrect`, `AttributionCorrect`: for files of
  any length the walk gives each comment to the owner the layout of the file says.
  `Attribution` is inductive as it stands; the work is in the lemmas that say what one
  more line does to `RunAbove`, `Leading` and `Yields`.
* `LinesCorrect`: `EveryLineDocumented`, for any set of fields with a text of their own. The line numbers of a text rise (`Rising`), and a
  lemma for each step of `extract_doc_info()` says which lines it drops and that the
  numbers still rise: `TextOfOwner`, `StripBannerDrops`, `StripBlankEdgesDrops`,
  `StripDeprecationDrops`, `StructDocShows`, `FormatKeepsLines`. That the loop over banners
  never skips a line it has not used is an induction over its steps.
* `MarkupCorrect`: `MarkupBalanced`. What is open after an item can be told from the item
  (`ModeOf`), and each item fits what is open before it (`Chained`); `ChainCounts` gets the
  numbers of opened and closed lists and code blocks from that.
  Both rest on `Done`: once the text is made nothing is read any more.

**UrdfExport**, for any robots, mesh directories and command lines and any number of runs,
edits and faults

* `TypeCorrect`; `EditsKept`: `UserEditsKept`, an action property. Only three actions
  touch files (`FilesTouched`).
* `EnvironmentRestored`: `XacroEnvironment`. `XacroInv` adds that what was saved is the
  environment the process was started with, and what the command line's copy is, as long as it may be needed.
* `ReportedFilesWhole`: `FilesWhole`. `FilesInv` says that while files are
  written, all of `WriteOrder` but those still to do are good, and that the manifest
  names only files of that order; that every file the CMake file names is among them or
  one of the exceptions is a lemma about the command line (`NamedAreWritten`). `MarkInv` is why
  `failed` excuses nothing else: a partial file or an incomplete module is one whose last
  writing or conversion failed, with no edit since.
* `ReferencesCorrect`: `ReferencesExist`. `RefersInv`: the meshes the run may refer to are on
  disk, and what is still to convert is not among them, so that clearing a module's directory takes nothing away that was promised. `MarkInv` says in which modules they
  are; the imports follow from `MeshInv`: without a warning each mesh of the model has been converted.
* `MeshesCorrect`: `MeshesAccountedFor`. `MeshInv`: while meshes are converted, all but
  the pending ones are made, from the present file; an asset is listed for each.
  A mesh without its file, or two files
  for one module, ends the run before anything is converted or written (`Uncollectable`).
* `LinksCorrect`: `LinksRenderedOnce`, a fact about every model, so that it needs no more
  of the state than its type. A link climbs along its inbound joints, and its `Tier` is
  how often before it is at a root: no link is in two tiers (`OneTier`), and the links in
  one are those that are `Grounded` (`GroundedInTier`). By induction over the depth, what
  is nested in a link are, once each, the links that climb to it (`NestedBelow`); what is in
  two roots or two children does not overlap, so that a list of them has none twice
  (`FlattenDistinct`). A virtual root with a free id exists by the pigeonhole principle
  (`VirtualRootFree`).
* Least elements of sets of numbers, induction over them and what `FlattenSeq` returns
  are proved in the module itself, and likewise in `MsgCommentsProofs`. The library's induction theorem takes an operator,
  which the provers cannot instantiate; its statement that `<` is well founded on the
  naturals is about sets, and gives induction over the set of numbers for which a fact
  holds.

Assumptions are those named in the modules, which TLC evaluates on each run:

* bounds are numbers (`BoundsAssumption` of `ServiceClient`, `Topic`, `Generator` and
  `UrdfExport`, `ActionBoundsAssumption`, `MaxLinesAssumption`), defaults and empty
  values are what they are taken for (`DefaultAssumption`, `ValuesAssumption`,
  `TargetAssumption`, `NoneAssumption`, `RangesAssumption`, `OptionsAssumption`), sets are
  sets of the right things (`ChoicesAssumption`, `WritesAssumption`,
  `KindsAssumption`, `ContentsAssumption`, `RobotsAssumption`, `MeshStatesAssumption`,
  `FilesAssumption`);
* of the generator's input: the files on the command line are different
  (`IdlsAssumption`), no two artifacts have the same path (`ArtifactsAssumption`), there is a
  template for value headers (`TemplatesAssumption`), and a field names a message of a
  `.msg` file below `msg/` (`ReferencesAssumption`), as rosidl and the build ensure.

Some definitions are written for the provers as much as for the reader. A `CASE`
whose arms overlap is taken to be any of the arms by one prover and the first by TLC,
so such definitions are chains of `IF`.

Only model-checked: liveness (`DispatchedUnlessOrphaned`, `DesiredStateSticks`,
`LatchedReachesSubscriber`, `HeartbeatReachesSubscriber`), which depends on fairness
and on what is enabled.

## 5. What is not modelled

* Values of message fields at run time, formatting, logging, the text of errors. What the
  generated conversions do to a field's shape is in `FieldTypes`.
* Destruction of elements while callbacks run (`QPointer` guards).
* QML signal handlers that call back into the element from inside a setter,
  except for `sendGoal()` from `stateChanged`. The application acts between two
  steps instead. For `Parameter::setValue()` this
  leaves out a real case, see the hazards; likewise a handler of
  `resolvedTypeChanged` or `valueChanged` that runs inside `tryDeclare()`.
* The JavaScript promises of `callService()` and `sendGoal()`, beyond what the
  callbacks settle those of goals to.
* Torn reads of `m_goalHandle`, a `shared_ptr` that two threads use without a lock:
  reads and writes are atomic in the model, in any order.
* Of the generator: QML names, factory singletons, computed properties and the texts of
  the templates; of the build, all that the compiler sees next.
* Of the exporter: numbers (poses, inertia, limits, the factor of a unit), licence files,
  the texts of the templates. The viewer's window, the examples.
* A handler's exception from `setupConnection()`, deletion during iteration and the
  restart of a `Node`; `ServiceReply`; the transforms. They are planned below.
* Timing: intervals, the restart of the heartbeat timer by `publish()`.

## 6. Plan

Done: `LatestWins`, `ServiceClient`, `RemoteParameter`, `ParameterValues`,
`Parameter`, `Topic`, `GoalLifecycle`, `Action` with its parts, `FieldTypes`, `Generator`,
`MsgComments`, `RobotModel`, `MeshSources`, `UrdfExport`, and the proofs named above. Next,
in this order:

1. Proofs about what is modelled, see below.
2. `ServiceServer`: requests, deferred and default replies, reconnection; at most
   one answer for each request, and the answer goes to the asker
   (`srv__server.cpp.em:233`, and `299` for a request queued across a reconnection). It
   composes with `ServiceClient` through the request and response channels.
3. `NodeLifecycle`: initialisation with failing entities (`qros2node.cpp:216`), restart on
   renaming (`255`), registration and destruction during iteration, network watching
   (`285`, the signature is stored before the re-scan). An abstract "connected exactly
   while the node runs" for each entity.
4. `Transforms`: the coalesced notification (no last update lost), static
   transforms across reconnection, `FrameNode` validity (`qros2framenode.cpp:304`).
5. `Parameter` extended by handlers that write back from `valueChanged`
   (`qros2parameter.cpp:273`) and ranges that exclude the value (`254`); the pair
   `RemoteParameter`/`Parameter` talking to each other.

Known and without a property so far, besides those: a publisher's `subscriberCount`
while its node is down (`msg__publisher.cpp.em:239`), and the raw `this` of a
subscription's callback while the item is deleted (`msg__subscriber.cpp.em:146`).

Runs planned: one passing run for each of these modules, with a violated run only
where the documentation promises something the code does not do.

Theorems planned: at most one reply for `ServiceServer`, and the type invariant of each
new module.
