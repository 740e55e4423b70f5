----------------------------- MODULE Generator -----------------------------
(***************************************************************************)
(* The code generator under CMake.  Every configure has the IDL files      *)
(* analysed for the packages whose wrappers it links, compares the files   *)
(* and the generator's own with a stamp, runs the generator when one is    *)
(* newer, and builds the files the manifest lists.  A run renders the      *)
(* artifacts of each IDL file in turn, survives an artifact that fails,    *)
(* and writes the manifest last.  Somebody edits IDL files or upgrades the *)
(* generator at any moment, also with an old date (an installed package);  *)
(* an analysis fails with a warning, and a run can be cut short.           *)
(***************************************************************************)
EXTENDS FieldTypes, FiniteSets, TLC

CONSTANTS Idls,        \* the IDL files, in the order CMake passes them
          Contents,    \* what each of them can hold, by file
          NestedOnly,  \* _NESTED_ONLY_MESSAGES, by name
          Templates,   \* the roles whose template exists
          Local,       \* packages with a wrapper built before, in the same tree
          Installed,   \* packages whose wrapper is installed
          Declared,    \* the dependencies that the package declares
          MaxEdits,    \* bound: edits of IDL files and upgrades
          MaxFailures  \* bound: analyses and artifacts that fail, runs cut short

\* The generator's sources and templates, of which the dates count too.
Tools == "rosidl_generator_qtros2"

\* CMake passes no file twice.
ASSUME IdlsAssumption == Idls \in Seq(STRING \ {Tools}) /\ IsInjective(Idls)
ASSUME BoundsAssumption == MaxEdits \in Nat /\ MaxFailures \in Nat

Files == ToSet(Idls)
Watched == Files \cup {Tools}

\* What rosidl's parser makes of a file is well typed.
ASSUME ContentsAssumption ==
    \A f \in Files : \A c \in Contents[f] : \A m \in ToSet(c.messages) : \A t \in ToSet(m.fields) : IsType(t)

\* A .msg file that parses holds one message.  A field, and the header of a
\* computed property, can only name a message of a .msg file below msg/, which
\* holds the message it is named after; such a header is of the package itself.
References(c) == {q[2] : q \in ExtraIncludes} \cup UNION {Nested(m) : m \in ToSet(c.messages)}
ASSUME ReferencesAssumption ==
    /\ \A f \in Files : \A c \in Contents[f] : c.kind = "msg" => c.is = "ok" /\ DOMAIN c.messages = {1}
    /\ \A f \in Files : \A c \in Contents[f] : \A r \in References(c) :
           r[1] = Package => r[2] \in Files /\ \A d \in Contents[r[2]] :
               d.is = "ok" => d.kind = "msg" /\ d.dir \in {"msg", "none"} /\ d.messages[1].name = r[2]
    /\ \A q \in ExtraIncludes : q[2] = <<Package, q[2][2]>>
    /\ \A f \in Files : \A c \in Contents[f] : c.is \in {"ok", "broken", "missing"} /\ DOMAIN c.messages \subseteq 1..3

\* A content is missing, broken (does not parse), or ok with the kind of the
\* interface, the directory the path names ("none" if it names no kind) and
\* its messages: one, or request and response, or goal, result and feedback.
Missing == [is |-> "missing", dir |-> "none", kind |-> "none", messages |-> <<>>]
Unparsable == [is |-> "broken", dir |-> "none", kind |-> "none", messages |-> <<>>]

-----------------------------------------------------------------------------
(* The artifacts of a file.  An artifact is a path: directory, name, role.  *)

\* Each role has a header and a source file.
RoleFiles(roles) == [n \in 1..2 * Len(roles) |-> <<roles[(n + 1) \div 2], IF n % 2 = 1 THEN "hpp" ELSE "cpp">>]

\* The value type has a template, and where a source file has one so has its
\* header.
ValueHeader == <<"value", "hpp">>
ASSUME TemplatesAssumption ==
    ValueHeader \in Templates /\ \A t \in Templates : t[2] = "cpp" => <<t[1], "hpp">> \in Templates

\* A plausible slip: a message of one field has no value type.
MessageRolesNoSingle(m, dir) ==
    IF <<Package, m.name>> \in Mapped THEN <<>>
    ELSE (IF ~NeedsWrapper(m) THEN <<>> ELSE <<"value">>)
         \o (IF dir = "msg" /\ m.name \notin NestedOnly THEN <<"publisher", "subscriber">> ELSE <<>>)

\* _generate_message_artifacts() up to the loop: the roles of one message.
MessageRoles(m, dir) ==
    IF <<Package, m.name>> \in Mapped THEN <<>>
    ELSE (IF dir \in {"srv", "action"} /\ ~NeedsWrapper(m) THEN <<>>
          ELSE <<"value">> \o (IF <<Package, m.name>> \in Helpers THEN <<"utils">> ELSE <<>>))
         \o (IF dir = "msg" /\ m.name \notin NestedOnly THEN <<"publisher", "subscriber">> ELSE <<>>)

MessageArtifacts(m, dir) ==
    LET roles == RoleFiles(MessageRoles(m, dir)) IN [n \in DOMAIN roles |-> <<dir, m.name, roles[n]>>]

\* Services first get their client and server, then their messages; actions
\* the other way round.
Artifacts(file, c) ==
    LET own == [n \in 1..4 |-> <<c.kind, file, RoleFiles(<<"client", "server">>)[n]>>]
        OfMessage(n) == IF n \in DOMAIN c.messages THEN MessageArtifacts(c.messages[n], IF c.kind = "msg" THEN c.dir ELSE c.kind) ELSE <<>>
        messages == OfMessage(1) \o OfMessage(2) \o OfMessage(3)
    IN IF c.is # "ok" THEN <<>>
       ELSE CASE c.kind = "srv" -> own \o messages
              [] c.kind = "action" -> messages \o own
              [] OTHER -> messages

\* rosidl names no two messages of a package alike, so that nothing is
\* rendered twice.
ASSUME ArtifactsAssumption ==
    \A f, g \in Files : \A c \in Contents[f], d \in Contents[g] :
        /\ IsInjective(Artifacts(f, c))
        /\ f # g => ToSet(Artifacts(f, c)) \cap ToSet(Artifacts(g, d)) = {}

\* What the artifact of a file includes of this package and of others.
Includes(path, file, c) ==
    LET m == CHOOSE x \in ToSet(c.messages) : x.name = path[2]
    IN IF path[3][2] = "cpp" THEN {Quoted(<<Package, path[2]>>, path[3][1])}
       ELSE CASE path[3][1] \in {"client", "server"} -> UNION {PayloadIncludes(x, c.kind) : x \in ToSet(c.messages)}
              [] path[3][1] \in {"publisher", "subscriber"} -> PublishedAs(m)
              [] path[3][1] = "utils" -> {Quoted(Own(m), "value")}
              [] OTHER -> ValueIncludes(m)

\* extract_package_dependencies_from_idl_file(): the other packages.
DependenciesOf(c) == IF c.is = "ok" THEN {r[1] : r \in UNION {Nested(m) : m \in ToSet(c.messages)}} \ {Package} ELSE {}

Paths == UNION {UNION {ToSet(Artifacts(f, c)) : c \in {d \in Contents[f] : d.kind = "msg" => d.dir # "none"}} : f \in Files}

VARIABLES idl,      \* the content of each file
          newer,    \* what has a later date than the stamp
          stamp,    \* the stamp exists
          disk,     \* the state of each path, what it was made from and for which analysis
          configuring, \* CMake is between the analysis and the end
          analysis, \* what the last analysis found, if it did not fail
          run,      \* the generator process
          manifest, \* what the last complete run listed
          printed,  \* the errors it printed, which CMake does not look at
          outcome,  \* of the last configure, "edited" when files changed since
          unseen,   \* history: who has not read the present content of a file
          late,     \* history: edits made during a configure or with an old date
          edits, failures

vars == <<idl, newer, stamp, disk, configuring, analysis, run, manifest, printed, outcome, unseen, late, edits, failures>>
history == <<unseen, late>>

\* The analysis whose result is linked, the one whose result the generator
\* was given, and the rendering.
Readers == {"links", "names", "code"}
NoAnalysis == [ok |-> FALSE, found |-> {}]
NoFile == [state |-> "absent", of |-> Missing, analysis |-> NoAnalysis]
Idle == [on |-> FALSE, tuples |-> <<>>, jobs |-> <<>>, file |-> "", content |-> Missing, listed |-> {}, errors |-> {}]

Init ==
    /\ idl \in {f \in [Files -> UNION {Contents[g] : g \in Files}] : \A g \in Files : f[g] \in Contents[g]}
    /\ newer = {} /\ stamp = FALSE
    /\ disk = [p \in Paths |-> NoFile]
    /\ configuring = FALSE /\ analysis = NoAnalysis
    /\ run = Idle
    /\ manifest = {} /\ printed = {}
    /\ outcome = "none"
    /\ unseen = [f \in Watched |-> Readers] /\ late = {}
    /\ edits = 0 /\ failures = 0

\* The user, a checkout or a package manager.
Change(f, fresh) ==
    /\ edits < MaxEdits /\ edits' = edits + 1
    /\ newer' = IF fresh THEN newer \cup {f} ELSE newer \ {f}
    /\ outcome' = "edited"
    /\ unseen' = [unseen EXCEPT ![f] = Readers]
    /\ late' = IF fresh /\ ~configuring THEN late \ {f} ELSE late \cup {f}
    /\ UNCHANGED <<stamp, disk, configuring, analysis, run, manifest, printed, failures>>

EditIdl(f, c, fresh) ==
    /\ Change(f, fresh)
    /\ c # idl[f]
    /\ idl' = [idl EXCEPT ![f] = c]

Upgrade(fresh) ==
    /\ Change(Tools, fresh)
    /\ UNCHANGED idl

\* The first checks of a configure: a file that is not there is fatal.
ConfigureFails ==
    /\ ~configuring
    /\ \E f \in Files : idl[f].is = "missing"
    /\ outcome' = "failed"
    /\ UNCHANGED <<idl, newer, stamp, disk, configuring, analysis, run, manifest, printed, history, edits, failures>>

Dependencies == UNION {DependenciesOf(idl[f]) : f \in Files}

\* qtros2_analyze_idl_dependencies(), on every configure: an analysis that
\* fails is a warning and an empty list.
Analyse(ok) ==
    /\ ~configuring
    /\ \A f \in Files : idl[f].is # "missing"
    /\ ok \/ failures < MaxFailures
    /\ failures' = IF ok THEN failures ELSE failures + 1
    /\ configuring' = TRUE
    /\ analysis' = IF ok THEN [ok |-> TRUE, found |-> Dependencies] ELSE NoAnalysis
    /\ unseen' = [f \in Watched |-> unseen[f] \ {"links"}]
    /\ UNCHANGED <<idl, newer, stamp, disk, run, manifest, printed, outcome, late, edits>>

\* A configure ends well when every package found has a wrapper to link;
\* when none was found, the declared ones that have one are linked.
Ends(result) ==
    /\ configuring' = FALSE
    /\ outcome' = IF analysis.found \subseteq Local \cup Installed THEN result ELSE "failed"

Linked == IF analysis.found # {} THEN analysis.found ELSE Declared \cap Local

\* qt_package_mapping: the packages that the generator knows the Qt name of;
\* a header of any other is looked for under qtros2_<package>.
NamesKnown(a) == (IF a.found # {} THEN a.found ELSE Declared) \cap Local

\* The check of the stamp.
ShouldGenerate == ~stamp \/ newer # {} \/ \E f \in Files : idl[f].is = "missing"

SkipGeneration ==
    /\ configuring /\ ~run.on
    /\ ~ShouldGenerate
    /\ Ends("skipped")
    /\ UNCHANGED <<idl, newer, stamp, disk, analysis, run, manifest, printed, history, edits, failures>>

\* The generator starts: it reads its own sources and is told what the
\* analysis of this configure found.
ReadAtStart(f) == (IF "links" \in unseen[f] THEN {} ELSE {"names"}) \cup (IF f = Tools THEN {"code"} ELSE {})

StartRun ==
    /\ configuring /\ ~run.on
    /\ ShouldGenerate
    /\ run' = [Idle EXCEPT !.on = TRUE, !.tuples = Idls]
    /\ unseen' = [f \in Watched |-> unseen[f] \ ReadAtStart(f)]
    /\ UNCHANGED <<idl, newer, stamp, disk, configuring, analysis, manifest, printed, outcome, late, edits, failures>>

ReadsNext(f) == run.on /\ run.jobs = <<>> /\ run.tuples # <<>> /\ f = Head(run.tuples)

\* A plausible slip: any directory will do.
AnyDirectory(c) == FALSE

\* The directory of an artifact is unknown, but for a mapped message, which
\* has none.
NoDirectory(c) == c.kind = "msg" /\ c.dir = "none" /\ \E m \in ToSet(c.messages) : <<Package, m.name>> \notin Mapped

\* Reading one file: nothing to do for a missing or broken one.
BeginFile(f) ==
    /\ ReadsNext(f)
    /\ ~NoDirectory(idl[f])
    /\ run' = [run EXCEPT !.tuples = Tail(@), !.jobs = Artifacts(f, idl[f]), !.file = f, !.content = idl[f],
                          !.errors = IF idl[f].is = "broken" THEN @ \cup {<<f>>} ELSE @]
    /\ unseen' = [unseen EXCEPT ![f] = @ \ {"code"}]
    /\ UNCHANGED <<idl, newer, stamp, disk, configuring, analysis, manifest, printed, outcome, late, edits, failures>>

\* The file as the present run leaves it.
Written(state) == [state |-> state, of |-> run.content, analysis |-> analysis]

\* A plausible slip: a file is listed before it is rendered.
RenderListedFirst(ok, path) ==
    /\ disk' = [disk EXCEPT ![path] = Written(IF ok THEN "complete" ELSE "partial")]
    /\ run' = [run EXCEPT !.jobs = Tail(@), !.listed = @ \cup {path}, !.errors = IF ok THEN @ ELSE @ \cup {path}]

\* record_generated_file()
Record(path) == run.listed \cup {path}

\* The loop over the templates: a failure leaves what was written so far, is
\* printed, and the next template is tried.
Render(ok, path) ==
    IF ok THEN /\ disk' = [disk EXCEPT ![path] = Written("complete")]
               /\ run' = [run EXCEPT !.jobs = Tail(@), !.listed = Record(path)]
    ELSE /\ disk' = [disk EXCEPT ![path] = Written("partial")]
         /\ run' = [run EXCEPT !.jobs = Tail(@), !.errors = @ \cup {path}]

RenderArtifact(ok) ==
    /\ run.on /\ run.jobs # <<>>
    /\ Head(run.jobs)[3] \in Templates
    /\ ok \/ failures < MaxFailures
    /\ failures' = IF ok THEN failures ELSE failures + 1
    /\ Render(ok, Head(run.jobs))
    /\ UNCHANGED <<idl, newer, stamp, configuring, analysis, manifest, printed, outcome, history, edits>>

SkipTemplate ==
    /\ run.on /\ run.jobs # <<>>
    /\ Head(run.jobs)[3] \notin Templates
    /\ run' = [run EXCEPT !.jobs = Tail(@)]
    /\ UNCHANGED <<idl, newer, stamp, disk, configuring, analysis, manifest, printed, outcome, history, edits, failures>>

\* A plausible slip: CMake touches the stamp before it looks at the result.
AbortStamped ==
    /\ run.on
    /\ failures < MaxFailures /\ failures' = failures + 1
    /\ run' = Idle /\ configuring' = FALSE
    /\ outcome' = "failed"
    /\ stamp' = TRUE /\ newer' = {}
    /\ UNCHANGED <<idl, disk, analysis, manifest, printed, history, edits>>

\* The run ends early with an error: a message outside msg, srv and action
\* has no directory to go to, and anything may kill the process.
Abort ==
    /\ run.on
    /\ \/ \E f \in Files : ReadsNext(f) /\ NoDirectory(idl[f]) /\ failures' = failures
       \/ failures < MaxFailures /\ failures' = failures + 1
    /\ run' = Idle /\ configuring' = FALSE
    /\ outcome' = "failed"
    /\ UNCHANGED <<idl, newer, stamp, disk, analysis, manifest, printed, history, edits>>

\* The manifest; CMake touches the stamp and goes on to the linking.
FinishRun ==
    /\ run.on /\ run.jobs = <<>> /\ run.tuples = <<>>
    /\ manifest' = run.listed /\ printed' = run.errors
    /\ run' = Idle
    /\ stamp' = TRUE /\ newer' = {}
    /\ Ends("generated")
    /\ UNCHANGED <<idl, disk, analysis, history, edits, failures>>

Next ==
    \/ \E f \in Files, fresh \in BOOLEAN : \E c \in Contents[f] : EditIdl(f, c, fresh)
    \/ \E fresh \in BOOLEAN : Upgrade(fresh)
    \/ ConfigureFails
    \/ \E ok \in BOOLEAN : Analyse(ok)
    \/ SkipGeneration
    \/ StartRun
    \/ \E f \in Files : BeginFile(f)
    \/ \E ok \in BOOLEAN : RenderArtifact(ok)
    \/ SkipTemplate
    \/ Abort
    \/ FinishRun

Spec == Init /\ [][Next]_vars

-----------------------------------------------------------------------------
(* Properties *)

TypeOK ==
    /\ idl \in [Files -> UNION {Contents[f] : f \in Files}]
    /\ newer \subseteq Watched /\ stamp \in BOOLEAN
    /\ \A p \in Paths : disk[p].state \in {"absent", "partial", "complete"}
    /\ configuring \in BOOLEAN /\ analysis.ok \in BOOLEAN /\ Package \notin analysis.found
    /\ run.on => configuring
    /\ ToSet(run.tuples) \subseteq Files /\ run.listed \subseteq Paths /\ ToSet(run.jobs) \subseteq Paths
    /\ manifest \subseteq Paths
    /\ outcome \in {"none", "edited", "generated", "skipped", "failed"}
    /\ unseen \in [Watched -> SUBSET Readers] /\ late \subseteq Watched
    /\ edits \in 0..MaxEdits /\ failures \in 0..MaxFailures

\* The build goes on with what the manifest lists.
Configured == ~configuring /\ outcome \in {"generated", "skipped"}

Read(f) == unseen[f] = {}
AllRead == \A f \in Watched : Read(f)

\* A configure that succeeds has had every file looked at in its present
\* content, by the present generator: for the packages to link, for the names
\* that the generator is given and for the code, whatever run failed, was
\* killed or skipped before; only an edit that the dates cannot show may be
\* missed.  (What an analysis that fails loses, see AnalysisLost.)
\* The analysis on every configure, and the stamp of the CMake driver.
FreshWhenConfigured == Configured => \A f \in Watched : Read(f) \/ f \in late

\* What CMake then compiles are whole files made from the present IDL files:
\* never the remains of an artifact that failed or of a run that was killed.
\* record_generated_file() and the manifest.
ListedIsComplete ==
    Configured /\ AllRead =>
        \A f \in Files : \A p \in ToSet(Artifacts(f, idl[f])) \cap manifest : disk[p].state = "complete" /\ disk[p].of = idl[f]

Listed(r) == \E q \in manifest : q[2] = r.ref[2] /\ q[3] = <<r.role, "hpp">> /\ (r.form = "quoted" \/ q[1] = r.dir)

\* A header of another package is found when that package is linked and, for
\* a wrapper built in the same tree, was known to the generator by its name.
\* A bare name is found in the same tree only, unless a header of the package
\* itself has it.
Found(r, p) ==
    /\ r.ref[1] \in Linked
    /\ IF r.form = "quoted" THEN r.ref[1] \in Local /\ ~Listed(r)
       ELSE r.ref[1] \in Local => r.ref[1] \in NamesKnown(disk[p].analysis)

\* The code's own gaps.  A mapped message has no header, and one is asked for
\* all the same.  A publisher names the header of another package's message
\* without its package.
Headerless(r) == r.ref \in Mapped
Unqualified(r) == r.form = "quoted" /\ (r.ref[1] \notin Local \/ Listed(r))

\* An analysis that failed, in this configure or in the one that generated,
\* was a warning, and only what is declared and in the same tree is left.
AnalysisLost(r, p) == ~(analysis.ok /\ disk[p].analysis.ok) /\ r.ref[1] \notin Declared \cap Local

\* Every header that generated code includes is there when nothing failed:
\* one of the package itself is listed, whatever way the message that needs
\* it is published or nested, in the directory that is asked for; one of
\* another package is of a wrapper that is linked, by the name it has.  Where
\* the code misses that is said above, and nowhere else does it.
\* The includes of the templates and the linking of the CMake driver.
IncludesResolved ==
    Configured /\ AllRead /\ printed = {} =>
        \A f \in Files : \A p \in ToSet(Artifacts(f, idl[f])) \cap manifest :
            \A r \in Includes(p, f, idl[f]) :
                \/ Headerless(r)
                \/ r.ref[1] = Package /\ Listed(r)
                \/ r.ref[1] # Package /\ (Found(r, p) \/ Unqualified(r) \/ AnalysisLost(r, p))

\* Every field survives the way through its value type, but for a wstring:
\* the code generated for it takes it for a std::wstring and does not compile.
\* build_value_type_descriptors() and the templates it feeds.
ConversionsFaithful ==
    Configured => \A f \in Files : \A m \in ToSet(idl[f].messages) : \A t \in ToSet(m.fields) : Faithful(t) <=> t.kind # "wstring"
=============================================================================
