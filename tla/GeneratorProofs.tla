-------------------------- MODULE GeneratorProofs --------------------------
(***************************************************************************)
(* The generator, for any IDL files, contents and templates, any number   *)
(* of edits, upgrades, failures and killed runs: a configure that succeeds *)
(* has missed no edit that the dates show, lists whole files only and      *)
(* includes what is there; and the conversions of a field lose nothing,    *)
(* for any number of elements.                                             *)
(***************************************************************************)
EXTENDS Generator, TLAPS

-----------------------------------------------------------------------------
(* The files a run still has to read *)

LEMMA SetOfHeadAndTail ==
  ASSUME NEW S, NEW s \in Seq(S), s # <<>>
  PROVE  /\ Tail(s) \in Seq(S)
         /\ Head(s) \in S
         /\ ToSet(s) \subseteq {Head(s)} \cup ToSet(Tail(s))
<1>1. Tail(s) \in Seq(S) /\ Head(s) \in S
  OBVIOUS
<1>2. ASSUME NEW i \in DOMAIN s PROVE s[i] \in {Head(s)} \cup ToSet(Tail(s))
  <2>1. CASE i = 1
    BY <2>1
  <2>2. CASE i # 1
    <3>1. i - 1 \in DOMAIN Tail(s) /\ Tail(s)[i - 1] = s[i]
      BY <1>2, <2>2
    <3> QED BY <3>1 DEF ToSet
  <2> QED BY <2>1, <2>2
<1> QED BY <1>1, <1>2 DEF ToSet

LEMMA IdlsAreFiles == Idls \in Seq(Files) /\ Tools \notin Files
<1>1. \A i \in DOMAIN Idls : Idls[i] \in Files
  BY DEF Files, ToSet
<1>2. \A i \in DOMAIN Idls : Idls[i] # Tools
  BY IdlsAssumption
<1> QED BY <1>1, <1>2, IdlsAssumption DEF Files, ToSet

-----------------------------------------------------------------------------
(* The inductive invariant *)

RunTyped ==
    /\ run = [on |-> run.on, tuples |-> run.tuples, jobs |-> run.jobs, file |-> run.file, content |-> run.content,
              listed |-> run.listed, errors |-> run.errors]
    /\ run.on \in BOOLEAN
    /\ run.tuples \in Seq(Files)

HistoryTyped ==
    /\ unseen \in [Watched -> SUBSET Readers] /\ late \in SUBSET Watched /\ newer \in SUBSET Watched
    /\ configuring \in BOOLEAN

\* The generator is given the names that an analysis of the file has found.
LinksFirst == \A f \in Watched : "links" \in unseen[f] => "names" \in unseen[f]

\* An edit that was not read is one that the stamp shows, or a late one.
StampShows == stamp => \A f \in Watched : Read(f) \/ f \in newer \/ f \in late

\* A configure has had every file analysed, and a run knows the names; it has
\* the code of all but the files still before it; what changes behind their
\* back is late.
RunReads ==
    /\ configuring => \A f \in Watched : "links" \in unseen[f] => f \in late
    /\ run.on => configuring /\ \A f \in Watched :
           /\ "names" \in unseen[f] => f \in late
           /\ "code" \in unseen[f] => f \in late \/ f \in ToSet(run.tuples)

FreshInv == RunTyped /\ HistoryTyped /\ LinksFirst /\ StampShows /\ RunReads /\ FreshWhenConfigured

LEMMA IdleTyped ==
  /\ Idle = [on |-> Idle.on, tuples |-> Idle.tuples, jobs |-> Idle.jobs, file |-> Idle.file, content |-> Idle.content,
             listed |-> Idle.listed, errors |-> Idle.errors]
  /\ Idle.on = FALSE
  /\ Idle.tuples \in Seq(Files)
<1>1. /\ Idle = [on |-> Idle.on, tuples |-> Idle.tuples, jobs |-> Idle.jobs, file |-> Idle.file, content |-> Idle.content,
                 listed |-> Idle.listed, errors |-> Idle.errors]
      /\ Idle.on = FALSE
      /\ Idle.tuples = <<>>
  BY DEF Idle
<1> QED BY <1>1

LEMMA FreshInit == Init => FreshInv
<1> SUFFICES ASSUME Init PROVE FreshInv
  OBVIOUS
<1>1. RunTyped
  BY IdleTyped DEF Init, RunTyped
<1>2. HistoryTyped /\ LinksFirst
  BY DEF Init, HistoryTyped, LinksFirst, Readers
<1>3. StampShows /\ RunReads /\ FreshWhenConfigured
  BY DEF Init, StampShows, RunReads, FreshWhenConfigured, Configured, Idle
<1> QED BY <1>1, <1>2, <1>3 DEF FreshInv

-----------------------------------------------------------------------------
(* Its steps *)

\* An edit of an IDL file or an upgrade.
LEMMA FreshChange ==
  ASSUME FreshInv, NEW f \in Watched, NEW fresh \in BOOLEAN, Change(f, fresh)
  PROVE  FreshInv'
<1> USE DEF FreshInv, Change
<1>1. RunTyped'
  BY DEF RunTyped
<1>2. HistoryTyped'
  BY DEF HistoryTyped
<1>3. \A g \in Watched : g # f => unseen'[g] = unseen[g] /\ (g \in late' <=> g \in late) /\ (g \in newer' <=> g \in newer)
  BY DEF HistoryTyped
<1>4. f \in late' \/ (fresh /\ ~configuring /\ f \in newer')
  BY DEF HistoryTyped
<1>5. LinksFirst'
  BY DEF LinksFirst, HistoryTyped, Readers
<1>6. StampShows'
  BY <1>3, <1>4 DEF StampShows, Read
<1>7. RunReads'
  BY <1>3, <1>4 DEF RunReads
<1>8. FreshWhenConfigured'
  BY DEF FreshWhenConfigured, Configured
<1> QED BY <1>1, <1>2, <1>5, <1>6, <1>7, <1>8

LEMMA FreshFails ==
  ASSUME FreshInv, ConfigureFails
  PROVE  FreshInv'
BY DEF ConfigureFails, history, FreshInv, RunTyped, HistoryTyped, LinksFirst, StampShows, RunReads, FreshWhenConfigured, Configured, Read

LEMMA FreshAnalyse ==
  ASSUME FreshInv, NEW ok \in BOOLEAN, Analyse(ok)
  PROVE  FreshInv'
<1> USE DEF FreshInv, Analyse
<1>1. RunTyped'
  BY DEF RunTyped
<1>2. \A f \in Watched : unseen'[f] = unseen[f] \ {"links"}
  BY DEF HistoryTyped
<1>3. HistoryTyped'
  BY DEF HistoryTyped
<1>4. LinksFirst' /\ StampShows'
  BY <1>2 DEF LinksFirst, StampShows, Read
<1>5. RunReads'
  BY <1>2 DEF RunReads
<1>6. FreshWhenConfigured'
  BY DEF FreshWhenConfigured, Configured
<1> QED BY <1>1, <1>3, <1>4, <1>5, <1>6

LEMMA FreshSkip ==
  ASSUME FreshInv, SkipGeneration
  PROVE  FreshInv'
<1> USE DEF FreshInv, SkipGeneration, Ends, history
<1>1. RunTyped' /\ HistoryTyped' /\ LinksFirst'
  BY DEF RunTyped, HistoryTyped, LinksFirst
<1>2. StampShows' /\ RunReads'
  BY DEF StampShows, RunReads, Read
<1>3. FreshWhenConfigured'
  BY DEF ShouldGenerate, StampShows, FreshWhenConfigured, Read
<1> QED BY <1>1, <1>2, <1>3

LEMMA FreshStart ==
  ASSUME FreshInv, StartRun
  PROVE  FreshInv'
<1> USE DEF FreshInv, StartRun
<1>1. run'.on = TRUE /\ run'.tuples = Idls
  BY DEF Idle
<1>2. RunTyped'
  BY <1>1, IdlsAreFiles DEF RunTyped, Idle
<1>3. \A f \in Watched : unseen'[f] = unseen[f] \ ReadAtStart(f)
  BY DEF HistoryTyped
<1>4. HistoryTyped'
  BY DEF HistoryTyped
<1>5. LinksFirst' /\ StampShows'
  BY <1>3 DEF LinksFirst, StampShows, Read, ReadAtStart
<1>6. RunReads'
  <2>1. \A f \in Watched : "links" \in unseen[f] => f \in late
    BY DEF RunReads
  <2>2. \A f \in Watched : "names" \in unseen'[f] => "links" \in unseen[f]
    BY <1>3 DEF ReadAtStart
  <2>3. \A f \in Watched : "code" \in unseen'[f] => f \in ToSet(run'.tuples)
    BY <1>1, <1>3 DEF ReadAtStart, Watched, Files
  <2>4. \A f \in Watched : "links" \in unseen'[f] => "links" \in unseen[f]
    BY <1>3
  <2> QED BY <1>1, <2>1, <2>2, <2>3, <2>4 DEF RunReads
<1>7. FreshWhenConfigured'
  BY <1>1 DEF FreshWhenConfigured, Configured
<1> QED BY <1>2, <1>4, <1>5, <1>6, <1>7

LEMMA FreshBegin ==
  ASSUME FreshInv, NEW f \in Files, BeginFile(f)
  PROVE  FreshInv'
<1> USE DEF FreshInv, BeginFile, ReadsNext
<1>1. run'.on = TRUE /\ run'.tuples = Tail(run.tuples)
  BY DEF RunTyped
<1>2. Tail(run.tuples) \in Seq(Files) /\ ToSet(run.tuples) \subseteq {f} \cup ToSet(Tail(run.tuples))
  BY SetOfHeadAndTail DEF RunTyped
<1>3. RunTyped'
  BY <1>1, <1>2 DEF RunTyped
<1>4. /\ unseen'[f] = unseen[f] \ {"code"}
      /\ \A g \in Watched : g # f => unseen'[g] = unseen[g]
  BY DEF HistoryTyped, Watched
<1>5. HistoryTyped'
  BY DEF HistoryTyped
<1>6. LinksFirst' /\ StampShows'
  BY <1>4 DEF LinksFirst, StampShows, Read
<1>7. RunReads'
  BY <1>1, <1>2, <1>4 DEF RunReads
<1>8. FreshWhenConfigured'
  BY DEF FreshWhenConfigured, Configured, RunReads
<1> QED BY <1>3, <1>5, <1>6, <1>7, <1>8

\* Rendering goes on with the files and the history as they are.
LEMMA FreshRender ==
  ASSUME FreshInv, (\E ok \in BOOLEAN : RenderArtifact(ok)) \/ SkipTemplate
  PROVE  FreshInv'
<1>1. /\ run.on /\ run'.on = run.on /\ run'.tuples = run.tuples /\ RunTyped'
      /\ UNCHANGED <<newer, stamp, configuring, unseen, late>>
  <2>1. ASSUME NEW ok \in BOOLEAN, RenderArtifact(ok) PROVE <1>1!:
    BY <2>1 DEF FreshInv, RenderArtifact, Render, RunTyped, history
  <2>2. CASE SkipTemplate
    BY <2>2 DEF FreshInv, SkipTemplate, RunTyped, history
  <2> QED BY <2>1, <2>2
<1>2. HistoryTyped' /\ LinksFirst' /\ StampShows' /\ RunReads'
  BY <1>1 DEF FreshInv, HistoryTyped, LinksFirst, StampShows, RunReads, Read
<1>3. FreshWhenConfigured'
  BY <1>1 DEF FreshInv, RunReads, FreshWhenConfigured, Configured
<1> QED BY <1>1, <1>2, <1>3 DEF FreshInv

LEMMA FreshAbort ==
  ASSUME FreshInv, Abort
  PROVE  FreshInv'
<1> USE DEF FreshInv, Abort, history
<1>1. RunTyped' /\ HistoryTyped' /\ LinksFirst'
  BY IdleTyped DEF RunTyped, HistoryTyped, LinksFirst
<1>2. StampShows' /\ RunReads'
  BY DEF StampShows, RunReads, Read, Idle
<1>3. FreshWhenConfigured'
  BY DEF FreshWhenConfigured, Configured
<1> QED BY <1>1, <1>2, <1>3

LEMMA FreshFinish ==
  ASSUME FreshInv, FinishRun
  PROVE  FreshInv'
<1> USE DEF FreshInv, FinishRun, Ends, history
<1>1. RunTyped' /\ HistoryTyped' /\ LinksFirst'
  BY IdleTyped DEF RunTyped, HistoryTyped, LinksFirst
<1>2. \A f \in Watched : Read(f) \/ f \in late
  <2>1. ToSet(run.tuples) = {}
    BY DEF ToSet
  <2> QED BY <2>1 DEF RunReads, LinksFirst, HistoryTyped, Readers, Read
<1>3. StampShows' /\ FreshWhenConfigured'
  BY <1>2 DEF StampShows, FreshWhenConfigured, Read
<1>4. RunReads'
  BY DEF RunReads, Idle
<1> QED BY <1>1, <1>3, <1>4

LEMMA FreshStep == FreshInv /\ [Next]_vars => FreshInv'
<1> SUFFICES ASSUME FreshInv, [Next]_vars PROVE FreshInv'
  OBVIOUS
<1>1. ASSUME NEW f \in Files, NEW fresh \in BOOLEAN, NEW c \in Contents[f], EditIdl(f, c, fresh) PROVE FreshInv'
  BY <1>1, FreshChange DEF EditIdl, Watched
<1>2. ASSUME NEW fresh \in BOOLEAN, Upgrade(fresh) PROVE FreshInv'
  BY <1>2, FreshChange DEF Upgrade, Watched
<1>3. ASSUME NEW ok \in BOOLEAN, Analyse(ok) PROVE FreshInv'
  BY <1>3, FreshAnalyse
<1>4. CASE UNCHANGED vars
  BY <1>4 DEF vars, FreshInv, RunTyped, HistoryTyped, LinksFirst, StampShows, RunReads, FreshWhenConfigured, Configured, Read
<1> QED BY <1>1, <1>2, <1>3, <1>4, FreshFails, FreshSkip, FreshStart, FreshBegin, FreshRender, FreshAbort, FreshFinish DEF Next

\* However often files are edited, the generator is upgraded, and analyses and
\* runs fail or are killed: a configure that succeeds has had every file read
\* in its present content, for the linking, the names and the code, unless the
\* edit was one that the dates cannot show.
THEOREM StampFresh == Spec => []FreshWhenConfigured
<1>1. FreshInv => FreshWhenConfigured
  BY DEF FreshInv
<1> QED BY <1>1, FreshInit, FreshStep, PTL DEF Spec

-----------------------------------------------------------------------------
(* The artifacts of a file are a sequence of paths *)

LEMMA SequenceOfItsElements ==
  ASSUME NEW S, NEW s \in Seq(S)
  PROVE  s \in Seq(ToSet(s)) /\ ToSet(s) \subseteq S
<1>1. \A i \in DOMAIN s : s[i] \in ToSet(s)
  BY DEF ToSet
<1> QED BY <1>1 DEF ToSet

Roles == {"value", "utils", "publisher", "subscriber"}

LEMMA RolesAreSequence ==
  ASSUME NEW m, NEW dir
  PROVE  MessageRoles(m, dir) \in Seq(Roles)
<1> DEFINE values == IF dir \in {"srv", "action"} /\ ~NeedsWrapper(m) THEN <<>>
                     ELSE <<"value">> \o (IF <<Package, m.name>> \in Helpers THEN <<"utils">> ELSE <<>>)
           ends == IF dir = "msg" /\ m.name \notin NestedOnly THEN <<"publisher", "subscriber">> ELSE <<>>
<1>1. <<"value">> \in Seq(Roles) /\ <<"utils">> \in Seq(Roles) /\ <<>> \in Seq(Roles)
  BY DEF Roles
<1>6. <<"publisher", "subscriber">> \in Seq(Roles)
  BY DEF Roles
<1>2. (IF <<Package, m.name>> \in Helpers THEN <<"utils">> ELSE <<>>) \in Seq(Roles)
  BY <1>1
<1>3. values \in Seq(Roles)
  <2>1. <<"value">> \o (IF <<Package, m.name>> \in Helpers THEN <<"utils">> ELSE <<>>) \in Seq(Roles)
    BY <1>1, <1>2
  <2> QED BY <1>1, <2>1
<1>4. ends \in Seq(Roles)
  BY <1>1, <1>6
<1>5. values \o ends \in Seq(Roles)
  BY <1>3, <1>4
<1> HIDE DEF values, ends
<1>7. MessageRoles(m, dir) = IF <<Package, m.name>> \in Mapped THEN <<>> ELSE values \o ends
  BY DEF MessageRoles, values, ends
<1> QED BY <1>1, <1>5, <1>7

LEMMA RoleFilesAreSequence ==
  ASSUME NEW S, NEW roles \in Seq(S)
  PROVE  /\ Len(roles) \in Nat
         /\ DOMAIN RoleFiles(roles) = 1..2 * Len(roles)
BY DEF RoleFiles

LEMMA MessageArtifactsAreSequence ==
  ASSUME NEW m, NEW dir
  PROVE  /\ MessageArtifacts(m, dir) \in Seq(ToSet(MessageArtifacts(m, dir)))
         /\ <<Package, m.name>> \in Mapped => MessageArtifacts(m, dir) = <<>>
<1> DEFINE roles == MessageRoles(m, dir)
           s == MessageArtifacts(m, dir)
<1>1. roles \in Seq(Roles)
  BY RolesAreSequence
<1>2. Len(roles) \in Nat /\ DOMAIN RoleFiles(roles) = 1..2 * Len(roles)
  BY <1>1, RoleFilesAreSequence
<1>3. s = [n \in 1..2 * Len(roles) |-> <<dir, m.name, RoleFiles(roles)[n]>>]
  BY <1>2 DEF MessageArtifacts
<1>4. \A n \in 1..2 * Len(roles) : s[n] \in ToSet(s)
  BY <1>3 DEF ToSet
<1>5. 2 * Len(roles) \in Nat
  BY <1>2
<1>6. s \in Seq(ToSet(s))
  BY <1>3, <1>4, <1>5
<1>7. <<Package, m.name>> \in Mapped => s = <<>>
  <2>1. <<Package, m.name>> \in Mapped => roles = <<>>
    BY DEF MessageRoles
  <2> QED BY <1>3, <1>6, <2>1
<1> QED BY <1>6, <1>7

OfMessage(c, n) ==
    IF n \in DOMAIN c.messages THEN MessageArtifacts(c.messages[n], IF c.kind = "msg" THEN c.dir ELSE c.kind) ELSE <<>>
OfMessages(c) == OfMessage(c, 1) \o OfMessage(c, 2) \o OfMessage(c, 3)

LEMMA OfMessageIsSequence ==
  ASSUME NEW c, NEW n
  PROVE  OfMessage(c, n) \in Seq(ToSet(OfMessage(c, n)))
<1>1. CASE n \in DOMAIN c.messages
  BY <1>1, MessageArtifactsAreSequence DEF OfMessage
<1>2. CASE n \notin DOMAIN c.messages
  BY <1>2 DEF OfMessage
<1> QED BY <1>1, <1>2

LEMMA OfMessagesIsSequence ==
  ASSUME NEW c
  PROVE  \E S : OfMessages(c) \in Seq(S)
<1> DEFINE S == ToSet(OfMessage(c, 1)) \cup ToSet(OfMessage(c, 2)) \cup ToSet(OfMessage(c, 3))
<1>1. OfMessage(c, 1) \in Seq(S)
  BY OfMessageIsSequence
<1>2. OfMessage(c, 2) \in Seq(S)
  BY OfMessageIsSequence
<1>3. OfMessage(c, 3) \in Seq(S)
  BY OfMessageIsSequence
<1> HIDE DEF S
<1>4. OfMessages(c) \in Seq(S)
  BY <1>1, <1>2, <1>3 DEF OfMessages
<1> QED BY <1>4

LEMMA ArtifactsAreSequence ==
  ASSUME NEW f, NEW c
  PROVE  Artifacts(f, c) \in Seq(ToSet(Artifacts(f, c)))
<1> DEFINE own == [n \in 1..4 |-> <<c.kind, f, RoleFiles(<<"client", "server">>)[n]>>]
<1>1. own \in Seq({own[n] : n \in 1..4})
  OBVIOUS
<1>2. PICK S : OfMessages(c) \in Seq(S)
  BY OfMessagesIsSequence
<1>3. Artifacts(f, c) = IF c.is # "ok" THEN <<>>
                        ELSE CASE c.kind = "srv" -> own \o OfMessages(c)
                               [] c.kind = "action" -> OfMessages(c) \o own
                               [] OTHER -> OfMessages(c)
  BY Zenon DEF Artifacts, OfMessages, OfMessage
<1> DEFINE T == S \cup {own[n] : n \in 1..4}
<1>4. own \in Seq(T) /\ OfMessages(c) \in Seq(T)
  BY <1>1, <1>2
<1> HIDE DEF own, T
<1>5. Artifacts(f, c) \in Seq(T)
  BY <1>3, <1>4
<1> QED BY <1>5, SequenceOfItsElements

LEMMA ArtifactsArePaths ==
  ASSUME NEW f \in Files, NEW c \in Contents[f], ~NoDirectory(c)
  PROVE  Artifacts(f, c) \in Seq(Paths)
<1>1. CASE c.kind = "msg" => c.dir # "none"
  <2>1. ToSet(Artifacts(f, c)) \subseteq Paths
    BY <1>1 DEF Paths
  <2> QED BY <2>1, ArtifactsAreSequence
<1>2. CASE c.kind = "msg" /\ c.dir = "none"
  <2>1. ASSUME NEW n PROVE OfMessage(c, n) = <<>>
    <3>1. CASE n \in DOMAIN c.messages
      <4>1. <<Package, c.messages[n].name>> \in Mapped
        BY <1>2, <3>1 DEF NoDirectory, ToSet
      <4> QED BY <3>1, <4>1, MessageArtifactsAreSequence DEF OfMessage
    <3>2. CASE n \notin DOMAIN c.messages
      BY <3>2 DEF OfMessage
    <3> QED BY <3>1, <3>2
  <2>2. OfMessages(c) = <<>>
    <3>1. OfMessages(c) = <<>> \o <<>> \o <<>>
      BY <2>1 DEF OfMessages
    <3> QED BY <3>1
  <2>3. Artifacts(f, c) = <<>>
    BY <1>2, <2>2 DEF Artifacts, OfMessages, OfMessage
  <2> QED BY <2>3
<1> QED BY <1>1, <1>2

-----------------------------------------------------------------------------
(* Types *)

States == {"absent", "partial", "complete"}

ContentsInPlace == idl \in [Files -> UNION {Contents[f] : f \in Files}] /\ \A f \in Files : idl[f] \in Contents[f]

DiskTyped == disk = [p \in Paths |-> disk[p]] /\ \A p \in Paths : disk[p].state \in States

AnalysisTyped == analysis.ok \in BOOLEAN /\ Package \notin analysis.found

JobsTyped == run.jobs \in Seq(Paths) /\ run.listed \in SUBSET Paths /\ \A p \in run.listed : p[3] \in Templates

ManifestTyped ==
    /\ manifest \in SUBSET Paths /\ \A p \in manifest : p[3] \in Templates
    /\ outcome \in {"none", "edited", "generated", "skipped", "failed"}

CountersTyped == stamp \in BOOLEAN /\ edits \in 0..MaxEdits /\ failures \in 0..MaxFailures

TypeInv == FreshInv /\ ContentsInPlace /\ DiskTyped /\ AnalysisTyped /\ JobsTyped /\ ManifestTyped /\ CountersTyped

LEMMA IdleJobs == Idle.on = FALSE /\ Idle.tuples = <<>> /\ Idle.jobs = <<>> /\ Idle.listed = {}
BY DEF Idle

LEMMA NothingToDo == <<>> \in Seq(Paths)
OBVIOUS

LEMMA TypeInit == Init => TypeInv
<1> SUFFICES ASSUME Init PROVE TypeInv
  OBVIOUS
<1>1. ContentsInPlace
  BY DEF Init, ContentsInPlace
<1>2. DiskTyped /\ AnalysisTyped
  BY DEF Init, DiskTyped, AnalysisTyped, NoAnalysis, NoFile, States
<1>3. JobsTyped
  BY IdleJobs, NothingToDo DEF Init, JobsTyped
<1>4. ManifestTyped
  BY DEF Init, ManifestTyped
<1>5. CountersTyped
  <2>1. stamp = FALSE /\ edits = 0 /\ failures = 0
    BY DEF Init
  <2>2. 0 \in 0..MaxEdits /\ 0 \in 0..MaxFailures
    BY BoundsAssumption
  <2> QED BY <2>1, <2>2, Zenon DEF CountersTyped
<1> QED BY <1>1, <1>2, <1>3, <1>4, <1>5, FreshInit DEF TypeInv

LEMMA TypeChange ==
  ASSUME TypeInv, NEW f \in Watched, NEW fresh \in BOOLEAN, Change(f, fresh)
  PROVE  DiskTyped' /\ AnalysisTyped' /\ JobsTyped' /\ ManifestTyped' /\ CountersTyped'
<1> USE DEF TypeInv, Change
<1>1. DiskTyped' /\ AnalysisTyped' /\ JobsTyped' /\ ManifestTyped'
  BY DEF DiskTyped, AnalysisTyped, JobsTyped, ManifestTyped
<1>2. CountersTyped'
  BY BoundsAssumption DEF CountersTyped
<1> QED BY <1>1, <1>2

LEMMA TypeAnalyse ==
  ASSUME TypeInv, NEW ok \in BOOLEAN, Analyse(ok)
  PROVE  ContentsInPlace' /\ DiskTyped' /\ AnalysisTyped' /\ JobsTyped' /\ ManifestTyped' /\ CountersTyped'
<1> USE DEF TypeInv, Analyse
<1>1. ContentsInPlace' /\ DiskTyped' /\ JobsTyped' /\ ManifestTyped'
  BY DEF ContentsInPlace, DiskTyped, JobsTyped, ManifestTyped
<1>2. CountersTyped'
  BY BoundsAssumption DEF CountersTyped
<1>3. Package \notin Dependencies
  BY DEF Dependencies, DependenciesOf
<1>4. analysis'.ok \in BOOLEAN /\ Package \notin analysis'.found
  BY <1>3 DEF NoAnalysis
<1> QED BY <1>1, <1>2, <1>4 DEF AnalysisTyped

LEMMA TypeBegin ==
  ASSUME TypeInv, NEW f \in Files, BeginFile(f)
  PROVE  JobsTyped'
<1>1. run'.jobs = Artifacts(f, idl[f]) /\ run'.listed = run.listed
  BY DEF BeginFile, TypeInv, FreshInv, RunTyped
<1>2. Artifacts(f, idl[f]) \in Seq(Paths)
  BY ArtifactsArePaths DEF BeginFile, TypeInv, ContentsInPlace
<1> QED BY <1>1, <1>2 DEF TypeInv, JobsTyped

\* What a step of the loop over the templates does.
LEMMA RenderDoes ==
  ASSUME TypeInv, NEW ok \in BOOLEAN, RenderArtifact(ok)
  PROVE  LET p == Head(run.jobs) IN
         /\ run.on /\ run.jobs # <<>> /\ run.jobs \in Seq(Paths) /\ p \in Paths /\ p[3] \in Templates
         /\ Tail(run.jobs) \in Seq(Paths)
         /\ run'.on = TRUE /\ run'.tuples = run.tuples /\ run'.jobs = Tail(run.jobs)
         /\ run'.file = run.file /\ run'.content = run.content
         /\ run'.listed = (IF ok THEN run.listed \cup {p} ELSE run.listed)
         /\ run'.errors = (IF ok THEN run.errors ELSE run.errors \cup {p})
         /\ disk' = [q \in Paths |-> IF q = p THEN Written(IF ok THEN "complete" ELSE "partial") ELSE disk[q]]
         /\ UNCHANGED <<idl, newer, stamp, configuring, analysis, manifest, printed, outcome, unseen, late>>
<1> DEFINE p == Head(run.jobs)
<1>1. run.on /\ run.jobs # <<>> /\ run.jobs \in Seq(Paths) /\ p \in Paths /\ Tail(run.jobs) \in Seq(Paths) /\ p[3] \in Templates
  BY DEF RenderArtifact, TypeInv, JobsTyped
<1> HIDE DEF p
<1>2. /\ disk' = [disk EXCEPT ![p] = Written(IF ok THEN "complete" ELSE "partial")]
      /\ run' = (IF ok THEN [run EXCEPT !.jobs = Tail(@), !.listed = run.listed \cup {p}]
                 ELSE [run EXCEPT !.jobs = Tail(@), !.errors = @ \cup {p}])
  BY DEF RenderArtifact, Render, Record, p
<1>3. disk' = [q \in Paths |-> IF q = p THEN Written(IF ok THEN "complete" ELSE "partial") ELSE disk[q]]
  BY <1>1, <1>2 DEF TypeInv, DiskTyped
<1>4. /\ run'.on = run.on /\ run'.tuples = run.tuples /\ run'.jobs = Tail(run.jobs)
      /\ run'.file = run.file /\ run'.content = run.content
      /\ run'.listed = (IF ok THEN run.listed \cup {p} ELSE run.listed)
      /\ run'.errors = (IF ok THEN run.errors ELSE run.errors \cup {p})
  BY <1>2 DEF TypeInv, FreshInv, RunTyped
<1>5. UNCHANGED <<idl, newer, stamp, configuring, analysis, manifest, printed, outcome, unseen, late>>
  BY DEF RenderArtifact, history
<1> QED BY <1>1, <1>3, <1>4, <1>5, Zenon DEF p

LEMMA TypeRender ==
  ASSUME TypeInv, NEW ok \in BOOLEAN, RenderArtifact(ok)
  PROVE  DiskTyped' /\ JobsTyped' /\ CountersTyped'
<1>1. DiskTyped'
  <2>1. Written(IF ok THEN "complete" ELSE "partial").state \in States
    BY DEF Written, States
  <2> QED BY <2>1, RenderDoes DEF TypeInv, DiskTyped
<1>2. JobsTyped'
  <2> DEFINE p == Head(run.jobs)
  <2>1. /\ p \in Paths /\ p[3] \in Templates /\ run'.jobs = Tail(run.jobs) /\ Tail(run.jobs) \in Seq(Paths)
        /\ run'.listed = (IF ok THEN run.listed \cup {p} ELSE run.listed)
    BY RenderDoes
  <2> HIDE DEF p
  <2>2. run'.listed \in SUBSET Paths /\ \A q \in run'.listed : q[3] \in Templates
    BY <2>1 DEF TypeInv, JobsTyped
  <2> QED BY <2>1, <2>2 DEF JobsTyped
<1>3. CountersTyped'
  BY BoundsAssumption DEF RenderArtifact, TypeInv, CountersTyped
<1> QED BY <1>1, <1>2, <1>3

LEMMA TypeSkipTemplate ==
  ASSUME TypeInv, SkipTemplate
  PROVE  JobsTyped'
<1>1. Tail(run.jobs) \in Seq(Paths) /\ run'.jobs = Tail(run.jobs) /\ run'.listed = run.listed
  BY DEF SkipTemplate, TypeInv, FreshInv, RunTyped, JobsTyped
<1> QED BY <1>1 DEF TypeInv, JobsTyped

LEMMA EndsOutcome ==
  ASSUME NEW result, Ends(result)
  PROVE  configuring' = FALSE /\ outcome' \in {result, "failed"}
BY DEF Ends

LEMMA TypeStep == TypeInv /\ [Next]_vars => TypeInv'
<1> SUFFICES ASSUME TypeInv, [Next]_vars PROVE TypeInv'
  OBVIOUS
<1>0. FreshInv'
  BY FreshStep DEF TypeInv
<1>1. ASSUME NEW f \in Files, NEW fresh \in BOOLEAN, NEW c \in Contents[f], EditIdl(f, c, fresh) PROVE TypeInv'
  <2>1. ContentsInPlace'
    BY <1>1 DEF EditIdl, TypeInv, ContentsInPlace
  <2> QED BY <1>0, <1>1, <2>1, TypeChange DEF EditIdl, Watched, TypeInv
<1>2. ASSUME NEW fresh \in BOOLEAN, Upgrade(fresh) PROVE TypeInv'
  <2>1. ContentsInPlace'
    BY <1>2 DEF Upgrade, TypeInv, ContentsInPlace
  <2> QED BY <1>0, <1>2, <2>1, TypeChange DEF Upgrade, Watched, TypeInv
<1>3. CASE ConfigureFails
  BY <1>0, <1>3 DEF ConfigureFails, TypeInv, ContentsInPlace, DiskTyped, AnalysisTyped, JobsTyped, ManifestTyped, CountersTyped
<1>4. ASSUME NEW ok \in BOOLEAN, Analyse(ok) PROVE TypeInv'
  BY <1>0, <1>4, TypeAnalyse DEF TypeInv
<1>5. CASE SkipGeneration
  <2>1. ManifestTyped'
    BY <1>5, EndsOutcome DEF SkipGeneration, TypeInv, ManifestTyped
  <2> QED BY <1>0, <1>5, <2>1 DEF SkipGeneration, TypeInv, ContentsInPlace, DiskTyped, AnalysisTyped, JobsTyped, CountersTyped
<1>6. CASE StartRun
  <2>1. run'.jobs = <<>> /\ run'.listed = {}
    BY <1>6 DEF StartRun, Idle
  <2>2. JobsTyped'
    BY <2>1, NothingToDo DEF JobsTyped
  <2> QED BY <1>0, <1>6, <2>2 DEF StartRun, TypeInv, ContentsInPlace, DiskTyped, AnalysisTyped, ManifestTyped, CountersTyped
<1>7. ASSUME NEW f \in Files, BeginFile(f) PROVE TypeInv'
  BY <1>0, <1>7, TypeBegin DEF BeginFile, TypeInv, ContentsInPlace, DiskTyped, AnalysisTyped, ManifestTyped, CountersTyped
<1>8. ASSUME NEW ok \in BOOLEAN, RenderArtifact(ok) PROVE TypeInv'
  <2>1. ContentsInPlace' /\ AnalysisTyped' /\ ManifestTyped'
    BY <1>8 DEF RenderArtifact, TypeInv, ContentsInPlace, AnalysisTyped, ManifestTyped
  <2> QED BY <1>0, <1>8, <2>1, TypeRender DEF TypeInv
<1>9. CASE SkipTemplate
  BY <1>0, <1>9, TypeSkipTemplate DEF SkipTemplate, TypeInv, ContentsInPlace, DiskTyped, AnalysisTyped, ManifestTyped, CountersTyped
<1>10. CASE Abort
  <2>1. JobsTyped'
    BY <1>10, IdleJobs, NothingToDo DEF Abort, JobsTyped
  <2>2. CountersTyped'
    BY <1>10, BoundsAssumption DEF Abort, TypeInv, CountersTyped
  <2>3. ContentsInPlace' /\ DiskTyped' /\ AnalysisTyped' /\ ManifestTyped'
    BY <1>10 DEF Abort, TypeInv, ContentsInPlace, DiskTyped, AnalysisTyped, ManifestTyped
  <2> QED BY <1>0, <2>1, <2>2, <2>3 DEF TypeInv
<1>11. CASE FinishRun
  <2>1. JobsTyped'
    BY <1>11, IdleJobs, NothingToDo DEF FinishRun, JobsTyped
  <2>2. manifest' = run.listed /\ outcome' \in {"generated", "failed"}
    BY <1>11, EndsOutcome DEF FinishRun
  <2>3. ManifestTyped'
    BY <2>2 DEF TypeInv, JobsTyped, ManifestTyped
  <2>4. ContentsInPlace' /\ DiskTyped' /\ AnalysisTyped' /\ CountersTyped'
    BY <1>11 DEF FinishRun, TypeInv, ContentsInPlace, DiskTyped, AnalysisTyped, CountersTyped
  <2> QED BY <1>0, <2>1, <2>3, <2>4 DEF TypeInv
<1>12. CASE UNCHANGED vars
  BY <1>0, <1>12 DEF vars, TypeInv, ContentsInPlace, DiskTyped, AnalysisTyped, JobsTyped, ManifestTyped, CountersTyped
<1> QED
  BY <1>1, <1>2, <1>3, <1>4, <1>5, <1>6, <1>7, <1>8, <1>9, <1>10, <1>11, <1>12 DEF Next

\* Every variable keeps its type; above all, no run of the generator makes or
\* lists a file outside the directories of messages, services and actions,
\* and no analysis finds that the package depends on itself.
THEOREM TypeCorrect == Spec => []TypeOK
<1>1. TypeInv => TypeOK
  <2> SUFFICES ASSUME TypeInv PROVE TypeOK
    OBVIOUS
  <2>1. ToSet(run.tuples) \subseteq Files /\ ToSet(run.jobs) \subseteq Paths
    BY SequenceOfItsElements DEF TypeInv, FreshInv, RunTyped, JobsTyped
  <2>2. \A p \in Paths : disk[p].state \in {"absent", "partial", "complete"}
    BY DEF TypeInv, DiskTyped, States
  <2>3. run.on => configuring
    BY DEF TypeInv, FreshInv, RunReads
  <2> QED BY <2>1, <2>2, <2>3
          DEF TypeInv, FreshInv, HistoryTyped, ContentsInPlace, AnalysisTyped, JobsTyped, ManifestTyped, CountersTyped, TypeOK
<1> QED BY <1>1, TypeInit, TypeStep, PTL DEF Spec

-----------------------------------------------------------------------------
(* What is listed is complete *)

\* What an analysis says of a file that it was made of.
Knows(a, c) == IF a.ok THEN DependenciesOf(c) \subseteq a.found ELSE a.found = {}

\* The analysis has seen what has not changed since.
AnalysisKnown == \A f \in Files : "links" \notin unseen[f] => idl[f].is # "missing" /\ Knows(analysis, idl[f])

\* A run has the names and the code of the file as it is.
Seen(f) == "names" \notin unseen[f] /\ "code" \notin unseen[f]

Complete(p, c) == disk[p].state = "complete" /\ disk[p].of = c /\ Knows(disk[p].analysis, c)

\* What the present files make of the manifest.
Sound == \A f \in Files : \A p \in ToSet(Artifacts(f, idl[f])) \cap manifest : Complete(p, idl[f])

\* The files still to read are read once, and what is still to render is of
\* the file read last.
RunOrder ==
    /\ IsInjective(run.tuples)
    /\ IsInjective(run.jobs)
    /\ run.jobs # <<>> =>
           /\ run.file \in Files /\ run.file \notin ToSet(run.tuples)
           /\ run.content \in Contents[run.file]
           /\ "code" \notin unseen[run.file] => run.content = idl[run.file]
           /\ ToSet(run.jobs) \subseteq ToSet(Artifacts(run.file, run.content)) \ run.listed

\* What the run has listed is of files that it has read, and complete unless
\* they have changed since.
Made(f, p) == (\E c \in Contents[f] : p \in ToSet(Artifacts(f, c))) /\ (Seen(f) => Complete(p, idl[f]))
RunListed == \A p \in run.listed : \E f \in Files : f \notin ToSet(run.tuples) /\ Made(f, p)

RunSound == run.on => RunOrder /\ RunListed

\* What a run was started for lasts until it has ended well.
Stirred == ShouldGenerate \/ \E f \in Watched : "names" \in unseen[f]

\* A file has changed, or the last configure has failed and the next one runs
\* the generator.
Stale == (\E f \in Watched : ~Seen(f)) \/ (ShouldGenerate /\ outcome \notin {"generated", "skipped"})

ManifestSound == (run.on => Stirred) /\ (~run.on => Stale \/ Sound)

ListedInv == TypeInv /\ AnalysisKnown /\ ManifestSound /\ RunSound

LEMMA ReadersThree == "links" \in Readers /\ "names" \in Readers /\ "code" \in Readers
BY DEF Readers

LEMMA ListedInit == Init => ListedInv
<1> SUFFICES ASSUME Init PROVE ListedInv
  OBVIOUS
<1>1. ~run.on /\ \A f \in Watched : "names" \in unseen[f] /\ "links" \in unseen[f]
  BY IdleJobs, ReadersThree DEF Init
<1>2. AnalysisKnown
  BY <1>1 DEF AnalysisKnown, Watched
<1>3. ManifestSound /\ RunSound
  BY <1>1 DEF ManifestSound, RunSound, Stale, Seen, Watched
<1> QED BY <1>2, <1>3, TypeInit DEF ListedInv

LEMMA TailOfInjective ==
  ASSUME NEW S, NEW s \in Seq(S), s # <<>>, IsInjective(s)
  PROVE  IsInjective(Tail(s)) /\ Head(s) \notin ToSet(Tail(s)) /\ ToSet(Tail(s)) \subseteq ToSet(s)
<1>1. \A i \in DOMAIN Tail(s) : i + 1 \in DOMAIN s /\ Tail(s)[i] = s[i + 1] /\ i + 1 # 1
  OBVIOUS
<1>2. IsInjective(Tail(s))
  <2> SUFFICES ASSUME NEW a \in DOMAIN Tail(s), NEW b \in DOMAIN Tail(s), Tail(s)[a] = Tail(s)[b]
               PROVE  a = b
    BY DEF IsInjective
  <2>1. a + 1 = b + 1
    BY <1>1 DEF IsInjective
  <2> QED BY <2>1
<1>3. Head(s) \notin ToSet(Tail(s))
  <2>1. Head(s) = s[1] /\ 1 \in DOMAIN s
    OBVIOUS
  <2> QED BY <1>1, <2>1 DEF ToSet, IsInjective
<1>4. ToSet(Tail(s)) \subseteq ToSet(s)
  BY <1>1 DEF ToSet
<1> QED BY <1>2, <1>3, <1>4

\* An artifact is of one file only.
LEMMA ArtifactOfOne ==
  ASSUME NEW f \in Files, NEW g \in Files, NEW c \in Contents[f], NEW d \in Contents[g], NEW p,
         p \in ToSet(Artifacts(f, c)), p \in ToSet(Artifacts(g, d))
  PROVE  f = g
BY ArtifactsAssumption

LEMMA InPlace ==
  ASSUME TypeInv, NEW f \in Files
  PROVE  idl[f] \in Contents[f] /\ f \in Watched
BY DEF TypeInv, ContentsInPlace, Watched

\* Whatever changes has to be read again.
LEMMA ListedChange ==
  ASSUME ListedInv, NEW f \in Watched, NEW fresh \in BOOLEAN, Change(f, fresh), \A g \in Files : g # f => idl'[g] = idl[g]
  PROVE  AnalysisKnown' /\ ManifestSound' /\ RunSound'
<1>1. UNCHANGED <<run, analysis, disk, manifest>>
  BY DEF Change
<1>2. unseen'[f] = Readers /\ \A g \in Watched : g # f => unseen'[g] = unseen[g]
  BY DEF Change, ListedInv, TypeInv, FreshInv, HistoryTyped
<1>3. AnalysisKnown'
  BY <1>1, <1>2, ReadersThree DEF ListedInv, AnalysisKnown, Knows, Watched
<1>4. ManifestSound'
  BY <1>2, ReadersThree DEF ManifestSound, Stirred, Stale, Seen
<1>5. ASSUME run.on PROVE RunOrder' /\ RunListed'
  <2>1. RunOrder /\ RunListed
    BY <1>5 DEF ListedInv, RunSound
  <2>2. RunOrder'
    BY <1>1, <1>2, <2>1, ReadersThree DEF RunOrder, Watched
  <2>3. \A g \in Files, p \in Paths : Made(g, p) => Made(g, p)'
    BY <1>1, <1>2, ReadersThree DEF Made, Seen, Complete, Watched
  <2>4. RunListed'
    BY <1>1, <2>1, <2>3 DEF RunListed, ListedInv, TypeInv, JobsTyped
  <2> QED BY <2>2, <2>4
<1> QED BY <1>1, <1>3, <1>4, <1>5 DEF RunSound

\* A configure that ends without a run.
LEMMA ListedOutside ==
  ASSUME ListedInv, ~run.on, UNCHANGED <<idl, newer, stamp, disk, analysis, run, manifest, unseen>>,
         ShouldGenerate => outcome' \notin {"generated", "skipped"}
  PROVE  AnalysisKnown' /\ ManifestSound' /\ RunSound'
<1>1. AnalysisKnown'
  BY DEF ListedInv, AnalysisKnown, Knows
<1>2. Sound' <=> Sound
  BY DEF Sound, Complete, Knows
<1>3. Stale => Stale'
  BY DEF Stale, Seen, ShouldGenerate
<1> QED BY <1>1, <1>2, <1>3 DEF ListedInv, ManifestSound, RunSound

LEMMA ListedAnalyse ==
  ASSUME ListedInv, NEW ok \in BOOLEAN, Analyse(ok)
  PROVE  AnalysisKnown' /\ ManifestSound' /\ RunSound'
<1>1. ~run.on /\ UNCHANGED <<idl, newer, stamp, disk, run, manifest, outcome>>
  BY DEF Analyse, ListedInv, TypeInv, FreshInv, RunReads
<1>2. \A f \in Watched : unseen'[f] = unseen[f] \ {"links"}
  BY DEF Analyse
<1>3. AnalysisKnown'
  <2>1. \A f \in Files : idl[f].is # "missing" /\ Knows(analysis', idl[f])
    BY DEF Analyse, Knows, Dependencies, NoAnalysis
  <2> QED BY <1>1, <2>1 DEF AnalysisKnown, Knows
<1>4. Sound' <=> Sound
  BY <1>1 DEF Sound, Complete, Knows
<1>5. Stale => Stale'
  BY <1>1, <1>2 DEF Stale, Seen, ShouldGenerate
<1> QED BY <1>1, <1>3, <1>4, <1>5 DEF ListedInv, ManifestSound, RunSound

LEMMA ListedStart ==
  ASSUME ListedInv, StartRun
  PROVE  AnalysisKnown' /\ ManifestSound' /\ RunSound'
<1>1. UNCHANGED <<idl, newer, stamp, analysis>>
  BY DEF StartRun
<1>2. run'.on = TRUE /\ run'.tuples = Idls /\ run'.jobs = <<>> /\ run'.listed = {}
  BY DEF StartRun, Idle
<1>3. \A f \in Watched : "links" \in unseen'[f] <=> "links" \in unseen[f]
  BY DEF StartRun, ReadAtStart
<1>4. AnalysisKnown'
  BY <1>1, <1>3 DEF ListedInv, AnalysisKnown, Knows, Watched
<1>5. Stirred'
  BY <1>1 DEF StartRun, ShouldGenerate, Stirred
<1>6. RunOrder'
  <2>1. IsInjective(run'.jobs)
    BY <1>2 DEF IsInjective
  <2> QED BY <1>2, <2>1, IdlsAssumption DEF RunOrder
<1>7. RunListed'
  BY <1>2 DEF RunListed
<1> QED BY <1>2, <1>4, <1>5, <1>6, <1>7 DEF ManifestSound, RunSound

\* A step of a run keeps the stamp, the dates and the files as they are.
LEMMA ListedDuring ==
  ASSUME ListedInv, run.on, run'.on, UNCHANGED <<idl, newer, stamp, analysis>>,
         \A f \in Watched : ("names" \in unseen'[f] <=> "names" \in unseen[f]) /\ ("links" \in unseen'[f] <=> "links" \in unseen[f])
  PROVE  AnalysisKnown' /\ ManifestSound'
<1>1. AnalysisKnown'
  BY DEF ListedInv, AnalysisKnown, Knows, Watched
<1>2. Stirred'
  BY DEF ListedInv, ManifestSound, Stirred, ShouldGenerate
<1> QED BY <1>1, <1>2 DEF ManifestSound

LEMMA ListedBegin ==
  ASSUME ListedInv, NEW f \in Files, BeginFile(f)
  PROVE  AnalysisKnown' /\ ManifestSound' /\ RunSound'
<1>1. /\ run.on /\ run.tuples # <<>> /\ f = Head(run.tuples) /\ run.tuples \in Seq(Files)
      /\ UNCHANGED <<idl, newer, stamp, analysis, disk>>
  BY DEF BeginFile, ReadsNext, ListedInv, TypeInv, FreshInv, RunTyped
<1>2. /\ run'.on = TRUE /\ run'.tuples = Tail(run.tuples) /\ run'.jobs = Artifacts(f, idl[f])
      /\ run'.file = f /\ run'.content = idl[f] /\ run'.listed = run.listed
  BY <1>1 DEF BeginFile, ListedInv, TypeInv, FreshInv, RunTyped
<1>3. unseen'[f] = unseen[f] \ {"code"} /\ \A g \in Watched : g # f => unseen'[g] = unseen[g]
  BY DEF BeginFile, ListedInv, TypeInv, FreshInv, HistoryTyped, Watched
<1>4. AnalysisKnown' /\ ManifestSound'
  BY <1>1, <1>2, <1>3, ListedDuring
<1>5. RunOrder /\ RunListed /\ idl[f] \in Contents[f]
  BY <1>1, InPlace DEF ListedInv, RunSound
<1>6. IsInjective(run'.tuples) /\ f \notin ToSet(run'.tuples) /\ ToSet(run'.tuples) \subseteq ToSet(run.tuples)
  BY <1>1, <1>2, <1>5, TailOfInjective DEF RunOrder
<1>7. f \in ToSet(run.tuples)
  <2>1. f = run.tuples[1] /\ 1 \in DOMAIN run.tuples
    BY <1>1
  <2> QED BY <2>1 DEF ToSet
<1>8. IsInjective(run'.jobs)
  BY <1>2, <1>5, ArtifactsAssumption
<1>9. ToSet(run'.jobs) \cap run.listed = {}
  <2> SUFFICES ASSUME NEW p \in run.listed, p \in ToSet(Artifacts(f, idl[f])) PROVE FALSE
    BY <1>2
  <2>1. PICK g \in Files : g \notin ToSet(run.tuples) /\ Made(g, p)
    BY <1>5 DEF RunListed
  <2>2. f = g
    BY <1>5, <2>1, ArtifactOfOne DEF Made
  <2> QED BY <1>7, <2>1, <2>2
<1>10. RunOrder'
  BY <1>1, <1>2, <1>5, <1>6, <1>8, <1>9 DEF RunOrder
<1>11. \A g \in Files, p \in Paths : g # f /\ Made(g, p) => Made(g, p)'
  BY <1>1, <1>3 DEF Made, Seen, Complete, Watched
<1>12. RunListed'
  <2> SUFFICES ASSUME NEW p \in run.listed PROVE \E g \in Files : g \notin ToSet(run'.tuples) /\ Made(g, p)'
    BY <1>2 DEF RunListed
  <2>1. PICK g \in Files : g \notin ToSet(run.tuples) /\ Made(g, p)
    BY <1>5 DEF RunListed
  <2> QED BY <1>6, <1>7, <1>11, <2>1 DEF ListedInv, TypeInv, JobsTyped
<1> QED BY <1>4, <1>10, <1>12 DEF RunSound

LEMMA ListedRender ==
  ASSUME ListedInv, NEW ok \in BOOLEAN, RenderArtifact(ok)
  PROVE  AnalysisKnown' /\ ManifestSound' /\ RunSound'
<1> DEFINE state == IF ok THEN "complete" ELSE "partial"
<1>0. PICK p, file : p = Head(run.jobs) /\ file = run.file
  OBVIOUS
<1>1. TypeInv
  BY DEF ListedInv
<1>2. /\ run.on /\ run.jobs # <<>> /\ run.jobs \in Seq(Paths) /\ p \in Paths
      /\ run'.on = TRUE /\ run'.tuples = run.tuples /\ run'.jobs = Tail(run.jobs)
      /\ run'.file = run.file /\ run'.content = run.content
      /\ run'.listed = (IF ok THEN run.listed \cup {p} ELSE run.listed)
      /\ UNCHANGED <<idl, newer, stamp, analysis, unseen>>
  BY <1>0, <1>1, RenderDoes
<1>3. disk'[p] = Written(state) /\ \A q \in Paths : q # p => disk'[q] = disk[q]
  BY <1>0, <1>1, <1>2, RenderDoes
<1> HIDE DEF state
<1>4. AnalysisKnown' /\ ManifestSound'
  BY <1>2, ListedDuring
<1>5. RunOrder /\ RunListed
  BY <1>2 DEF ListedInv, RunSound
<1>6. IsInjective(run'.jobs) /\ p \notin ToSet(run'.jobs) /\ ToSet(run'.jobs) \subseteq ToSet(run.jobs)
  BY <1>0, <1>2, <1>5, TailOfInjective DEF RunOrder
<1>7. p \in ToSet(run.jobs)
  <2>1. p = run.jobs[1] /\ 1 \in DOMAIN run.jobs
    BY <1>0, <1>2
  <2> QED BY <2>1 DEF ToSet
<1>8. /\ file \in Files /\ file \notin ToSet(run.tuples) /\ run.content \in Contents[file]
      /\ "code" \notin unseen[file] => run.content = idl[file]
      /\ p \in ToSet(Artifacts(file, run.content)) /\ p \notin run.listed
      /\ ToSet(run.jobs) \subseteq ToSet(Artifacts(file, run.content)) \ run.listed
  BY <1>0, <1>2, <1>5, <1>7 DEF RunOrder
<1>9. RunOrder'
  BY <1>0, <1>2, <1>5, <1>6, <1>8 DEF RunOrder
<1>10. ASSUME ok PROVE Made(file, p)'
  <2>1. ASSUME Seen(file) PROVE Complete(p, idl[file])'
    <3>1. "links" \notin unseen[file] /\ run.content = idl[file]
      BY <1>1, <1>8, <2>1 DEF TypeInv, FreshInv, LinksFirst, Seen, Watched
    <3>2. Knows(analysis, idl[file])
      BY <1>8, <3>1 DEF ListedInv, AnalysisKnown
    <3>3. disk'[p].state = "complete" /\ disk'[p].of = idl[file] /\ disk'[p].analysis = analysis
      BY <1>3, <1>10, <3>1 DEF Written, state
    <3> QED BY <1>2, <3>2, <3>3 DEF Complete
  <2> QED BY <1>2, <1>8, <2>1 DEF Made, Seen
<1>11. ASSUME NEW q \in Paths, q # p, NEW g \in Files, Made(g, q) PROVE Made(g, q)'
  BY <1>2, <1>3, <1>11 DEF Made, Seen, Complete
<1>12. RunListed'
  <2> SUFFICES ASSUME NEW q \in run'.listed PROVE \E g \in Files : g \notin ToSet(run.tuples) /\ Made(g, q)'
    BY <1>2 DEF RunListed
  <2>1. CASE q = p
    <3>1. ok
      BY <1>2, <1>8, <2>1
    <3> QED BY <1>8, <1>10, <2>1, <3>1
  <2>2. CASE q # p
    <3>1. q \in run.listed /\ q \in Paths
      BY <1>1, <1>2, <2>2 DEF TypeInv, JobsTyped
    <3>2. PICK g \in Files : g \notin ToSet(run.tuples) /\ Made(g, q)
      BY <1>5, <3>1 DEF RunListed
    <3> QED BY <1>11, <2>2, <3>1, <3>2
  <2> QED BY <2>1, <2>2
<1> QED BY <1>4, <1>9, <1>12 DEF RunSound

LEMMA ListedSkipTemplate ==
  ASSUME ListedInv, SkipTemplate
  PROVE  AnalysisKnown' /\ ManifestSound' /\ RunSound'
<1>1. /\ run.on /\ run.jobs # <<>> /\ run.jobs \in Seq(Paths)
      /\ UNCHANGED <<idl, newer, stamp, analysis, unseen, disk>>
  BY DEF SkipTemplate, ListedInv, TypeInv, JobsTyped, history
<1>2. /\ run'.on = TRUE /\ run'.tuples = run.tuples /\ run'.jobs = Tail(run.jobs)
      /\ run'.file = run.file /\ run'.content = run.content /\ run'.listed = run.listed
  BY <1>1 DEF SkipTemplate, ListedInv, TypeInv, FreshInv, RunTyped
<1>3. AnalysisKnown' /\ ManifestSound'
  BY <1>1, <1>2, ListedDuring
<1>4. RunOrder /\ RunListed
  BY <1>1 DEF ListedInv, RunSound
<1>5. IsInjective(run'.jobs) /\ ToSet(run'.jobs) \subseteq ToSet(run.jobs)
  BY <1>1, <1>2, <1>4, TailOfInjective DEF RunOrder
<1>6. RunOrder'
  BY <1>1, <1>2, <1>4, <1>5 DEF RunOrder
<1>7. RunListed'
  BY <1>1, <1>2, <1>4 DEF RunListed, Made, Seen, Complete, Knows
<1> QED BY <1>3, <1>6, <1>7 DEF RunSound

\* What a run leaves when it ends early is not used: the next configure
\* starts another one.
LEMMA ListedAbort ==
  ASSUME ListedInv, Abort
  PROVE  AnalysisKnown' /\ ManifestSound' /\ RunSound'
<1>1. run.on /\ run'.on = FALSE /\ outcome' = "failed" /\ UNCHANGED <<idl, newer, stamp, analysis, unseen>>
  BY IdleJobs DEF Abort, history
<1>2. AnalysisKnown'
  BY <1>1 DEF ListedInv, AnalysisKnown, Knows
<1>3. Stale'
  BY <1>1 DEF ListedInv, ManifestSound, Stirred, Stale, Seen, ShouldGenerate
<1> QED BY <1>1, <1>2, <1>3 DEF ManifestSound, RunSound

LEMMA ListedFinish ==
  ASSUME ListedInv, FinishRun
  PROVE  AnalysisKnown' /\ ManifestSound' /\ RunSound'
<1>1. /\ run.on /\ run.tuples = <<>> /\ run'.on = FALSE /\ manifest' = run.listed
      /\ UNCHANGED <<idl, disk, analysis, unseen>>
  BY IdleJobs DEF FinishRun, history
<1>2. AnalysisKnown'
  BY <1>1 DEF ListedInv, AnalysisKnown, Knows
<1>3. ASSUME \A f \in Watched : Seen(f) PROVE Sound'
  <2>1. RunListed
    BY <1>1 DEF ListedInv, RunSound
  <2> SUFFICES ASSUME NEW f \in Files, NEW p \in ToSet(Artifacts(f, idl[f])) \cap run.listed PROVE Complete(p, idl[f])
    BY <1>1 DEF Sound, Complete, Knows
  <2>2. PICK g \in Files : Made(g, p)
    BY <2>1 DEF RunListed
  <2>3. f = g
    BY <2>2, ArtifactOfOne, InPlace DEF ListedInv, Made
  <2> QED BY <1>3, <2>2, <2>3 DEF Made, Watched
<1>4. (\A f \in Watched : Seen(f)) \/ Stale'
  BY <1>1 DEF Stale, Seen
<1> QED BY <1>1, <1>2, <1>3, <1>4 DEF ManifestSound, RunSound

LEMMA ListedStep == ListedInv /\ [Next]_vars => ListedInv'
<1> SUFFICES ASSUME ListedInv, [Next]_vars PROVE ListedInv'
  OBVIOUS
<1>0. TypeInv'
  BY TypeStep DEF ListedInv
<1> SUFFICES AnalysisKnown' /\ ManifestSound' /\ RunSound'
  BY <1>0 DEF ListedInv
<1>1. ASSUME NEW f \in Files, NEW fresh \in BOOLEAN, NEW c \in Contents[f], EditIdl(f, c, fresh)
      PROVE  AnalysisKnown' /\ ManifestSound' /\ RunSound'
  <2>1. f \in Watched /\ Change(f, fresh) /\ \A g \in Files : g # f => idl'[g] = idl[g]
    BY <1>1 DEF EditIdl, ListedInv, TypeInv, ContentsInPlace, Watched
  <2> QED BY <2>1, ListedChange
<1>2. ASSUME NEW fresh \in BOOLEAN, Upgrade(fresh) PROVE AnalysisKnown' /\ ManifestSound' /\ RunSound'
  <2>1. Tools \in Watched /\ Change(Tools, fresh) /\ \A g \in Files : idl'[g] = idl[g]
    BY <1>2 DEF Upgrade, Watched
  <2> QED BY <2>1, ListedChange
<1>3. CASE ConfigureFails
  <2>1. ~run.on /\ outcome' = "failed" /\ UNCHANGED <<idl, newer, stamp, disk, analysis, run, manifest, unseen>>
    BY <1>3 DEF ConfigureFails, history, ListedInv, TypeInv, FreshInv, RunReads
  <2> QED BY <2>1, ListedOutside
<1>4. ASSUME NEW ok \in BOOLEAN, Analyse(ok) PROVE AnalysisKnown' /\ ManifestSound' /\ RunSound'
  BY <1>4, ListedAnalyse
<1>5. CASE SkipGeneration
  <2>1. ~run.on /\ ~ShouldGenerate /\ UNCHANGED <<idl, newer, stamp, disk, analysis, run, manifest, unseen>>
    BY <1>5 DEF SkipGeneration, history
  <2> QED BY <2>1, ListedOutside
<1>6. ASSUME NEW f \in Files, BeginFile(f) PROVE AnalysisKnown' /\ ManifestSound' /\ RunSound'
  BY <1>6, ListedBegin
<1>7. ASSUME NEW ok \in BOOLEAN, RenderArtifact(ok) PROVE AnalysisKnown' /\ ManifestSound' /\ RunSound'
  BY <1>7, ListedRender
<1>8. CASE UNCHANGED vars
  <2>1. UNCHANGED <<idl, newer, stamp, disk, analysis, run, manifest, outcome, unseen>>
    BY <1>8 DEF vars
  <2>2. (AnalysisKnown' <=> AnalysisKnown) /\ (Sound' <=> Sound) /\ (Stale' <=> Stale) /\ (Stirred' <=> Stirred)
    BY <2>1 DEF AnalysisKnown, Sound, Complete, Knows, Stale, Stirred, Seen, ShouldGenerate
  <2>3. (RunOrder' <=> RunOrder) /\ (RunListed' <=> RunListed)
    BY <2>1 DEF RunOrder, RunListed, Made, Seen, Complete, Knows
  <2> QED BY <2>1, <2>2, <2>3 DEF ListedInv, ManifestSound, RunSound
<1> QED
  BY <1>1, <1>2, <1>3, <1>4, <1>5, <1>6, <1>7, <1>8, ListedStart, ListedSkipTemplate, ListedAbort, ListedFinish DEF Next

\* What has been read and configured is sound.
LEMMA ConfiguredSound == ListedInv /\ Configured /\ AllRead => ~run.on /\ ~Stale /\ Sound
<1> SUFFICES ASSUME ListedInv, Configured, AllRead PROVE ~run.on /\ ~Stale /\ Sound
  OBVIOUS
<1>1. ~run.on
  BY DEF Configured, ListedInv, TypeInv, FreshInv, RunReads
<1>2. ~Stale
  BY DEF Configured, AllRead, Read, Stale, Seen
<1> QED BY <1>1, <1>2 DEF ListedInv, ManifestSound

\* A configure that succeeds hands whole files to the compiler, made from the
\* present IDL files, however many artifacts and runs failed before it.
THEOREM ListedCorrect == Spec => []ListedIsComplete
<1>1. ListedInv => ListedIsComplete
  BY ConfiguredSound DEF Sound, Complete, ListedIsComplete
<1> QED BY <1>1, ListedInit, ListedStep, PTL DEF Spec

-----------------------------------------------------------------------------
(* Every include is resolved *)

\* The file has a directory, is an error if it does not parse, and each of its
\* artifacts that has a template is among those done.
Covered(f, done, errors) ==
    /\ ~NoDirectory(idl[f])
    /\ idl[f].is = "broken" => <<f>> \in errors
    /\ \A p \in ToSet(Artifacts(f, idl[f])) : p[3] \in Templates => p \in done

\* A run has dealt with what it has read, and what it has listed covers the
\* files until one changes or the next configure starts another run.
RunCovers ==
    run.on => \A f \in Files : "code" \notin unseen[f] /\ f \notin ToSet(run.tuples) =>
                  Covered(f, run.listed \cup run.errors \cup ToSet(run.jobs), run.errors)

ManifestCovers == ~run.on => Stale \/ \A f \in Files : Covered(f, manifest \cup printed, printed)

IncludeInv == ListedInv /\ RunCovers /\ ManifestCovers

LEMMA IncludeInit == Init => IncludeInv
<1> SUFFICES ASSUME Init PROVE IncludeInv
  OBVIOUS
<1>1. ~run.on
  BY IdleJobs DEF Init
<1>2. Stale
  <2>1. Tools \in Watched /\ "names" \in unseen[Tools]
    BY ReadersThree DEF Init, Watched
  <2> QED BY <2>1 DEF Stale, Seen
<1> QED BY <1>1, <1>2, ListedInit DEF IncludeInv, RunCovers, ManifestCovers

LEMMA IncludeChange ==
  ASSUME IncludeInv, NEW f \in Watched, NEW fresh \in BOOLEAN, Change(f, fresh), \A g \in Files : g # f => idl'[g] = idl[g]
  PROVE  RunCovers' /\ ManifestCovers'
<1>1. /\ unseen'[f] = Readers /\ \A g \in Watched : g # f => unseen'[g] = unseen[g]
      /\ run' = run
  BY DEF Change, IncludeInv, ListedInv, TypeInv, FreshInv, HistoryTyped
<1>2. Stale' /\ "code" \in unseen'[f]
  BY <1>1, ReadersThree DEF Stale, Seen
<1>3. ASSUME run.on, NEW g \in Files, "code" \notin unseen'[g], g \notin ToSet(run.tuples)
      PROVE  Covered(g, run.listed \cup run.errors \cup ToSet(run.jobs), run.errors)'
  <2>1. g # f
    BY <1>2, <1>3
  <2>2. Covered(g, run.listed \cup run.errors \cup ToSet(run.jobs), run.errors)
    BY <1>1, <1>3, <2>1 DEF IncludeInv, RunCovers, Watched
  <2> QED BY <1>1, <2>1, <2>2 DEF Covered, NoDirectory
<1> QED BY <1>1, <1>2, <1>3 DEF RunCovers, ManifestCovers

\* A step outside a run that leaves the manifest as it is.
LEMMA IncludeOutside ==
  ASSUME IncludeInv, ~run.on, UNCHANGED <<idl, run, manifest, printed>>, Stale => Stale'
  PROVE  RunCovers' /\ ManifestCovers'
BY DEF IncludeInv, RunCovers, ManifestCovers, Covered, NoDirectory

LEMMA IncludeStart ==
  ASSUME IncludeInv, StartRun
  PROVE  RunCovers' /\ ManifestCovers'
<1>1. run'.on = TRUE /\ run'.tuples = Idls
  BY DEF StartRun, Idle
<1>2. \A f \in Files : f \in ToSet(run'.tuples)
  BY <1>1 DEF Files
<1> QED BY <1>1, <1>2 DEF RunCovers, ManifestCovers

LEMMA IncludeBegin ==
  ASSUME IncludeInv, NEW f \in Files, BeginFile(f)
  PROVE  RunCovers' /\ ManifestCovers'
<1>1. /\ run.on /\ run.tuples # <<>> /\ f = Head(run.tuples) /\ run.jobs = <<>> /\ ~NoDirectory(idl[f])
      /\ run.tuples \in Seq(Files) /\ UNCHANGED idl
  BY DEF BeginFile, ReadsNext, IncludeInv, ListedInv, TypeInv, FreshInv, RunTyped
<1>2. /\ run'.on = TRUE /\ run'.tuples = Tail(run.tuples) /\ run'.jobs = Artifacts(f, idl[f])
      /\ run'.listed = run.listed /\ run'.errors = (IF idl[f].is = "broken" THEN run.errors \cup {<<f>>} ELSE run.errors)
  BY <1>1 DEF BeginFile, IncludeInv, ListedInv, TypeInv, FreshInv, RunTyped
<1>3. \A g \in Watched : g # f => unseen'[g] = unseen[g]
  BY DEF BeginFile, IncludeInv, ListedInv, TypeInv, FreshInv, HistoryTyped, Watched
<1>4. run.errors \subseteq run'.errors
  BY <1>2
<1>5. ASSUME NEW g \in Files, "code" \notin unseen'[g], g \notin ToSet(run'.tuples)
      PROVE  Covered(g, run.listed \cup run.errors \cup ToSet(run.jobs), run.errors)'
  <2>1. CASE g = f
    BY <1>1, <1>2, <2>1 DEF Covered, NoDirectory
  <2>2. CASE g # f
    <3>1. g \notin ToSet(run.tuples) /\ "code" \notin unseen[g]
      BY <1>1, <1>2, <1>3, <1>5, <2>2, SetOfHeadAndTail DEF Watched
    <3>2. Covered(g, run.listed \cup run.errors \cup ToSet(run.jobs), run.errors) /\ ToSet(run.jobs) = {}
      BY <1>1, <3>1 DEF IncludeInv, RunCovers, ToSet
    <3> QED BY <1>1, <1>2, <1>4, <3>2 DEF Covered, NoDirectory
  <2> QED BY <2>1, <2>2
<1> QED BY <1>2, <1>5 DEF RunCovers, ManifestCovers

\* What is taken off the jobs is listed, an error or has no template.
LEMMA IncludeJob ==
  ASSUME IncludeInv, run.on, run'.on, run.jobs # <<>>, run'.jobs = Tail(run.jobs), UNCHANGED <<idl, unseen>>,
         run'.tuples = run.tuples, run.errors \subseteq run'.errors, run.listed \subseteq run'.listed,
         Head(run.jobs)[3] \in Templates => Head(run.jobs) \in run'.listed \cup run'.errors
  PROVE  RunCovers' /\ ManifestCovers'
<1>1. ToSet(run.jobs) \subseteq {Head(run.jobs)} \cup ToSet(run'.jobs)
  BY SetOfHeadAndTail DEF IncludeInv, ListedInv, TypeInv, JobsTyped
<1>2. ASSUME NEW g \in Files, "code" \notin unseen'[g], g \notin ToSet(run'.tuples)
      PROVE  Covered(g, run.listed \cup run.errors \cup ToSet(run.jobs), run.errors)'
  <2>1. Covered(g, run.listed \cup run.errors \cup ToSet(run.jobs), run.errors)
    BY <1>2 DEF IncludeInv, RunCovers
  <2> QED BY <1>1, <2>1 DEF Covered, NoDirectory
<1> QED BY <1>2 DEF RunCovers, ManifestCovers

LEMMA IncludeRender ==
  ASSUME IncludeInv, NEW ok \in BOOLEAN, RenderArtifact(ok)
  PROVE  RunCovers' /\ ManifestCovers'
<1> DEFINE p == Head(run.jobs)
<1>1. TypeInv
  BY DEF IncludeInv, ListedInv
<1>2. /\ run.on /\ run.jobs # <<>> /\ UNCHANGED <<idl, unseen>>
      /\ run'.on = TRUE /\ run'.tuples = run.tuples /\ run'.jobs = Tail(run.jobs)
      /\ run'.listed = (IF ok THEN run.listed \cup {p} ELSE run.listed)
      /\ run'.errors = (IF ok THEN run.errors ELSE run.errors \cup {p})
  BY <1>1, RenderDoes
<1> HIDE DEF p
<1>3. run.errors \subseteq run'.errors /\ run.listed \subseteq run'.listed /\ p \in run'.listed \cup run'.errors
  BY <1>2
<1> QED BY <1>2, <1>3, IncludeJob DEF p

LEMMA IncludeSkipTemplate ==
  ASSUME IncludeInv, SkipTemplate
  PROVE  RunCovers' /\ ManifestCovers'
<1>1. run.on /\ run.jobs # <<>> /\ Head(run.jobs)[3] \notin Templates /\ UNCHANGED <<idl, unseen>>
  BY DEF SkipTemplate, history
<1>2. /\ run'.on = TRUE /\ run'.tuples = run.tuples /\ run'.jobs = Tail(run.jobs)
      /\ run'.listed = run.listed /\ run'.errors = run.errors
  BY <1>1 DEF SkipTemplate, IncludeInv, ListedInv, TypeInv, FreshInv, RunTyped
<1> QED BY <1>1, <1>2, IncludeJob

LEMMA IncludeAbort ==
  ASSUME IncludeInv, Abort
  PROVE  RunCovers' /\ ManifestCovers'
<1>1. run.on /\ run'.on = FALSE /\ outcome' = "failed" /\ UNCHANGED <<idl, newer, stamp, unseen>>
  BY IdleJobs DEF Abort, history
<1>2. Stale'
  BY <1>1 DEF IncludeInv, ListedInv, ManifestSound, Stirred, Stale, Seen, ShouldGenerate
<1> QED BY <1>1, <1>2 DEF RunCovers, ManifestCovers

LEMMA IncludeFinish ==
  ASSUME IncludeInv, FinishRun
  PROVE  RunCovers' /\ ManifestCovers'
<1>1. /\ run.on /\ run.jobs = <<>> /\ run.tuples = <<>> /\ run'.on = FALSE /\ UNCHANGED <<idl, unseen>>
      /\ manifest' = run.listed /\ printed' = run.errors
  BY IdleJobs DEF FinishRun, history
<1>2. ToSet(run.jobs) = {} /\ ToSet(run.tuples) = {}
  BY <1>1 DEF ToSet
<1>3. ASSUME \A g \in Watched : Seen(g), NEW f \in Files PROVE Covered(f, manifest \cup printed, printed)'
  <2>1. Covered(f, run.listed \cup run.errors \cup ToSet(run.jobs), run.errors)
    BY <1>1, <1>2, <1>3 DEF IncludeInv, RunCovers, Seen, Watched
  <2> QED BY <1>1, <1>2, <2>1 DEF Covered, NoDirectory
<1>4. (\A f \in Watched : Seen(f)) \/ Stale'
  BY <1>1 DEF Stale, Seen
<1> QED BY <1>1, <1>3, <1>4 DEF RunCovers, ManifestCovers

LEMMA IncludeStep == IncludeInv /\ [Next]_vars => IncludeInv'
<1> SUFFICES ASSUME IncludeInv, [Next]_vars PROVE RunCovers' /\ ManifestCovers'
  BY ListedStep DEF IncludeInv
<1>1. ASSUME NEW f \in Files, NEW fresh \in BOOLEAN, NEW c \in Contents[f], EditIdl(f, c, fresh) PROVE RunCovers' /\ ManifestCovers'
  <2>1. f \in Watched /\ Change(f, fresh) /\ \A g \in Files : g # f => idl'[g] = idl[g]
    BY <1>1 DEF EditIdl, IncludeInv, ListedInv, TypeInv, ContentsInPlace, Watched
  <2> QED BY <2>1, IncludeChange
<1>2. ASSUME NEW fresh \in BOOLEAN, Upgrade(fresh) PROVE RunCovers' /\ ManifestCovers'
  <2>1. Tools \in Watched /\ Change(Tools, fresh) /\ \A g \in Files : idl'[g] = idl[g]
    BY <1>2 DEF Upgrade, Watched
  <2> QED BY <2>1, IncludeChange
<1>3. CASE ConfigureFails
  <2>1. ~run.on /\ outcome' = "failed" /\ UNCHANGED <<idl, newer, stamp, run, manifest, printed, unseen>>
    BY <1>3 DEF ConfigureFails, history, IncludeInv, ListedInv, TypeInv, FreshInv, RunReads
  <2>2. Stale => Stale'
    BY <2>1 DEF Stale, Seen, ShouldGenerate
  <2> QED BY <2>1, <2>2, IncludeOutside
<1>4. ASSUME NEW ok \in BOOLEAN, Analyse(ok) PROVE RunCovers' /\ ManifestCovers'
  <2>1. ~run.on /\ UNCHANGED <<idl, newer, stamp, run, manifest, printed, outcome>>
    BY <1>4 DEF Analyse, IncludeInv, ListedInv, TypeInv, FreshInv, RunReads
  <2>2. \A f \in Watched : unseen'[f] = unseen[f] \ {"links"}
    BY <1>4 DEF Analyse
  <2>3. Stale => Stale'
    BY <2>1, <2>2 DEF Stale, Seen, ShouldGenerate
  <2> QED BY <2>1, <2>3, IncludeOutside
<1>5. CASE SkipGeneration
  <2>1. ~run.on /\ ~ShouldGenerate /\ UNCHANGED <<idl, run, manifest, printed, unseen>>
    BY <1>5 DEF SkipGeneration, history
  <2>2. Stale => Stale'
    BY <2>1 DEF Stale, Seen
  <2> QED BY <2>1, <2>2, IncludeOutside
<1>6. ASSUME NEW f \in Files, BeginFile(f) PROVE RunCovers' /\ ManifestCovers'
  BY <1>6, IncludeBegin
<1>7. ASSUME NEW ok \in BOOLEAN, RenderArtifact(ok) PROVE RunCovers' /\ ManifestCovers'
  BY <1>7, IncludeRender
<1>8. CASE UNCHANGED vars
  <2>1. UNCHANGED <<idl, newer, stamp, run, manifest, printed, outcome, unseen>>
    BY <1>8 DEF vars
  <2>2. Stale' <=> Stale
    BY <2>1 DEF Stale, Seen, ShouldGenerate
  <2> QED BY <2>1, <2>2 DEF IncludeInv, RunCovers, ManifestCovers, Covered, NoDirectory
<1> QED
  BY <1>1, <1>2, <1>3, <1>4, <1>5, <1>6, <1>7, <1>8, IncludeStart, IncludeSkipTemplate, IncludeAbort, IncludeFinish DEF Next

\* What is in two sequences, one after the other.
LEMMA SetOfBoth ==
  ASSUME NEW S, NEW s \in Seq(S), NEW t \in Seq(S)
  PROVE  ToSet(s \o t) = ToSet(s) \cup ToSet(t)
<1>1. s \o t \in Seq(S) /\ Len(s \o t) = Len(s) + Len(t)
  OBVIOUS
<1>2. ASSUME NEW i \in DOMAIN (s \o t) PROVE (s \o t)[i] \in ToSet(s) \cup ToSet(t)
  <2>1. CASE i <= Len(s)
    <3>1. i \in DOMAIN s /\ (s \o t)[i] = s[i]
      BY <1>1, <1>2, <2>1
    <3> QED BY <3>1 DEF ToSet
  <2>2. CASE ~(i <= Len(s))
    <3>1. i - Len(s) \in DOMAIN t /\ (s \o t)[i] = t[i - Len(s)]
      BY <1>1, <1>2, <2>2
    <3> QED BY <3>1 DEF ToSet
  <2> QED BY <2>1, <2>2
<1>3. ASSUME NEW i \in DOMAIN s PROVE s[i] \in ToSet(s \o t)
  <2>1. i \in DOMAIN (s \o t) /\ (s \o t)[i] = s[i]
    BY <1>1
  <2> QED BY <2>1 DEF ToSet
<1>4. ASSUME NEW i \in DOMAIN t PROVE t[i] \in ToSet(s \o t)
  <2>1. i + Len(s) \in DOMAIN (s \o t) /\ (s \o t)[i + Len(s)] = t[i]
    BY <1>1
  <2> QED BY <2>1 DEF ToSet
<1>5. ToSet(s \o t) \subseteq ToSet(s) \cup ToSet(t)
  BY <1>2 DEF ToSet
<1>6. ToSet(s) \subseteq ToSet(s \o t) /\ ToSet(t) \subseteq ToSet(s \o t)
  BY <1>3, <1>4 DEF ToSet
<1> QED BY <1>5, <1>6

\* The artifacts of a message: each is in the directory asked for, under its
\* name, and is a header or has its header beside it.
LEMMA ArtifactOfMessage ==
  ASSUME NEW m, NEW dir, NEW p \in ToSet(MessageArtifacts(m, dir))
  PROVE  /\ p[1] = dir /\ p[2] = m.name /\ p[3][1] \in Roles /\ p[3][2] \in {"hpp", "cpp"}
         /\ <<Package, m.name>> \notin Mapped
         /\ <<dir, m.name, <<p[3][1], "hpp">>>> \in ToSet(MessageArtifacts(m, dir))
<1> DEFINE roles == MessageRoles(m, dir)
<1>1. roles \in Seq(Roles) /\ Len(roles) \in Nat /\ DOMAIN RoleFiles(roles) = 1..2 * Len(roles)
  BY RolesAreSequence, RoleFilesAreSequence
<1>2. MessageArtifacts(m, dir) = [n \in 1..2 * Len(roles) |-> <<dir, m.name, RoleFiles(roles)[n]>>]
  BY <1>1 DEF MessageArtifacts
<1>3. PICK n \in 1..2 * Len(roles) : p = <<dir, m.name, RoleFiles(roles)[n]>>
  BY <1>2 DEF ToSet
<1>4. PICK k : k = (n + 1) \div 2
  OBVIOUS
<1>5. k \in 1..Len(roles)
  BY <1>1, <1>3, <1>4
<1>6. RoleFiles(roles)[n] = <<roles[k], IF n % 2 = 1 THEN "hpp" ELSE "cpp">>
  BY <1>1, <1>3, <1>4 DEF RoleFiles
<1>7. roles[k] \in Roles
  BY <1>1, <1>5
<1>8. <<Package, m.name>> \notin Mapped
  BY <1>1, <1>5 DEF MessageRoles
<1>9. PICK j : j = 2 * k - 1
  OBVIOUS
<1>10. j \in 1..2 * Len(roles) /\ (j + 1) \div 2 = k /\ j % 2 = 1
  BY <1>1, <1>5, <1>9
<1>11. RoleFiles(roles)[j] = <<roles[k], "hpp">>
  BY <1>1, <1>10 DEF RoleFiles
<1> HIDE DEF roles
<1>12. <<dir, m.name, <<roles[k], "hpp">>>> \in ToSet(MessageArtifacts(m, dir))
  BY <1>2, <1>10, <1>11 DEF ToSet
<1> QED BY <1>3, <1>6, <1>7, <1>8, <1>12

\* An artifact of a message has its name.
LEMMA ArtifactName ==
  \A m, dir : \A p \in ToSet(MessageArtifacts(m, dir)) : p[2] = m.name
<1> TAKE m, dir
<1> TAKE p \in ToSet(MessageArtifacts(m, dir))
<1>1. PICK n \in DOMAIN RoleFiles(MessageRoles(m, dir)) : p = <<dir, m.name, RoleFiles(MessageRoles(m, dir))[n]>>
  BY DEF ToSet, MessageArtifacts
<1> QED BY <1>1

\* A message that is not mapped has a value type below msg/, and with two
\* fields or more in every directory.
LEMMA ValueOfMessage ==
  ASSUME NEW m, NEW dir, <<Package, m.name>> \notin Mapped, dir \in {"srv", "action"} => NeedsWrapper(m)
  PROVE  <<dir, m.name, ValueHeader>> \in ToSet(MessageArtifacts(m, dir))
<1> DEFINE roles == MessageRoles(m, dir)
           utils == IF <<Package, m.name>> \in Helpers THEN <<"utils">> ELSE <<>>
           ends == IF dir = "msg" /\ m.name \notin NestedOnly THEN <<"publisher", "subscriber">> ELSE <<>>
<1>1. utils \in Seq(Roles) /\ ends \in Seq(Roles) /\ <<"value">> \in Seq(Roles)
  <2>1. <<"value">> \in Seq(Roles) /\ <<"utils">> \in Seq(Roles) /\ <<>> \in Seq(Roles) /\ <<"publisher", "subscriber">> \in Seq(Roles)
    BY DEF Roles
  <2> QED BY <2>1
<1>2. roles = <<"value">> \o utils \o ends
  BY DEF MessageRoles
<1> HIDE DEF utils, ends
<1>3. roles[1] = "value" /\ Len(roles) \in Nat /\ Len(roles) >= 1
  <2>1. <<"value">> \o utils \in Seq(Roles) /\ (<<"value">> \o utils)[1] = "value" /\ Len(<<"value">> \o utils) >= 1
    BY <1>1
  <2> DEFINE values == <<"value">> \o utils
  <2> HIDE DEF values
  <2>2. values \in Seq(Roles) /\ values[1] = "value" /\ Len(values) >= 1 /\ roles = values \o ends
    BY <1>2, <2>1 DEF values
  <2> HIDE DEF roles
  <2> QED BY <1>1, <2>2
<1>4. DOMAIN RoleFiles(roles) = 1..2 * Len(roles)
  BY <1>3 DEF RoleFiles
<1>5. 1 \in 1..2 * Len(roles)
  BY <1>3
<1> HIDE DEF roles
<1>6. RoleFiles(roles)[1] = ValueHeader
  <2>1. (1 + 1) \div 2 = 1 /\ 1 % 2 = 1
    OBVIOUS
  <2> QED BY <1>3, <1>5, <2>1 DEF RoleFiles, ValueHeader
<1>7. MessageArtifacts(m, dir) = [n \in 1..2 * Len(roles) |-> <<dir, m.name, RoleFiles(roles)[n]>>]
  BY <1>4 DEF MessageArtifacts, roles
<1>8. MessageArtifacts(m, dir)[1] = <<dir, m.name, ValueHeader>> /\ 1 \in DOMAIN MessageArtifacts(m, dir)
  BY <1>5, <1>6, <1>7
<1> QED BY <1>8 DEF ToSet

\* A message of a service or action that has any artifact has its value type.
LEMMA ArtifactNeedsValue ==
  ASSUME NEW m, NEW dir \in {"srv", "action"}, ~NeedsWrapper(m)
  PROVE  ToSet(MessageArtifacts(m, dir)) = {}
<1>1. MessageRoles(m, dir) = IF <<Package, m.name>> \in Mapped THEN <<>> ELSE <<>> \o <<>>
  BY DEF MessageRoles
<1>2. <<>> \o <<>> = <<>> /\ Len(<<>>) = 0
  OBVIOUS
<1>3. DOMAIN RoleFiles(MessageRoles(m, dir)) = {}
  BY <1>1, <1>2 DEF RoleFiles
<1> QED BY <1>3 DEF MessageArtifacts, ToSet

LEMMA SequenceOfMore ==
  ASSUME NEW S, NEW T, S \subseteq T, NEW s \in Seq(S)
  PROVE  s \in Seq(T)
OBVIOUS

DirOf(c) == IF c.kind = "msg" THEN c.dir ELSE c.kind

\* The client and server of an interface.
EndsOf(f, c) == {<<c.kind, f, <<role, ext>>>> : role \in {"client", "server"}, ext \in {"hpp", "cpp"}}

\* The artifacts of a file are those of its interface and of its messages.
LEMMA SetOfArtifacts ==
  ASSUME NEW f, NEW c, c.is = "ok"
  PROVE  ToSet(Artifacts(f, c)) = (IF c.kind \in {"srv", "action"} THEN EndsOf(f, c) ELSE {})
             \cup ToSet(OfMessage(c, 1)) \cup ToSet(OfMessage(c, 2)) \cup ToSet(OfMessage(c, 3))
<1> DEFINE own == [n \in 1..4 |-> <<c.kind, f, RoleFiles(<<"client", "server">>)[n]>>]
<1>1. own \in Seq(EndsOf(f, c)) /\ ToSet(own) = EndsOf(f, c)
  <2>1. RoleFiles(<<"client", "server">>) = [n \in 1..4 |-> <<<<"client", "server">>[(n + 1) \div 2], IF n % 2 = 1 THEN "hpp" ELSE "cpp">>]
    BY DEF RoleFiles
  <2>2. /\ (1 + 1) \div 2 = 1 /\ (2 + 1) \div 2 = 1 /\ (3 + 1) \div 2 = 2 /\ (4 + 1) \div 2 = 2
        /\ 1 % 2 = 1 /\ 2 % 2 = 0 /\ 3 % 2 = 1 /\ 4 % 2 = 0
    OBVIOUS
  <2>3. /\ own[1] = <<c.kind, f, <<"client", "hpp">>>> /\ own[2] = <<c.kind, f, <<"client", "cpp">>>>
        /\ own[3] = <<c.kind, f, <<"server", "hpp">>>> /\ own[4] = <<c.kind, f, <<"server", "cpp">>>>
    BY <2>1, <2>2
  <2>4. DOMAIN own = {1, 2, 3, 4}
    OBVIOUS
  <2>5. EndsOf(f, c) = {own[1], own[2], own[3], own[4]}
    BY <2>3 DEF EndsOf
  <2>6. own = [n \in 1..4 |-> own[n]] /\ \A n \in 1..4 : own[n] \in EndsOf(f, c)
    BY <2>5
  <2> HIDE DEF own
  <2>7. ToSet(own) = {own[1], own[2], own[3], own[4]}
    BY <2>4 DEF ToSet
  <2>8. own \in Seq(EndsOf(f, c))
    BY <2>6
  <2> QED BY <2>5, <2>7, <2>8
<1>2. Artifacts(f, c) = CASE c.kind = "srv" -> own \o OfMessages(c)
                          [] c.kind = "action" -> OfMessages(c) \o own
                          [] OTHER -> OfMessages(c)
  BY Zenon DEF Artifacts, OfMessages, OfMessage
<1> DEFINE S == ToSet(OfMessage(c, 1)) \cup ToSet(OfMessage(c, 2)) \cup ToSet(OfMessage(c, 3))
           T == S \cup EndsOf(f, c)
<1>3. OfMessage(c, 1) \in Seq(T) /\ OfMessage(c, 2) \in Seq(T) /\ OfMessage(c, 3) \in Seq(T) /\ own \in Seq(T)
  <2>1. OfMessage(c, 1) \in Seq(ToSet(OfMessage(c, 1))) /\ OfMessage(c, 2) \in Seq(ToSet(OfMessage(c, 2))) /\ OfMessage(c, 3) \in Seq(ToSet(OfMessage(c, 3)))
    BY OfMessageIsSequence
  <2> HIDE DEF own
  <2> QED BY <1>1, <2>1, SequenceOfMore
<1> HIDE DEF own, T
<1>4. OfMessages(c) \in Seq(T) /\ ToSet(OfMessages(c)) = S
  <2>1. OfMessage(c, 1) \o OfMessage(c, 2) \in Seq(T)
    BY <1>3
  <2>2. ToSet(OfMessage(c, 1) \o OfMessage(c, 2)) = ToSet(OfMessage(c, 1)) \cup ToSet(OfMessage(c, 2))
    BY <1>3, SetOfBoth
  <2> DEFINE two == OfMessage(c, 1) \o OfMessage(c, 2)
  <2> HIDE DEF two
  <2>4. two \in Seq(T)
    BY <2>1 DEF two
  <2>5. ToSet(two \o OfMessage(c, 3)) = ToSet(two) \cup ToSet(OfMessage(c, 3))
    BY <1>3, <2>4, SetOfBoth
  <2>3. ToSet(OfMessages(c)) = ToSet(OfMessage(c, 1) \o OfMessage(c, 2)) \cup ToSet(OfMessage(c, 3))
    BY <2>5 DEF OfMessages, two
  <2> QED BY <1>3, <2>1, <2>2, <2>3 DEF OfMessages
<1>5. ToSet(own \o OfMessages(c)) = EndsOf(f, c) \cup S /\ ToSet(OfMessages(c) \o own) = S \cup EndsOf(f, c)
  BY <1>1, <1>3, <1>4, SetOfBoth
<1>6. ToSet(Artifacts(f, c)) = (IF c.kind \in {"srv", "action"} THEN EndsOf(f, c) ELSE {}) \cup S
  <2> HIDE DEF S
  <2>1. CASE c.kind = "srv"
    BY <1>2, <1>5, <2>1
  <2>2. CASE c.kind = "action"
    BY <1>2, <1>5, <2>2
  <2>3. CASE c.kind \notin {"srv", "action"}
    BY <1>2, <1>4, <2>3
  <2> QED BY <2>1, <2>2, <2>3
<1> QED BY <1>6

\* All artifacts of each message are among those of its file.
LEMMA MessagesIncluded ==
  ASSUME NEW f \in Files, NEW c \in Contents[f], c.is = "ok", NEW m \in ToSet(c.messages)
  PROVE  ToSet(MessageArtifacts(m, DirOf(c))) \subseteq ToSet(Artifacts(f, c))
<1>1. DOMAIN c.messages \subseteq 1..3
  BY ReferencesAssumption
<1>2. PICK n \in {1, 2, 3} : n \in DOMAIN c.messages /\ m = c.messages[n]
  <2>1. PICK n \in DOMAIN c.messages : m = c.messages[n]
    BY DEF ToSet
  <2>2. n \in 1..3
    BY <1>1
  <2> QED BY <2>1, <2>2
<1>3. OfMessage(c, n) = MessageArtifacts(m, DirOf(c))
  BY <1>2 DEF OfMessage, DirOf
<1> QED BY <1>2, <1>3, SetOfArtifacts

\* An artifact of a file is an end of its interface or of one of its messages.
LEMMA ArtifactsOf ==
  ASSUME NEW f, NEW c, NEW p \in ToSet(Artifacts(f, c))
  PROVE  /\ c.is = "ok"
         /\ \/ c.kind \in {"srv", "action"} /\ p \in EndsOf(f, c) /\ EndsOf(f, c) \subseteq ToSet(Artifacts(f, c))
            \/ \E m \in ToSet(c.messages) : p \in ToSet(MessageArtifacts(m, DirOf(c)))
<1>1. c.is = "ok"
  <2>1. c.is # "ok" => Artifacts(f, c) = <<>>
    BY DEF Artifacts
  <2>2. ToSet(<<>>) = {}
    BY DEF ToSet
  <2> QED BY <2>1, <2>2
<1>2. ASSUME NEW n, p \in ToSet(OfMessage(c, n)) PROVE \E m \in ToSet(c.messages) : p \in ToSet(MessageArtifacts(m, DirOf(c)))
  <2>1. n \in DOMAIN c.messages /\ OfMessage(c, n) = MessageArtifacts(c.messages[n], DirOf(c))
    BY <1>2 DEF OfMessage, DirOf, ToSet
  <2>2. c.messages[n] \in ToSet(c.messages)
    BY <2>1 DEF ToSet
  <2> QED BY <1>2, <2>1, <2>2
<1>3. \/ c.kind \in {"srv", "action"} /\ p \in EndsOf(f, c) /\ EndsOf(f, c) \subseteq ToSet(Artifacts(f, c))
      \/ p \in ToSet(OfMessage(c, 1)) \/ p \in ToSet(OfMessage(c, 2)) \/ p \in ToSet(OfMessage(c, 3))
  <2>1. CASE c.kind \in {"srv", "action"}
    BY <1>1, <2>1, SetOfArtifacts
  <2>2. CASE c.kind \notin {"srv", "action"}
    BY <1>1, <2>2, SetOfArtifacts
  <2> QED BY <2>1, <2>2
<1> QED BY <1>1, <1>2, <1>3

\* When a configure has read everything and nothing was printed: every file is
\* covered by what is listed, and none is missing.
Covering == \A f \in Files : Covered(f, manifest, {}) /\ idl[f].is # "missing"

LEMMA ConfiguredCovered == IncludeInv /\ Configured /\ AllRead /\ printed = {} => Covering
<1> SUFFICES ASSUME IncludeInv, Configured, AllRead, printed = {}, NEW f \in Files
             PROVE  Covered(f, manifest, {}) /\ idl[f].is # "missing"
  BY DEF Covering
<1>1. ~run.on /\ ~Stale
  BY ConfiguredSound DEF IncludeInv
<1>2. Covered(f, manifest \cup {}, {})
  BY <1>1 DEF IncludeInv, ManifestCovers
<1>3. idl[f].is # "missing"
  BY DEF IncludeInv, ListedInv, AnalysisKnown, AllRead, Read, Watched
<1> QED BY <1>2, <1>3 DEF Covered

\* The value type of a message is listed.
LEMMA ValueListed ==
  ASSUME TypeInv, Covering, NEW f \in Files, idl[f].is = "ok", NEW m \in ToSet(idl[f].messages), <<Package, m.name>> \notin Mapped,
         DirOf(idl[f]) \in {"srv", "action"} => NeedsWrapper(m)
  PROVE  <<DirOf(idl[f]), m.name, ValueHeader>> \in manifest
<1> DEFINE v == <<DirOf(idl[f]), m.name, ValueHeader>>
<1>1. v \in ToSet(Artifacts(f, idl[f]))
  BY ValueOfMessage, MessagesIncluded, InPlace
<1>2. v[3] \in Templates
  BY TemplatesAssumption
<1> QED BY <1>1, <1>2 DEF Covering, Covered

\* A message that a field or a computed property names is found at its header:
\* its file was read, has a directory, and its value type did not fail.
LEMMA HeaderListed ==
  ASSUME TypeInv, Covering, NEW f \in Files, NEW q \in References(idl[f]) \ Mapped, q = <<Package, q[2]>>
  PROVE  <<"msg", q[2], ValueHeader>> \in manifest
<1>1. PICK g : g = q[2]
  OBVIOUS
<1>2. g \in Files /\ \A d \in Contents[g] : d.is = "ok" => d.kind = "msg" /\ d.dir \in {"msg", "none"} /\ d.messages[1].name = g
  BY <1>1, InPlace, ReferencesAssumption
<1>3. idl[g] \in Contents[g]
  BY <1>2, InPlace
<1>4. idl[g].is = "ok"
  BY <1>2, <1>3, ReferencesAssumption DEF Covering, Covered
<1>5. PICK m : m = idl[g].messages[1]
  OBVIOUS
<1>6. /\ idl[g].kind = "msg" /\ idl[g].dir \in {"msg", "none"} /\ m.name = g
      /\ m \in ToSet(idl[g].messages)
  <2>1. DOMAIN idl[g].messages = {1}
    BY <1>2, <1>3, <1>4, ReferencesAssumption
  <2> QED BY <1>2, <1>3, <1>4, <1>5, <2>1 DEF ToSet
<1>7. <<Package, m.name>> \notin Mapped
  BY <1>1, <1>6
<1>8. DirOf(idl[g]) = "msg"
  <2>1. ~NoDirectory(idl[g])
    BY <1>2 DEF Covering, Covered
  <2> QED BY <1>6, <1>7, <2>1 DEF NoDirectory, DirOf
<1> QED BY <1>1, <1>2, <1>4, <1>6, <1>7, <1>8, ValueListed

-----------------------------------------------------------------------------
(* What is included is there, or one of the gaps that the model names *)

Resolved(r, p) ==
    \/ Headerless(r)
    \/ r.ref[1] = Package /\ Listed(r)
    \/ r.ref[1] # Package /\ (Found(r, p) \/ Unqualified(r) \/ AnalysisLost(r, p))

\* A header of another package, which both analyses know unless one failed.
LEMMA ForeignResolved ==
  ASSUME NEW c, NEW p, NEW r, Knows(analysis, c), Knows(disk[p].analysis, c), r.ref[1] \in DependenciesOf(c), r.ref[1] # Package
  PROVE  Resolved(r, p)
<1> SUFFICES ASSUME ~AnalysisLost(r, p), ~Unqualified(r) PROVE Found(r, p)
  BY DEF Resolved
<1>1. r.ref[1] \in Linked
  BY DEF AnalysisLost, Linked, Knows
<1>2. r.ref[1] \in Local => r.ref[1] \in NamesKnown(disk[p].analysis)
  BY DEF AnalysisLost, NamesKnown, Knows
<1> QED BY <1>1, <1>2 DEF Found, Unqualified

\* The header of a message that a field names, whatever way it is asked for.
LEMMA NestedResolved ==
  ASSUME TypeInv, Covering, NEW f \in Files, NEW p, idl[f].is = "ok", Knows(analysis, idl[f]), Knows(disk[p].analysis, idl[f]),
         NEW m \in ToSet(idl[f].messages), NEW q \in Nested(m), NEW r \in {Nearest(q), Angled(q, "msg"), Quoted(q, "value")}
  PROVE  Resolved(r, p)
<1>1. r.ref = q /\ r.role = "value" /\ (r.form = "quoted" \/ r.dir = "msg")
  BY DEF Nearest, Angled, Quoted
<1>2. q \in References(idl[f])
  BY DEF References
<1>3. CASE q \in Mapped
  BY <1>1, <1>3 DEF Resolved, Headerless
<1>4. CASE q \notin Mapped /\ q[1] = Package
  <2>1. q = <<q[1], q[2]>>
    <3>1. PICK t \in ToSet(m.fields) : q = t.ref
      BY DEF Nested
    <3>2. IsType(t)
      BY InPlace, ContentsAssumption
    <3>3. t.ref \in STRING \X STRING
      BY <3>2 DEF IsType
    <3> QED BY <3>1, <3>3
  <2>2. <<"msg", q[2], ValueHeader>> \in manifest
    BY <1>2, <1>4, <2>1, HeaderListed
  <2>3. Listed(r)
    <3> DEFINE h == <<"msg", q[2], ValueHeader>>
    <3>1. h[1] = "msg" /\ h[2] = r.ref[2] /\ h[3] = <<r.role, "hpp">>
      BY <1>1 DEF ValueHeader
    <3> HIDE DEF h
    <3>2. h \in manifest
      BY <2>2 DEF h
    <3> QED BY <1>1, <3>1, <3>2 DEF Listed
  <2> QED BY <1>1, <1>4, <2>3 DEF Resolved
<1>5. CASE q[1] # Package
  <2>1. q[1] \in DependenciesOf(idl[f])
    BY <1>5 DEF DependenciesOf
  <2> QED BY <1>1, <1>5, <2>1, ForeignResolved
<1> QED BY <1>3, <1>4, <1>5

\* The value header of a message itself.
LEMMA OwnResolved ==
  ASSUME TypeInv, Covering, NEW f \in Files, NEW p, idl[f].is = "ok", NEW m \in ToSet(idl[f].messages),
         DirOf(idl[f]) \in {"srv", "action"} => NeedsWrapper(m),
         NEW r, r.ref = Own(m), r.role = "value", r.form = "quoted" \/ r.dir = DirOf(idl[f])
  PROVE  Resolved(r, p)
<1>1. CASE Own(m) \in Mapped
  BY <1>1 DEF Resolved, Headerless
<1>2. CASE Own(m) \notin Mapped
  <2> DEFINE h == <<DirOf(idl[f]), m.name, ValueHeader>>
  <2>1. h \in manifest
    BY <1>2, ValueListed DEF Own
  <2>2. h[1] = DirOf(idl[f]) /\ h[2] = r.ref[2] /\ h[3] = <<r.role, "hpp">> /\ r.ref[1] = Package
    BY DEF ValueHeader, Own
  <2> HIDE DEF h
  <2> QED BY <2>1, <2>2 DEF Resolved, Listed
<1> QED BY <1>1, <1>2

LEMMA IncludesHold == IncludeInv => IncludesResolved
<1> SUFFICES ASSUME IncludeInv, Configured, AllRead, printed = {},
                    NEW f \in Files, NEW p \in ToSet(Artifacts(f, idl[f])) \cap manifest,
                    NEW r \in Includes(p, f, idl[f])
             PROVE  Resolved(r, p)
  BY DEF IncludesResolved, Resolved
<1>1. PICK c : c = idl[f]
  OBVIOUS
<1>2. PICK m : m = CHOOSE x \in ToSet(c.messages) : x.name = p[2]
  OBVIOUS
<1>3. TypeInv /\ Covering /\ Sound
  BY ConfiguredCovered, ConfiguredSound DEF IncludeInv, ListedInv
<1>4. c \in Contents[f] /\ c.is = "ok"
  BY <1>1, <1>3, InPlace, ArtifactsOf
<1>5. Knows(analysis, c) /\ Knows(disk[p].analysis, c)
  <2>1. Knows(analysis, c)
    BY <1>1 DEF IncludeInv, ListedInv, AnalysisKnown, AllRead, Read, Watched
  <2> QED BY <1>1, <1>3, <2>1 DEF Sound, Complete
<1>6. ASSUME NEW x \in ToSet(c.messages), NEW q \in Nested(x), r \in {Nearest(q), Angled(q, "msg"), Quoted(q, "value")}
      PROVE  Resolved(r, p)
  BY <1>1, <1>3, <1>4, <1>5, <1>6, NestedResolved
<1>7. \/ c.kind \in {"srv", "action"} /\ p \in EndsOf(f, c) /\ EndsOf(f, c) \subseteq ToSet(Artifacts(f, c))
      \/ \E x \in ToSet(c.messages) : p \in ToSet(MessageArtifacts(x, DirOf(c)))
  BY <1>1, ArtifactsOf
<1>8. CASE p[3][2] = "cpp"
  <2>1. <<p[1], p[2], <<p[3][1], "hpp">>>> \in ToSet(Artifacts(f, c))
    <3>1. CASE p \in EndsOf(f, c) /\ EndsOf(f, c) \subseteq ToSet(Artifacts(f, c))
      BY <3>1 DEF EndsOf
    <3>2. ASSUME NEW x \in ToSet(c.messages), p \in ToSet(MessageArtifacts(x, DirOf(c)))
          PROVE  <<p[1], p[2], <<p[3][1], "hpp">>>> \in ToSet(Artifacts(f, c))
      BY <1>4, <3>2, ArtifactOfMessage, MessagesIncluded
    <3> QED BY <1>7, <3>1, <3>2
  <2>2. <<p[3][1], "hpp">> \in Templates
    BY <1>3, <1>8, TemplatesAssumption DEF TypeInv, ManifestTyped
  <2>3. PICK h : h = <<p[1], p[2], <<p[3][1], "hpp">>>>
    OBVIOUS
  <2>4. h \in manifest
    BY <1>1, <1>3, <2>1, <2>2, <2>3 DEF Covering, Covered
  <2>5. r = Quoted(<<Package, p[2]>>, p[3][1])
    BY <1>8 DEF Includes
  <2>6. r.ref[1] = Package /\ h[2] = r.ref[2] /\ h[3] = <<r.role, "hpp">> /\ r.form = "quoted"
    BY <2>3, <2>5 DEF Quoted
  <2> QED BY <2>4, <2>6 DEF Resolved, Listed
<1>9. CASE p[3][2] # "cpp" /\ p[3][1] \in {"client", "server"}
  <2>1. c.kind \in {"srv", "action"}
    BY <1>7, <1>9, ArtifactOfMessage DEF Roles
  <2>2. r \in UNION {PayloadIncludes(x, c.kind) : x \in ToSet(c.messages)}
    BY <1>1, <1>9 DEF Includes
  <2>3. PICK x \in ToSet(c.messages) : r \in PayloadIncludes(x, c.kind)
    BY <2>2
  <2>4. CASE NeedsWrapper(x)
    <3>1. r = IF c.kind = "srv" THEN Angled(Own(x), "srv") ELSE Quoted(Own(x), "value")
      BY <2>3, <2>4 DEF PayloadIncludes
    <3>2. r.ref = Own(x) /\ r.role = "value" /\ (r.form = "quoted" \/ r.dir = DirOf(c))
      BY <2>1, <3>1 DEF Angled, Quoted, DirOf
    <3> QED BY <1>1, <1>3, <1>4, <2>4, <3>2, OwnResolved
  <2>5. CASE ~NeedsWrapper(x)
    <3>1. PICK q \in Nested(x) : r = IF c.kind = "srv" THEN Angled(q, "msg") ELSE Nearest(q)
      BY <2>3, <2>5 DEF PayloadIncludes
    <3> QED BY <1>6, <3>1
  <2> QED BY <2>4, <2>5
<1>10. CASE p[3][2] # "cpp" /\ p[3][1] \notin {"client", "server"}
  <2>1. PICK x \in ToSet(c.messages) : p \in ToSet(MessageArtifacts(x, DirOf(c)))
    BY <1>7, <1>10 DEF EndsOf
  <2>2. x.name = p[2]
    BY <2>1, ArtifactName
  <2>3. m \in ToSet(c.messages) /\ m.name = p[2]
    BY <1>2, <2>1, <2>2
  <2>4. DirOf(c) \in {"srv", "action"} => NeedsWrapper(x)
    BY <2>1, ArtifactNeedsValue
  <2>5. ASSUME r = Quoted(Own(m), "value") PROVE Resolved(r, p)
    <3>1. r.ref = Own(x) /\ r.role = "value" /\ r.form = "quoted"
      BY <2>2, <2>3, <2>5 DEF Quoted, Own
    <3> QED BY <1>1, <1>3, <1>4, <2>4, <3>1, OwnResolved
  <2>6. CASE p[3][1] \in {"publisher", "subscriber"}
    <3>1. r \in PublishedAs(m)
      BY <1>1, <1>2, <1>10, <2>6 DEF Includes
    <3>2. r = Quoted(Own(m), "value") \/ \E q \in Nested(m) : r = Quoted(q, "value")
      BY <3>1 DEF PublishedAs
    <3> QED BY <1>6, <2>3, <2>5, <3>2
  <2>7. CASE p[3][1] = "utils"
    BY <1>1, <1>2, <1>10, <2>5, <2>7 DEF Includes
  <2>8. CASE p[3][1] \notin {"publisher", "subscriber", "utils"}
    <3>1. r \in ValueIncludes(m)
      BY <1>1, <1>2, <1>10, <2>8 DEF Includes
    <3>2. CASE \E q \in Nested(m) : r = Nearest(q)
      BY <1>6, <2>3, <3>2
    <3>3. CASE \E k \in ExtraIncludes : r = Quoted(k[2], "value")
      <4>1. PICK k \in ExtraIncludes : r = Quoted(k[2], "value")
        BY <3>3
      <4>2. PICK q : q = k[2]
        OBVIOUS
      <4>3. q = <<Package, q[2]>> /\ q \in References(c)
        BY <4>2, ReferencesAssumption DEF References
      <4>4. q \notin Mapped => <<"msg", q[2], ValueHeader>> \in manifest
        BY <1>1, <1>3, <4>3, HeaderListed
      <4>5. r.ref = q /\ r.role = "value" /\ r.form = "quoted"
        BY <4>1, <4>2 DEF Quoted
      <4>6. q \notin Mapped => Listed(r)
        <5> DEFINE h == <<"msg", q[2], ValueHeader>>
        <5>1. h[2] = r.ref[2] /\ h[3] = <<r.role, "hpp">>
          BY <4>5 DEF ValueHeader
        <5> HIDE DEF h
        <5>2. q \notin Mapped => h \in manifest
          BY <4>4 DEF h
        <5> QED BY <4>5, <5>1, <5>2 DEF Listed
      <4> QED BY <4>3, <4>5, <4>6 DEF Resolved, Headerless
    <3> QED BY <3>1, <3>2, <3>3 DEF ValueIncludes
  <2> QED BY <2>6, <2>7, <2>8
<1> QED BY <1>8, <1>9, <1>10

\* Whatever the files say of each other, however they and the generator were
\* changed between and during the runs: when a configure has read them all and
\* nothing was printed, the compiler finds each header that the generated code
\* includes, in the package or in one that is linked, but for the gaps that
\* the property names.
THEOREM IncludesCorrect == Spec => []IncludesResolved
BY IncludeInit, IncludeStep, IncludesHold, PTL DEF Spec

-----------------------------------------------------------------------------
(* The way of a field through its value type, for any number of elements *)

\* How an element is converted, there and back.
Into(t) == IF IsText(t) THEN Text(t, "fromStdString", "fromStdWString") ELSE IF IsMapped(t) THEN "from_ros" ELSE "copy"
Back(t) == IF IsText(t) THEN Text(t, "toStdString", "toStdWString") ELSE IF IsMapped(t) THEN "to_ros" ELSE "static_cast"

LEMMA ElementFaithful ==
  ASSUME NEW t, IsType(t), t.kind # "wstring", NEW v
  PROVE  /\ Convert(Into(t), <<RosType(t), v>>) = <<QtType(t), v>>
         /\ Convert(Back(t), <<QtType(t), v>>) = <<RosType(t), v>>
<1>1. t.kind \in {"basic", "byte", "string", "nested"} /\ (t.kind # "nested" => t.ref = NoRef)
  BY DEF IsType, Kinds
<1>2. CASE t.kind \in {"basic", "byte"}
  <2>1. ~IsText(t) /\ ~IsMapped(t) /\ Into(t) = "copy" /\ Back(t) = "static_cast" /\ QtType(t) = RosType(t)
    BY <1>2 DEF IsText, IsMapped, Into, Back, QtType
  <2> QED BY <1>2, <2>1 DEF Convert, RosType
<1>3. CASE t.kind = "string"
  <2>1. /\ QtType(t) = <<"QString", NoRef>> /\ RosType(t) = <<"string", NoRef>>
        /\ Into(t) = "fromStdString" /\ Back(t) = "toStdString"
    BY <1>1, <1>3 DEF IsText, Into, Back, Text, QtType, RosType
  <2> QED BY <2>1 DEF Convert
<1>4. CASE t.kind = "nested" /\ t.ref \in Mapped
  <2>2. ~IsText(t) /\ IsMapped(t)
    BY <1>4 DEF IsText, IsMapped
  <2>1. Into(t) = "from_ros" /\ Back(t) = "to_ros" /\ QtType(t) = <<"native", t.ref>>
    BY <1>4, <2>2 DEF Into, Back, QtType
  <2> QED BY <1>4, <2>1 DEF Convert, RosType
<1>5. CASE t.kind = "nested" /\ t.ref \notin Mapped
  <2>1. ~IsText(t) /\ ~IsMapped(t) /\ Into(t) = "copy" /\ Back(t) = "static_cast" /\ QtType(t) = <<"wrapper", t.ref>>
    BY <1>5 DEF IsText, IsMapped, Into, Back, QtType
  <2> QED BY <1>5, <2>1 DEF Convert, RosType
<1> QED BY <1>1, <1>2, <1>3, <1>4, <1>5

LEMMA ConvertAllFaithful ==
  ASSUME NEW t, IsType(t), t.kind # "wstring", NEW n \in Nat
  PROVE  /\ ConvertAll(Into(t), RosValue(t, n)) = QtValue(t, n)
         /\ ConvertAll(Back(t), QtValue(t, n)) = RosValue(t, n)
BY ElementFaithful DEF ConvertAll, RosValue, QtValue

\* Every element is converted once: in the initialiser or in the body.
LEMMA ConvertedOnce ==
  ASSUME NEW t, IsType(t), NEW S, NEW s \in Seq(S)
  PROVE  FromRos(t, s) = IF IsSequence(t) /\ Container(t) = "QByteArray" THEN s ELSE ConvertAll(Into(t), s)
<1>1. ConvertAll(Into(t), s) \in Seq({Convert(Into(t), s[n]) : n \in DOMAIN s})
  BY DEF ConvertAll
<1>2. Container(t) = "QByteArray" => t.kind = "byte"
  BY DEF Container
<1>3. CASE IsSequence(t) /\ Container(t) = "QByteArray"
  <2>1. InitExpr(t, s) = s
    BY <1>3 DEF InitExpr
  <2>2. ~IsText(t) /\ t.kind # "nested"
    BY <1>2, <1>3 DEF IsText
  <2>3. PostInit(t, s) = <<>>
    BY <2>2 DEF PostInit
  <2> QED BY <1>3, <2>1, <2>3 DEF FromRos
<1>4. CASE ~(IsSequence(t) /\ Container(t) = "QByteArray") /\ IsSequence(t) /\ (IsText(t) \/ t.kind = "nested")
  <2>1. InitExpr(t, s) = <<>>
    BY <1>4 DEF InitExpr
  <2>2. PostInit(t, s) = ConvertAll(Into(t), s)
    BY <1>4 DEF PostInit, Into, IsText
  <2> QED BY <1>1, <1>4, <2>1, <2>2 DEF FromRos
<1>5. CASE ~(IsSequence(t) /\ Container(t) = "QByteArray") /\ ~(IsSequence(t) /\ (IsText(t) \/ t.kind = "nested"))
  <2>1. InitExpr(t, s) = ConvertAll(Into(t), s)
    BY <1>5 DEF InitExpr, Into
  <2>2. PostInit(t, s) = <<>>
    BY <1>5 DEF PostInit
  <2> QED BY <1>1, <1>5, <2>1, <2>2 DEF FromRos
<1> QED BY <1>3, <1>4, <1>5

LEMMA ValuesAreSequences ==
  ASSUME NEW t, NEW n \in Nat
  PROVE  /\ RosValue(t, n) \in Seq({RosType(t)} \X Nat) /\ Len(RosValue(t, n)) = n
         /\ QtValue(t, n) \in Seq({QtType(t)} \X Nat) /\ Len(QtValue(t, n)) = n
BY DEF RosValue, QtValue

\* A field that is no wstring, with any number of elements, has them all in the
\* property, each in its Qt type: the constructor from the ROS message.
THEOREM FieldsArrive ==
  ASSUME NEW t, IsType(t), t.kind # "wstring", NEW n \in Nat
  PROVE  FromRos(t, RosValue(t, n)) = QtValue(t, n)
<1>1. FromRos(t, RosValue(t, n)) = IF IsSequence(t) /\ Container(t) = "QByteArray" THEN RosValue(t, n) ELSE QtValue(t, n)
  <2>1. PICK s : s = RosValue(t, n)
    OBVIOUS
  <2>2. s \in Seq({RosType(t)} \X Nat)
    BY <2>1, ValuesAreSequences
  <2>3. FromRos(t, s) = IF IsSequence(t) /\ Container(t) = "QByteArray" THEN s ELSE ConvertAll(Into(t), s)
    BY <2>2, ConvertedOnce
  <2> QED BY <2>1, <2>3, ConvertAllFaithful
<1>2. Container(t) = "QByteArray" => t.kind = "byte"
  BY DEF Container
<1>3. t.kind = "byte" => RosValue(t, n) = QtValue(t, n)
  <2>1. t.kind = "byte" => QtType(t) = RosType(t)
    BY DEF QtType, IsText, IsMapped
  <2> QED BY <2>1 DEF RosValue, QtValue
<1> QED BY <1>1, <1>2, <1>3

\* The elements that a fixed array takes of a list.
LEMMA Fitted ==
  ASSUME NEW t, NEW k \in Nat, NEW n \in Nat
  PROVE  SubSeq(QtValue(t, k), 1, IF k < n THEN k ELSE n) = QtValue(t, IF k < n THEN k ELSE n)
<1> DEFINE l == IF k < n THEN k ELSE n
<1>1. l \in Nat /\ l <= k
  OBVIOUS
<1> HIDE DEF l
<1>2. SubSeq(QtValue(t, k), 1, l) = [j \in 1..l |-> QtValue(t, k)[j]]
  BY <1>1, ValuesAreSequences
<1>3. \A j \in 1..l : QtValue(t, k)[j] = QtValue(t, l)[j]
  BY <1>1 DEF QtValue
<1>4. [j \in 1..l |-> QtValue(t, k)[j]] = QtValue(t, l)
  BY <1>3 DEF QtValue
<1> QED BY <1>2, <1>4 DEF l

\* n elements of which a list of k gives the first ones.
Padded(t, k, n) == [j \in 1..n |-> <<RosType(t), IF j <= k THEN j ELSE 0>>]

\* Whatever list is assigned to the property, a fixed array has the length
\* the message says: a shorter list leaves defaults, a longer one is cut.
THEOREM ArraysFilled ==
  ASSUME NEW t, IsType(t), t.kind # "wstring", t.shape = "array", NEW k \in Nat, NEW n \in Nat
  PROVE  ToRos(t, QtValue(t, k), n) = Padded(t, k, n)
<1> DEFINE l == IF k < n THEN k ELSE n
           rest == [j \in 1..(n - l) |-> <<RosType(t), 0>>]
<1>0. MsgTypeToCpp(t) = RosType(t)
  BY DEF IsType, Kinds, MsgTypeToCpp, RosType, IsText
<1>1. l \in Nat /\ l <= n /\ l <= k /\ (l = k \/ l = n)
  OBVIOUS
<1>2. Len(QtValue(t, k)) = k
  BY ValuesAreSequences
<1>3. SubSeq(QtValue(t, k), 1, l) = QtValue(t, l) /\ Len(QtValue(t, l)) = l
  BY <1>1, Fitted, ValuesAreSequences
<1>4. ToRos(t, QtValue(t, k), n) = ConvertAll(Back(t), QtValue(t, l)) \o rest
  BY <1>0, <1>2, <1>3 DEF ToRos, Back
<1>5. ToRos(t, QtValue(t, k), n) = RosValue(t, l) \o rest
  BY <1>1, <1>4, ConvertAllFaithful
<1> HIDE DEF l
<1>6. n - l \in Nat
  BY <1>1
<1>7. rest \in Seq({RosType(t)} \X Nat) /\ Len(rest) = n - l
  BY <1>6
<1>11. \A j \in 1..(n - l) : rest[j] = <<RosType(t), 0>>
  OBVIOUS
<1> HIDE DEF rest
<1>8. RosValue(t, l) \in Seq({RosType(t)} \X Nat) /\ Len(RosValue(t, l)) = l
  BY <1>1, ValuesAreSequences
<1>9. RosValue(t, l) \o rest = [j \in 1..n |-> IF j <= l THEN RosValue(t, l)[j] ELSE rest[j - l]]
  <2> DEFINE S == {RosType(t)} \X Nat
             s == RosValue(t, l) \o rest
  <2> HIDE DEF S
  <2>1. RosValue(t, l) \in Seq(S) /\ rest \in Seq(S)
    BY <1>7, <1>8 DEF S
  <2>2. s \in Seq(S) /\ Len(s) = Len(RosValue(t, l)) + Len(rest)
    BY <2>1
  <2>3. Len(s) = n
    BY <1>1, <1>7, <1>8, <2>2
  <2>4. \A j \in 1..n : s[j] = IF j <= l THEN RosValue(t, l)[j] ELSE rest[j - l]
    BY <1>1, <1>7, <1>8, <2>1, <2>3
  <2> HIDE DEF s
  <2>5. s = [j \in 1..n |-> s[j]]
    BY <2>2, <2>3
  <2>6. s = [j \in 1..n |-> IF j <= l THEN RosValue(t, l)[j] ELSE rest[j - l]]
    BY <2>4, <2>5
  <2> QED BY <2>6 DEF s
<1>10. ASSUME NEW j \in 1..n PROVE (IF j <= l THEN RosValue(t, l)[j] ELSE rest[j - l]) = <<RosType(t), IF j <= k THEN j ELSE 0>>
  <2>1. CASE j <= l
    BY <1>1, <2>1 DEF RosValue
  <2>2. CASE ~(j <= l)
    <3>1. l = k /\ j - l \in 1..(n - l)
      BY <1>1, <2>2
    <3> QED BY <1>11, <2>2, <3>1
  <2> QED BY <2>1, <2>2
<1> QED BY <1>5, <1>9, <1>10 DEF Padded

\* A value goes back as it came, a sequence with a bound when it keeps to it.
THEOREM FieldsReturn ==
  ASSUME NEW t, IsType(t), t.kind # "wstring", NEW n \in Nat, NEW size \in Nat,
         t.shape = "array" => size = n, t.shape = "bounded" => n <= size
  PROVE  ToRos(t, QtValue(t, n), size) = RosValue(t, n)
<1>1. CASE t.shape = "array"
  <2>1. ToRos(t, QtValue(t, n), n) = Padded(t, n, n)
    BY <1>1, ArraysFilled
  <2>2. \A j \in 1..n : (IF j <= n THEN j ELSE 0) = j
    OBVIOUS
  <2> QED BY <1>1, <2>1, <2>2 DEF RosValue, Padded
<1>4. ~(t.shape = "bounded" /\ Len(QtValue(t, n)) > size)
  <2>1. Len(QtValue(t, n)) = n
    BY ValuesAreSequences
  <2> QED BY <2>1
<1>2. CASE t.shape # "array" /\ Container(t) = "QByteArray"
  <2>1. t.kind = "byte"
    BY <1>2 DEF Container
  <2>2. QtType(t) = RosType(t)
    BY <2>1 DEF QtType, IsText, IsMapped
  <2>3. ToRos(t, QtValue(t, n), size) = QtValue(t, n)
    BY <1>2, <1>4 DEF ToRos
  <2> QED BY <2>2, <2>3 DEF RosValue, QtValue
<1>3. CASE t.shape # "array" /\ Container(t) # "QByteArray"
  <2>1. ToRos(t, QtValue(t, n), size) = ConvertAll(Back(t), QtValue(t, n))
    BY <1>3, <1>4 DEF ToRos, Back
  <2> QED BY <2>1, ConvertAllFaithful
<1> QED BY <1>1, <1>2, <1>3

\* What is beyond a bound is refused.
LEMMA BoundRefuses ==
  ASSUME NEW t, t.shape = "bounded", NEW n \in Nat
  PROVE  ToRos(t, QtValue(t, n + 1), n) = Thrown
<1>1. Len(QtValue(t, n + 1)) = n + 1
  <2>1. n + 1 \in Nat
    OBVIOUS
  <2> QED BY <2>1, ValuesAreSequences
<1>2. Len(QtValue(t, n + 1)) > n
  BY <1>1
<1> QED BY <1>2 DEF ToRos

\* A text of the ROS side meets the conversion for another type of string.
LEMMA WideBroken ==
  ASSUME NEW t, IsType(t), t.kind = "wstring"
  PROVE  FromRos(t, RosValue(t, 1)) # QtValue(t, 1)
<1>1. /\ Into(t) = "fromStdWString" /\ RosType(t) = <<"u16string", t.ref>> /\ QtType(t) = <<"QString", NoRef>>
      /\ Container(t) # "QByteArray"
  BY DEF IsText, Into, Text, RosType, QtType, Container
<1>2. FromRos(t, RosValue(t, 1)) = ConvertAll(Into(t), RosValue(t, 1))
  BY <1>1, ConvertedOnce, ValuesAreSequences
<1>3. ConvertAll(Into(t), RosValue(t, 1))[1] = Convert("fromStdWString", <<RosType(t), 1>>)
  BY <1>1 DEF ConvertAll, RosValue
<1>4. Convert("fromStdWString", <<RosType(t), 1>>)[1] = Broken
  BY <1>1 DEF Convert
<1>5. QtValue(t, 1)[1][1] = <<"QString", NoRef>>
  BY <1>1 DEF QtValue
<1>6. Broken # <<"QString", NoRef>>
  BY DEF Broken
<1> QED BY <1>2, <1>3, <1>4, <1>5, <1>6

LEMMA TypesFaithful ==
  ASSUME NEW t, IsType(t)
  PROVE  Faithful(t) <=> t.kind # "wstring"
<1>1. ASSUME t.kind # "wstring", NEW n \in Nat
      PROVE  /\ FromRos(t, RosValue(t, n)) = QtValue(t, n)
             /\ ToRos(t, QtValue(t, n), n) = RosValue(t, n)
             /\ t.shape = "array" => \A k \in 0..3 : Len(ToRos(t, QtValue(t, k), n)) = n
                    /\ \A j \in 1..n : ToRos(t, QtValue(t, k), n)[j] = <<RosType(t), IF j <= k THEN j ELSE 0>>
             /\ t.shape = "bounded" => ToRos(t, QtValue(t, n + 1), n) = Thrown
  <2>1. ASSUME t.shape = "array", NEW k \in 0..3
        PROVE  /\ Len(ToRos(t, QtValue(t, k), n)) = n
               /\ \A j \in 1..n : ToRos(t, QtValue(t, k), n)[j] = <<RosType(t), IF j <= k THEN j ELSE 0>>
    <3>1. k \in Nat
      OBVIOUS
    <3>2. ToRos(t, QtValue(t, k), n) = Padded(t, k, n)
      BY <1>1, <2>1, <3>1, ArraysFilled
    <3> QED BY <3>2 DEF Padded
  <2>2. ToRos(t, QtValue(t, n), n) = RosValue(t, n)
    BY <1>1, FieldsReturn
  <2> QED BY <1>1, <2>1, <2>2, FieldsArrive, BoundRefuses
<1>2. t.kind # "wstring" => Faithful(t)
  BY <1>1 DEF Faithful
<1>3. ASSUME t.kind = "wstring" PROVE ~Faithful(t)
  <2>1. 1 \in IF t.shape = "plain" THEN {1} ELSE 0..2
    OBVIOUS
  <2>2. FromRos(t, RosValue(t, 1)) # QtValue(t, 1)
    BY <1>3, WideBroken
  <2> QED BY <2>1, <2>2 DEF Faithful
<1> QED BY <1>2, <1>3

\* No field of any file is lost or changed on its way, whatever type it has,
\* unless it is a wstring, of which none arrives.
THEOREM ConversionsCorrect == Spec => []ConversionsFaithful
<1>1. TypeInv => ConversionsFaithful
  BY ContentsAssumption, TypesFaithful DEF TypeInv, ContentsInPlace, ConversionsFaithful
<1> QED BY <1>1, TypeInit, TypeStep, PTL DEF Spec
=============================================================================
