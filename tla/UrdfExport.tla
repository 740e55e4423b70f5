----------------------------- MODULE UrdfExport -----------------------------
(***************************************************************************)
(* The URDF exporter run after run on one output directory: it expands     *)
(* xacro files under a temporary environment, converts meshes with balsam  *)
(* one by one, falls back to what earlier runs converted, writes the files *)
(* of the robot in a fixed order and reports in a manifest that the CMake  *)
(* macro and the viewer read.  Meanwhile people edit the robot, its meshes *)
(* and the files that are theirs, balsam fails and a disk is full.         *)
(***************************************************************************)
EXTENDS RobotModel, MeshSources, FiniteSets

CONSTANTS Robots,      \* the URDF files: [xacro, local, parses, model]
          MeshStates,  \* the mesh files: functions from a file to its content
          Options,     \* the command lines
          Environments, \* AMENT_PREFIX_PATH: [set, path]
          Files,       \* the names of the files of a robot
          MaxRuns, MaxEdits, MaxFaults \* bounds: runs, edits, failed steps

\* The overlay directory of _ament_prefix_overlay().
Overlay == <<"urdf2quick3d_ament">>

\* Files created once and then left to the user.
Once == {"Control.h", "Control.cpp", "Main.qml"}

\* What main() writes, in order.
WriteOrder(o) ==
    <<"robot.qml", "ControlBase.h", "ControlBase.cpp", "Control.h", "Control.cpp", "joints.json", "CMakeLists.txt", "qmldir", "Control.qml">>
    \o (IF o.preview THEN <<"PreviewScene.qml">> \o (IF o.ros THEN <<>> ELSE <<"ControlPanel.qml">>) ELSE <<>>)
    \o (IF o.main THEN <<"Main.qml", "main.cpp", "robot.qmlproject">> ELSE <<>>)
    \o (IF o.ros THEN <<"RosBridge.qml">> ELSE <<>>)

\* A robot has lists of links and of joints, a link has lists of geometries,
\* and a file is in a directory.
ASSUME RobotsAssumption ==
    \A m \in {r.model : r \in Robots} :
        /\ m.links \in Seq(ToSet(m.links)) /\ m.joints \in Seq(ToSet(m.joints))
        /\ \A l \in ToSet(m.links) : l.visuals \in Seq(ToSet(l.visuals)) /\ l.collisions \in Seq(ToSet(l.collisions))
ASSUME MeshStatesAssumption == \A ms \in MeshStates : \A f \in DOMAIN ms : f.dir \in Seq(STRING)
ASSUME OptionsAssumption == Options # {}
ASSUME BoundsAssumption == MaxRuns \in Nat /\ MaxEdits \in Nat /\ MaxFaults \in Nat

ASSUME FilesAssumption == Once \subseteq Files /\ \A o \in Options : ToSet(WriteOrder(o)) \subseteq Files

\* What the generated CMakeLists.txt names: files, and for visual meshes the
\* directory of the modules.
ListedByCMake(o, m) ==
    {"main.cpp", "robot.qml", "ControlBase.h", "ControlBase.cpp", "Control.h", "Control.cpp", "joints.json"}
    \cup (IF o.main THEN {"Main.qml"} ELSE {})
    \cup (IF o.preview THEN {"PreviewScene.qml"} \cup (IF o.ros THEN {} ELSE {"ControlPanel.qml"}) ELSE {})
    \cup (IF o.ros THEN {"RosBridge.qml"} ELSE {})
    \cup (IF VisualMeshes(m) = <<>> THEN {} ELSE {"Generated"})

VARIABLES robot, meshes,  \* the inputs on disk
          env,            \* AMENT_PREFIX_PATH of the process
          overlay,        \* the packages the overlay directory links to, {} without one
          saved,          \* locals of _process_xacro(): the old environment and the command line's
          pc,             \* what the process does next
          options,        \* of the run
          model,          \* parsed by the run
          warnings,       \* of the run
          assets,         \* mesh assets of the run: [module, uri, mesh]
          pending,        \* meshes to convert, by their places in the model
          todo,           \* files to write
          disk,           \* files: absent, partial, edited or written, and from which model
          modules,        \* Generated/QtQuick3D: module directories
          scaffold,       \* the modules its CMakeLists.txt names
          scene,          \* what robot.qml imports and references
          manifest,       \* what the last run reported
          userEnv,        \* history: the environment the process was started with
          failed,         \* history: files and modules whose last writing or conversion failed
          runs, edits, faults

inputs == <<robot, meshes>>
process == <<env, overlay, saved, options, model, warnings, assets, pending, todo, userEnv>>
output == <<disk, modules, scaffold, scene, failed>>
counters == <<runs, edits, faults>>
vars == <<inputs, process, output, counters, pc, manifest>>

NoModel == [links |-> <<>>, joints |-> <<>>]
NoModule == [dir |-> FALSE, qml |-> FALSE, mesh |-> FALSE, qmldir |-> FALSE, from |-> NoFile, content |-> "none"]
NoScene == [imports |-> {}, sources |-> {}]
NoManifest == [status |-> "none", modules |-> {}, files |-> {}]

Modules == {ModuleOf(g) : g \in UNION {ToSet(AllMeshes(r.model)) : r \in Robots}}

Init ==
    /\ robot \in Robots /\ meshes \in MeshStates
    /\ userEnv \in Environments /\ env = userEnv /\ overlay = {} /\ saved = [old |-> userEnv, cli |-> userEnv]
    /\ pc = "idle" /\ options = (CHOOSE o \in Options : TRUE) /\ model = NoModel /\ warnings = {} /\ assets = {} /\ pending = {} /\ todo = <<>>
    /\ disk = [f \in Files |-> [is |-> "absent", of |-> NoModel]]
    /\ modules = [m \in Modules |-> NoModule]
    /\ scaffold = {} /\ scene = NoScene /\ failed = [files |-> {}, modules |-> {}]
    /\ manifest = NoManifest
    /\ runs = 0 /\ edits = 0 /\ faults = 0

\* What the history keeps: a failed step marks what it leaves, and the next
\* one that succeeds in its place, or the user, makes up for it.
FileBreaks(f) == failed' = [failed EXCEPT !.files = @ \cup {f}]
FileMended(f) == failed' = [failed EXCEPT !.files = @ \ {f}]
ModuleBreaks(m) == failed' = [failed EXCEPT !.modules = @ \cup {m}]
ModuleMended(m) == failed' = [failed EXCEPT !.modules = @ \ {m}]

-----------------------------------------------------------------------------
(* The user, between runs *)

Edit == pc = "idle" /\ edits < MaxEdits /\ edits' = edits + 1 /\ manifest' = [manifest EXCEPT !.status = "edited"]

EditRobot(r) == /\ Edit /\ r # robot /\ robot' = r
                /\ UNCHANGED <<meshes, process, output, runs, faults, pc>>

EditMeshes(ms) == /\ Edit /\ ms # meshes /\ meshes' = ms
                  /\ UNCHANGED <<robot, process, output, runs, faults, pc>>

EditFile(f) == /\ Edit /\ disk[f].is \in {"written", "partial"} /\ disk' = [disk EXCEPT ![f] = [is |-> "edited", of |-> NoModel]]
               /\ FileMended(f)
               /\ UNCHANGED <<inputs, process, modules, scaffold, scene, runs, faults, pc>>

-----------------------------------------------------------------------------
(* main(): the beginning *)

Fault == faults < MaxFaults /\ faults' = faults + 1

Raise == pc' = "raised" /\ UNCHANGED manifest

StartRun(o) ==
    /\ pc = "idle" /\ runs < MaxRuns /\ runs' = runs + 1
    /\ options' = o
    /\ model' = NoModel /\ warnings' = {} /\ assets' = {} /\ pending' = {} /\ todo' = <<>>
    /\ manifest' = NoManifest
    /\ pc' = IF ~o.valid THEN "raised" ELSE IF robot.xacro THEN "xacro" ELSE "parse"
    /\ UNCHANGED <<inputs, env, overlay, saved, output, userEnv, edits, faults>>

\* _collect_xacro_packages(): the package the file lies in and mapped ones.
XacroPackages == (IF robot.local THEN {"local"} ELSE {}) \cup DOMAIN PackageMap

\* A plausible slip: the overlay comes last.
EnterOverlayLast ==
    /\ pc = "xacro"
    /\ overlay' = XacroPackages
    /\ env' = IF XacroPackages = {} THEN env ELSE [set |-> TRUE, path |-> env.path \o <<Overlay>>]
    /\ saved' = [old |-> env, cli |-> env']
    /\ pc' = "python"
    /\ UNCHANGED <<inputs, options, model, warnings, assets, pending, todo, userEnv, output, counters, manifest>>

\* _ament_prefix_overlay(), _build_ament_env() and _temp_environ().  The
\* command line is given an environment of its own.
EnterOverlay ==
    /\ pc = "xacro"
    /\ overlay' = XacroPackages
    /\ env' = IF XacroPackages = {} THEN env ELSE [set |-> TRUE, path |-> <<Overlay>> \o env.path]
    /\ saved' = [old |-> env, cli |-> env']
    /\ pc' = "python"
    /\ UNCHANGED <<inputs, options, model, warnings, assets, pending, todo, userEnv, output, counters, manifest>>

\* A plausible slip: the environment is restored only after a success.
RunXacroModuleLeaking(ok) ==
    /\ pc = "python"
    /\ env' = IF ok THEN saved.old ELSE env
    /\ overlay' = IF ok THEN {} ELSE overlay
    /\ pc' = IF ok THEN "parse" ELSE "cli"
    /\ IF ok THEN UNCHANGED faults ELSE Fault
    /\ UNCHANGED <<inputs, saved, options, model, warnings, assets, pending, todo, userEnv, output, runs, edits, manifest>>

\* The Python module returns from inside both contexts; its failure, or its
\* absence, leaves the environment's context only.
RunXacroModule(ok) ==
    /\ pc = "python"
    /\ env' = saved.old
    /\ overlay' = IF ok THEN {} ELSE overlay
    /\ pc' = IF ok THEN "parse" ELSE "cli"
    /\ IF ok THEN UNCHANGED faults ELSE Fault
    /\ UNCHANGED <<inputs, saved, options, model, warnings, assets, pending, todo, userEnv, output, runs, edits, manifest>>

\* _run_xacro_cli(): raises when it fails, and when it is not installed the
\* error of the module is raised.
RunXacroCli(ok) ==
    /\ pc = "cli"
    /\ overlay' = {}
    /\ pc' = IF ok THEN "parse" ELSE "raised"
    /\ UNCHANGED <<inputs, env, saved, options, model, warnings, assets, pending, todo, userEnv, output, counters, manifest>>

\* parse_urdf(), where the file parses; it may be without a link.
ParsedModel == robot.model

\* apply_mesh_unit_policy(): a visual mesh whose unit is a guess.
UnitWarnings(m) == {"unit" : g \in {h \in ToSet(VisualMeshes(m)) : UnitOf(h.uri, env.path, meshes).guess}}

\* The unit policy follows, and the directory of the robot is made.
Parse ==
    /\ pc = "parse"
    /\ IF ~robot.parses THEN Raise /\ UNCHANGED <<model, warnings, todo>>
       ELSE /\ model' = ParsedModel
            /\ warnings' = UnitWarnings(ParsedModel)
            /\ manifest' = [manifest EXCEPT !.files = {"robot.qml", "Control.qml", "joints.json"}]
            /\ pc' = IF AllMeshes(ParsedModel) = <<>> THEN "write" ELSE IF options.assets THEN "collect" ELSE "discover"
            /\ todo' = IF AllMeshes(ParsedModel) = <<>> THEN WriteOrder(options) ELSE <<>>
    /\ UNCHANGED <<inputs, env, overlay, saved, options, assets, pending, userEnv, output, counters>>

-----------------------------------------------------------------------------
(* generate_mesh_assets_with_balsam() *)

Geoms == AllMeshes(model)
ModuleAt(n) == ModuleOf(Geoms[n])
SourceAt(n) == ResolveMeshUri(Geoms[n].uri, env.path, DOMAIN meshes)
Collected == CollectMeshAssets(Geoms)
Uncollectable == CollectionFails(Geoms, env.path, DOMAIN meshes)

\* A RuntimeError here is an error of the run when the user named a balsam,
\* else a warning.
AssetsFail ==
    IF options.explicit THEN Raise /\ UNCHANGED <<warnings, assets, pending>>
    ELSE /\ warnings' = warnings \cup {"balsam"}
         /\ assets' = {} /\ pending' = {}
         /\ pc' = "discover" /\ UNCHANGED manifest

\* Without a balsam nothing is touched.
Collect ==
    /\ pc = "collect"
    /\ \/ /\ ~Uncollectable /\ options.balsam
          /\ pending' = Collected
          /\ pc' = "convert" /\ UNCHANGED <<manifest, warnings, assets>>
       \/ (Uncollectable \/ ~options.balsam) /\ AssetsFail
    /\ UNCHANGED <<inputs, env, overlay, saved, options, model, todo, userEnv, output, counters>>

\* The meshes are converted in the order of the model.
Converting == pc = "convert" /\ pending # {}
Current == CHOOSE n \in pending : \A k \in pending : n <= k

Made(n, mesh) == [dir |-> TRUE, qml |-> TRUE, mesh |-> mesh, qmldir |-> TRUE, from |-> SourceAt(n), content |-> meshes[SourceAt(n)]]
Asset(n, mesh) == [module |-> ModuleAt(n), uri |-> Geoms[n].uri, mesh |-> mesh]

\* A plausible slip: the directory of an earlier run is kept.
ConvertKeeping(mesh) ==
    /\ Converting
    /\ modules' = [modules EXCEPT ![ModuleAt(Current)] = IF @.qml THEN @ ELSE Made(Current, mesh)]
    /\ ModuleMended(ModuleAt(Current))
    /\ assets' = assets \cup {Asset(Current, mesh)} /\ pending' = pending \ {Current}
    /\ UNCHANGED <<inputs, env, overlay, saved, options, model, warnings, todo, userEnv, disk, scaffold, scene, counters, pc, manifest>>

\* The directory of the module is made anew; whatever name balsam gave the
\* only QML file, it becomes the module's.  There may be no mesh in it.
Convert(mesh) ==
    /\ Converting
    /\ modules' = [modules EXCEPT ![ModuleAt(Current)] = Made(Current, mesh)]
    /\ ModuleMended(ModuleAt(Current))
    /\ assets' = assets \cup {Asset(Current, mesh)} /\ pending' = pending \ {Current}
    /\ UNCHANGED <<inputs, env, overlay, saved, options, model, warnings, todo, userEnv, disk, scaffold, scene, counters, pc, manifest>>

\* Balsam fails, runs out of time or leaves no single QML file: what it wrote
\* stays, and the modules after it are not tried.
ConvertFails(qml, mesh) ==
    /\ Converting
    /\ Fault
    /\ modules' = [modules EXCEPT ![ModuleAt(Current)] = [Made(Current, mesh) EXCEPT !.qml = qml, !.qmldir = FALSE]]
    /\ ModuleBreaks(ModuleAt(Current))
    /\ AssetsFail
    /\ UNCHANGED <<inputs, env, overlay, saved, options, model, todo, userEnv, disk, scaffold, scene, runs, edits>>

\* What there may be of a directory that is not wholly written or removed.
Parts(module) == {[module EXCEPT !.qml = @ /\ qml, !.mesh = @ /\ mesh, !.qmldir = @ /\ qmldir] : qml, mesh, qmldir \in BOOLEAN}
Leftovers == IF Converting THEN {NoModule} \cup Parts(modules[ModuleAt(Current)]) \cup Parts(Made(Current, TRUE)) ELSE {}

\* The old directory cannot be removed, the new one not made, or a file in it
\* not renamed or written: no RuntimeError, so it ends any run.
ConvertRaises(left) ==
    /\ Converting
    /\ Fault
    /\ modules' = [modules EXCEPT ![ModuleAt(Current)] = left]
    /\ ModuleBreaks(ModuleAt(Current))
    /\ Raise
    /\ UNCHANGED <<inputs, process, disk, scaffold, scene, runs, edits>>

\* _list_generated_qtquick3d_modules(): every module on disk.
OnDisk == {m \in Modules : modules[m].qml}

\* write_generated_scaffolding(), and main() reports the modules of the run.
FinishAssets ==
    /\ pc = "convert" /\ pending = {}
    /\ scaffold' = OnDisk
    /\ manifest' = [manifest EXCEPT !.modules = {a.module : a \in assets}]
    /\ pc' = "write" /\ todo' = WriteOrder(options)
    /\ UNCHANGED <<inputs, env, overlay, saved, options, model, warnings, assets, pending, userEnv, disk, modules, scene, failed, counters>>

\* The scaffolding cannot be written, or a part of it only.
FinishAssetsRaises(named) ==
    /\ pc = "convert" /\ pending = {}
    /\ Fault
    /\ scaffold' = named
    /\ Raise
    /\ UNCHANGED <<inputs, process, disk, modules, scene, failed, runs, edits>>

\* A plausible slip: a directory is taken for a converted module.
DiscoverByDirectory ==
    /\ pc = "discover"
    /\ IF Uncollectable THEN Raise /\ UNCHANGED <<assets, todo>>
       ELSE /\ assets' = {Asset(n, TRUE) : n \in {k \in Collected : modules[ModuleAt(k)].dir}}
            /\ pc' = "write" /\ todo' = WriteOrder(options) /\ UNCHANGED manifest
    /\ UNCHANGED <<inputs, env, overlay, saved, options, model, warnings, pending, userEnv, output, counters>>

\* discover_existing_mesh_assets(): what earlier runs, or this one before it
\* failed, have converted.  A mesh that is not found is an error after all.
Discover ==
    /\ pc = "discover"
    /\ IF Uncollectable THEN Raise /\ UNCHANGED <<assets, todo>>
       ELSE /\ assets' = {Asset(n, TRUE) : n \in {k \in Collected : modules[ModuleAt(k)].mesh}}
            /\ pc' = "write" /\ todo' = WriteOrder(options) /\ UNCHANGED manifest
    /\ UNCHANGED <<inputs, env, overlay, saved, options, model, warnings, pending, userEnv, output, counters>>

-----------------------------------------------------------------------------
(* The files *)

\* The references of generate_qml(): a module for every visual mesh, and a
\* mesh, with --physics, for a collision mesh under the very URI that stands
\* for its module.  A robot without a root is an empty file.
SourceOf(g) == {a.module : a \in {b \in assets : b.uri = g.uri /\ b.mesh}}
SceneOf ==
    IF Roots(model) = {} THEN NoScene
    ELSE [imports |-> {ModuleOf(g) : g \in ToSet(VisualMeshes(model))},
          sources |-> UNION {SourceOf(g) : g \in ToSet(CollisionMeshes(model))}]

Writing == pc = "write" /\ todo # <<>>

Reported(f) == IF f \in {"PreviewScene.qml", "ControlPanel.qml", "Main.qml", "RosBridge.qml"} THEN {f} ELSE {}

\* A plausible slip: a file of the user is written again.
WriteFileAlways ==
    /\ Writing
    /\ ~(Head(todo) = "robot.qml" /\ RendersForever(model))
    /\ disk' = [disk EXCEPT ![Head(todo)] = [is |-> "written", of |-> model]]
    /\ FileMended(Head(todo))
    /\ scene' = IF Head(todo) = "robot.qml" THEN SceneOf ELSE scene
    /\ manifest' = [manifest EXCEPT !.files = @ \cup Reported(Head(todo))]
    /\ todo' = Tail(todo)
    /\ UNCHANGED <<inputs, env, overlay, saved, options, model, warnings, assets, pending, userEnv, modules, scaffold, counters, pc>>

\* write_preview_qml() and write_control_files() leave what is there alone.
LeftAlone(f) == f \in Once /\ disk[f].is # "absent"

\* One file; what is the user's is written only where nothing is.
WriteFile ==
    /\ Writing
    /\ ~(Head(todo) = "robot.qml" /\ RendersForever(model))
    /\ IF LeftAlone(Head(todo)) THEN UNCHANGED <<disk, failed>>
       ELSE /\ disk' = [disk EXCEPT ![Head(todo)] = [is |-> "written", of |-> model]]
            /\ FileMended(Head(todo))
    /\ scene' = IF Head(todo) = "robot.qml" THEN SceneOf ELSE scene
    /\ manifest' = [manifest EXCEPT !.files = @ \cup Reported(Head(todo))]
    /\ todo' = Tail(todo)
    /\ UNCHANGED <<inputs, env, overlay, saved, options, model, warnings, assets, pending, userEnv, modules, scaffold, counters, pc>>

\* A plausible slip: a file that cannot be written is passed over.
WriteFailsPassingOver ==
    /\ Writing
    /\ ~LeftAlone(Head(todo))
    /\ Fault
    /\ disk' = [disk EXCEPT ![Head(todo)] = [is |-> "partial", of |-> model]]
    /\ scene' = IF Head(todo) = "robot.qml" THEN SceneOf ELSE scene
    /\ todo' = Tail(todo)
    /\ UNCHANGED <<inputs, env, overlay, saved, options, model, warnings, assets, pending, userEnv, modules, scaffold, failed, runs, edits, pc, manifest>>

\* Writing a file raises with a part of it on disk.
WriteFails ==
    /\ Writing
    /\ ~LeftAlone(Head(todo))
    /\ Fault
    /\ disk' = [disk EXCEPT ![Head(todo)] = [is |-> "partial", of |-> model]]
    /\ FileBreaks(Head(todo))
    /\ scene' = IF Head(todo) = "robot.qml" THEN SceneOf ELSE scene
    /\ Raise
    /\ UNCHANGED <<inputs, process, modules, scaffold, runs, edits>>

\* A robot whose tree never ends is an error before its file is opened.
RenderFails ==
    /\ Writing
    /\ Head(todo) = "robot.qml" /\ RendersForever(model)
    /\ Raise
    /\ UNCHANGED <<inputs, process, output, counters>>

Finish ==
    /\ pc = "write" /\ todo = <<>>
    /\ manifest' = [manifest EXCEPT !.status = "ok"]
    /\ pc' = "idle"
    /\ UNCHANGED <<inputs, process, output, counters>>

\* The handler of main(): the manifest keeps what it has been told so far.
ReportError ==
    /\ pc = "raised"
    /\ manifest' = [manifest EXCEPT !.status = "error"]
    /\ pc' = "idle"
    /\ UNCHANGED <<inputs, process, output, counters>>

Next ==
    \/ \E r \in Robots : EditRobot(r)
    \/ \E ms \in MeshStates : EditMeshes(ms)
    \/ \E f \in Once : EditFile(f)
    \/ \E o \in Options : StartRun(o)
    \/ EnterOverlay
    \/ \E ok \in BOOLEAN : RunXacroModule(ok)
    \/ \E ok \in BOOLEAN : RunXacroCli(ok)
    \/ Parse
    \/ Collect
    \/ \E mesh \in BOOLEAN : Convert(mesh)
    \/ \E qml, mesh \in BOOLEAN : ConvertFails(qml, mesh)
    \/ \E left \in Leftovers : ConvertRaises(left)
    \/ FinishAssets
    \/ \E named \in {scaffold} \cup SUBSET OnDisk : FinishAssetsRaises(named)
    \/ Discover
    \/ WriteFile
    \/ WriteFails
    \/ RenderFails
    \/ Finish
    \/ ReportError

Spec == Init /\ [][Next]_vars

-----------------------------------------------------------------------------
(* Properties *)

TypeOK ==
    /\ robot \in Robots /\ meshes \in MeshStates /\ userEnv \in Environments
    /\ env \in Environments \cup {[set |-> TRUE, path |-> <<Overlay>> \o e.path] : e \in Environments}
    /\ overlay \subseteq XacroPackages
    /\ saved.old \in Environments
    /\ failed.files \subseteq Files /\ failed.modules \subseteq Modules
    /\ pc \in {"idle", "xacro", "python", "cli", "parse", "collect", "convert", "discover", "write", "raised"}
    /\ options \in Options
    /\ model \in {r.model : r \in Robots} \cup {NoModel}
    /\ warnings \subseteq {"unit", "balsam"}
    /\ \A f \in Files : disk[f].is \in {"absent", "partial", "edited", "written"}
    /\ scaffold \subseteq Modules /\ scene.imports \cup scene.sources \cup manifest.modules \subseteq Modules
    /\ manifest.status \in {"none", "edited", "ok", "error"} /\ manifest.files \subseteq Files
    /\ runs \in 0..MaxRuns /\ edits \in 0..MaxEdits /\ faults \in 0..MaxFaults

\* The last run ended well and nothing has changed since.
Exported == pc = "idle" /\ manifest.status = "ok"

\* No run, whatever it was asked for and wherever it failed, touches a file
\* that the user has made theirs.  write_control_files(), write_preview_qml().
UserEditsKept == [][\A f \in Once : disk[f].is = "edited" => disk'[f] = disk[f]]_vars

\* While xacro runs, the module in the environment of the process or the
\* command line in the copy it is given, it sees the overlay before what the
\* user gave, and the overlay is there; at any other time, after a failure of
\* one or both too, the overlay is gone and AMENT_PREFIX_PATH is what the
\* user gave, so that meshes are looked up in it.
\* _process_xacro() and the two context managers.
Overlaid == IF XacroPackages = {} THEN userEnv ELSE [set |-> TRUE, path |-> <<Overlay>> \o userEnv.path]
XacroEnvironment ==
    /\ pc \in {"python", "cli"} => overlay = XacroPackages
    /\ pc = "python" => env = Overlaid
    /\ pc = "cli" => saved.cli = Overlaid
    /\ pc # "python" => env = userEnv
    /\ pc \notin {"python", "cli"} => overlay = {}

\* The run was told not to convert, or warned that the assets must be
\* prepared by hand.
Unprepared == ~options.assets \/ "balsam" \in warnings

Complete(m) == modules[m].qml /\ modules[m].qmldir

\* After a run that ended well each module that the robot's QML imports is
\* complete on disk and named by the CMake file of the modules, unless the run
\* left them to the user; and, in any case, each mesh that the QML refers to
\* is on disk, in a module that some conversion completed or in what the last
\* conversion of it left when it failed: the search for existing assets takes
\* any mesh file for a converted asset.
\* generate_qml() and discover_existing_mesh_assets().
ReferencesExist ==
    Exported =>
        /\ \A m \in scene.imports : (Complete(m) /\ m \in scaffold) \/ Unprepared
        /\ \A m \in scene.sources : modules[m].mesh /\ (Complete(m) \/ m \in failed.modules)

\* A run that ended well found the file of every mesh, under any URI, and no
\* module stands for two files; when it was asked to convert and did not warn,
\* each module that the QML imports has been made from the present content of
\* that file, is complete, and is named by both the CMake file and the manifest.
\* resolve_mesh_uri(), collect_mesh_assets(), generate_mesh_assets_with_balsam().
MeshesAccountedFor ==
    LET Source(g) == ResolveMeshUri(g.uri, userEnv.path, DOMAIN meshes)
        geoms == ToSet(AllMeshes(model))
    IN Exported =>
        /\ \A g \in geoms : Source(g) \in DOMAIN meshes /\ SameName(Source(g), g.uri)
        /\ \A g, h \in geoms : ModuleOf(g) = ModuleOf(h) => Source(g) = Source(h)
        /\ ~Unprepared =>
               \A g \in geoms : LET m == ModuleOf(g) IN
                   /\ Complete(m)
                   /\ modules[m].from = Source(g) /\ modules[m].content = meshes[Source(g)]
                   /\ m \in scaffold \cap manifest.modules

\* The link reaches a link without an inbound joint when one follows the
\* joints upwards.
Up(m, link) == IF Inbound(m, link) = {} THEN link ELSE m.joints[CHOOSE n \in Inbound(m, link) : TRUE].parent
Grounded(m, link) ==
    LET Climb[n \in 0..Len(m.links)] == IF n = 0 THEN link ELSE Up(m, Climb[n - 1])
    IN Inbound(m, Climb[Len(m.links)]) = {}

\* Where every link has at most one inbound joint, the scene has each link
\* that is not part of a cycle once and inside its joint's parent, has no
\* other, and has at most one link of its own, whose id is no link's.
\* build_tree() and the template.
LinksRenderedOnce ==
    LET shown == Rendered(model)
        top == {n \in DOMAIN shown : shown[n][1] = shown[n][2]}
    IN Exported /\ (\A l \in LinkNames(model) : \A i, j \in Inbound(model, l) : i = j) =>
        /\ \A l \in LinkNames(model) : Cardinality({n \in DOMAIN shown : shown[n][2] = l}) = (IF Grounded(model, l) THEN 1 ELSE 0)
        /\ \A n \in DOMAIN shown \ top : LET l == shown[n][2] IN
               shown[n][1] = (IF Inbound(model, l) = {} THEN shown[1][2] ELSE Up(model, l))
        /\ top \subseteq {1}
        /\ \A n \in top : shown[n][2] \in LinkNames(model) \/ QmlId(shown[n][2]) \notin {QmlId(l) : l \in LinkNames(model)}

\* After a run that ended well each file that the manifest or the generated
\* CMakeLists.txt names is whole and shows the present robot, whatever an
\* earlier run left behind; a once-only file is whole or the user's.  There
\* are three exceptions.  A once-only file that an earlier run wrote in part
\* before it failed stays like that; main.cpp is named even when it is not to
\* be written; and the directory of the modules is, when there is none.
\* main() and model.cmake.
FilesWhole ==
    Exported => \A f \in manifest.files \cup ListedByCMake(options, model) :
        \/ f \in Files \ Once /\ disk[f] = [is |-> "written", of |-> robot.model]
        \/ f \in Once /\ (disk[f].is \in {"written", "edited"} \/ f \in failed.files)
        \/ f = "main.cpp" /\ ~options.main
        \/ f = "Generated" /\ (scaffold # {} \/ Unprepared)

\* The meshes that the CMake macro registers as resources.
Registered == {m \in manifest.modules : modules[m].mesh}

\* "Collect .mesh files from Generated/QtQuick3D modules so ConvexMeshShape
\* can find them via the resource path", says the CMake macro, and its option
\* NO_GENERATE_ASSETS is for when "mesh assets are already pre-generated".
MeshReferencesRegistered == Exported /\ ~options.assets => scene.sources \subseteq Registered
=============================================================================
