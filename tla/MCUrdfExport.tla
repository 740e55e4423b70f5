---------------------------- MODULE MCUrdfExport ----------------------------
EXTENDS UrdfExport

name(word) == [words |-> <<word>>, spelling |-> "plain"]
shape == [type |-> "box", uri |-> NoUri]
mesh(uri) == [type |-> "mesh", uri |-> uri]
link(words, visuals, collisions) == [name |-> name(words), visuals |-> visuals, collisions |-> collisions]
bare(words) == link(words, <<>>, <<shape>>)
joint(type, parent, child) == [type |-> type, parent |-> name(parent), child |-> name(child)]

file(dir, stem, ext, cap) == [dir |-> dir, stem |-> stem, ext |-> ext, cap |-> cap]
uri(scheme, package, dir, stem, ext) == [scheme |-> scheme, package |-> package] @@ file(dir, stem, ext, FALSE)

MCUrdfDir == <<"ws", "arm", "urdf">>
MCPackageMap == [p \in {"arm"} |-> <<"ws">>]
MCRosPaths == <<<<"src">>>>
MCEnvironments == {[set |-> FALSE, path |-> <<>>], [set |-> TRUE, path |-> <<<<"opt">>>>]}

baseFile == file(<<"ws", "arm", "meshes">>, "base", "dae", FALSE)
baseInstalled == file(<<"opt", "share", "arm", "meshes">>, "base", "dae", TRUE)
toolFile == file(<<"ws", "arm", "urdf", "parts">>, "tool", "stl", FALSE)
toolOther == file(<<"src", "tools">>, "tool", "gltf", FALSE)

MCMeshStates ==
    {[f \in {baseFile, baseInstalled, toolFile, toolOther} |-> "meter"],
     [f \in {baseFile, toolFile} |-> "centimeter"],
     [f \in {baseInstalled, toolFile, toolOther} |-> "broken"]}

baseUri == uri("package", "arm", <<"meshes">>, "base", "dae")
toolUri == uri("relative", "", <<>>, "tool", "stl")
toolAlias == uri("absolute", "", <<"ws", "arm", "urdf", "parts">>, "tool", "stl")
otherUri == uri("package", "tools", <<>>, "tool", "gltf")

\* A robot with meshes, one of them under two URIs.
arm == [links |-> <<link("base", <<mesh(baseUri)>>, <<mesh(baseUri)>>), link("tool", <<mesh(toolUri)>>, <<mesh(toolAlias), shape>>)>>,
        joints |-> <<joint("revolute", "base", "tool")>>]

\* Several roots, one of them there twice and one with the id of the virtual
\* one, a cycle that nothing leads to and a joint to a link that is not there.
forest == [links |-> <<bare("a"), bare("__virtual_root__"), bare("b"), bare("c"), bare("d"), bare("a")>>,
           joints |-> <<joint("fixed", "a", "b"), joint("prismatic", "c", "d"), joint("fixed", "d", "c"), joint("fixed", "a", "e")>>]

\* A cycle below the root.
looped == [links |-> <<bare("a"), bare("b"), bare("c")>>,
           joints |-> <<joint("fixed", "a", "b"), joint("fixed", "b", "c"), joint("fixed", "c", "b")>>]

\* Two files for one module.
clash == [links |-> <<link("a", <<mesh(toolUri), mesh(otherUri)>>, <<>>)>>, joints |-> <<>>]

MCRobots == {[xacro |-> FALSE, local |-> TRUE, parses |-> TRUE, model |-> arm], [xacro |-> TRUE, local |-> TRUE, parses |-> TRUE, model |-> forest],
             [xacro |-> FALSE, local |-> FALSE, parses |-> TRUE, model |-> looped], [xacro |-> FALSE, local |-> FALSE, parses |-> TRUE, model |-> clash],
             [xacro |-> TRUE, local |-> FALSE, parses |-> FALSE, model |-> NoModel], [xacro |-> FALSE, local |-> FALSE, parses |-> TRUE, model |-> NoModel]}

option(convert, balsam, explicit, main, preview, ros) ==
    [valid |-> TRUE, assets |-> convert, balsam |-> balsam, explicit |-> explicit, main |-> main, preview |-> preview, ros |-> ros]

MCOptions == {option(TRUE, TRUE, FALSE, TRUE, TRUE, FALSE),   \* the viewer
              option(TRUE, TRUE, FALSE, FALSE, FALSE, TRUE),  \* the CMake macro
              option(FALSE, TRUE, FALSE, TRUE, TRUE, TRUE),   \* --no-generate-assets
              option(TRUE, TRUE, TRUE, FALSE, TRUE, FALSE),   \* --balsam-bin
              option(TRUE, FALSE, FALSE, FALSE, FALSE, FALSE), \* no balsam
              [option(TRUE, TRUE, FALSE, TRUE, TRUE, FALSE) EXCEPT !.valid = FALSE]}

MCFiles == {"robot.qml", "ControlBase.h", "ControlBase.cpp", "Control.h", "Control.cpp", "joints.json", "CMakeLists.txt", "qmldir",
            "Control.qml", "PreviewScene.qml", "ControlPanel.qml", "Main.qml", "main.cpp", "robot.qmlproject", "RosBridge.qml"}
=============================================================================
