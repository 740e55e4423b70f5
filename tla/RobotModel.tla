----------------------------- MODULE RobotModel -----------------------------
(***************************************************************************)
(* A parsed robot and the scene the URDF exporter makes of it: the tree of *)
(* its links, a virtual root above several ones, and the order in which    *)
(* the template renders them.  A name is its words and how they are        *)
(* spelled; an id keeps the words only.                                    *)
(***************************************************************************)
EXTENDS Naturals, Sequences, SequencesExt

\* A model is a record with links, each with a name, visuals and collisions,
\* and joints, each with a name, a type, a parent and a child.  A geometry is
\* a mesh with a URI or a shape without.
Movable(j) == j.type \in {"revolute", "prismatic", "continuous"}

\* qml_id(): case and punctuation are lost.
QmlId(name) == name.words

LinkNames(m) == {l.name : l \in ToSet(m.links)}

-----------------------------------------------------------------------------
(* build_tree() *)

\* A joint is named by its place in the model.  Joints to links that the
\* model does not have are ignored.
TreeJoints(m) == {n \in DOMAIN m.joints : m.joints[n].parent \in LinkNames(m) /\ m.joints[n].child \in LinkNames(m)}

Outbound(m, link) == {n \in TreeJoints(m) : m.joints[n].parent = link}
Inbound(m, link) == {n \in TreeJoints(m) : m.joints[n].child = link}

\* Links of the same name are one node, in the place of the first.
IsNode(m, n) == \A k \in 1..n - 1 : m.links[k].name # m.links[n].name

\* A plausible slip: a link without children is no root.
RootsWithChildren(m) ==
    {n \in DOMAIN m.links : IsNode(m, n) /\ Inbound(m, m.links[n].name) = {} /\ Outbound(m, m.links[n].name) # {}}

Roots(m) == {n \in DOMAIN m.links : IsNode(m, n) /\ Inbound(m, m.links[n].name) = {}}

\* The root of several roots has a name whose id no link has.
VirtualWords(k) == IF k = 1 THEN <<"__virtual_root__">> ELSE <<"__virtual_root__", k>>
VirtualRoot(m) ==
    LET free == {k \in 1..Len(m.links) + 1 : VirtualWords(k) \notin {QmlId(l) : l \in LinkNames(m)}}
    IN [words |-> VirtualWords(CHOOSE k \in free : \A n \in free : k <= n), spelling |-> "plain"]

-----------------------------------------------------------------------------
(* The template's render(), which calls itself for every child.             *)

\* A link inside of another, and what is below it; below gives that for each
\* link.  A scene has the links in the order they are rendered, each with the
\* one it is nested in.
Nest(below, parent, link) == <<<<parent, link>>>> \o below[link]
Children(m, below, link) ==
    FlattenSeq([n \in DOMAIN m.joints |-> IF n \in Outbound(m, link) THEN Nest(below, link, m.joints[n].child) ELSE <<>>])

\* What is rendered below each link, as deep as the model has links.
Nested(m) ==
    LET Below[depth \in 0..Len(m.links)] ==
            [link \in LinkNames(m) |-> IF depth = 0 THEN <<>> ELSE Children(m, Below[depth - 1], link)]
    IN Below[Len(m.links)]

OneRoot(m) == \A i, j \in Roots(m) : i = j
Holder(m, link) == IF OneRoot(m) THEN link ELSE VirtualRoot(m)

Rendered(m) ==
    (IF OneRoot(m) THEN <<>> ELSE <<<<VirtualRoot(m), VirtualRoot(m)>>>>)
    \o FlattenSeq([n \in DOMAIN m.links |-> LET link == m.links[n].name IN
                      IF n \in Roots(m) THEN Nest(Nested(m), Holder(m, link), link) ELSE <<>>])

\* What is nested deeper than the model has links never ends.
RendersForever(m) ==
    LET Level[depth \in 0..Len(m.links)] ==
            IF depth = 0 THEN {m.links[n].name : n \in Roots(m)}
            ELSE {m.joints[n].child : n \in UNION {Outbound(m, l) : l \in Level[depth - 1]}}
    IN Level[Len(m.links)] # {}

-----------------------------------------------------------------------------
(* Geometries *)

IsMesh(g) == g.type = "mesh"
MeshesOf(geoms, link) == FlattenSeq([n \in DOMAIN geoms |-> IF IsMesh(geoms[n]) THEN <<[uri |-> geoms[n].uri, link |-> QmlId(link)]>> ELSE <<>>])

VisualMeshes(m) == FlattenSeq([n \in DOMAIN m.links |-> MeshesOf(m.links[n].visuals, m.links[n].name)])
CollisionMeshes(m) == FlattenSeq([n \in DOMAIN m.links |-> MeshesOf(m.links[n].collisions, m.links[n].name)])
AllMeshes(m) == FlattenSeq([n \in DOMAIN m.links |-> MeshesOf(m.links[n].visuals \o m.links[n].collisions, m.links[n].name)])
=============================================================================
