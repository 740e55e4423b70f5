---------------------------- MODULE MeshSources ----------------------------
(***************************************************************************)
(* How the URDF exporter finds the mesh files a robot names, guesses their *)
(* unit and gives each a QML module.  A directory is the sequence of names *)
(* that leads to it.  A file is its directory and its name: a stem, an     *)
(* extension and whether the first letter is a capital, which file systems *)
(* tell apart and the search does not.                                     *)
(***************************************************************************)
EXTENDS Naturals, Sequences, SequencesExt

CONSTANTS PackageMap,   \* --package-map: a directory, by package
          RosPaths,     \* ROS_PACKAGE_PATH, a sequence of directories
          UrdfDir,      \* the directory of the URDF file
          MeshUnit,     \* --mesh-unit: "auto" or a unit
          DefaultUnit   \* --mesh-default-unit

NoFile == [dir |-> <<>>, stem |-> "", ext |-> "", cap |-> FALSE]
NoUri == NoFile @@ [scheme |-> "none", package |-> ""]

SameName(f, u) == f.stem = u.stem /\ f.ext = u.ext

-----------------------------------------------------------------------------
(* Finding a file among the given ones.  Where the order of a directory     *)
(* listing or of a walk decides, some fixed choice stands for it.           *)

\* _find_file_by_basename(): the one nearest to the root.
FindByBasename(root, u, files) ==
    LET found == {f \in files : IsPrefix(root, f.dir) /\ SameName(f, u)}
    IN IF found = {} THEN NoFile ELSE CHOOSE f \in found : \A g \in found : Len(f.dir) <= Len(g.dir)

\* _resolve_relpath_in_root(): as written, then in other case, then anywhere below.
ResolveInRoot(root, u, files) ==
    LET here == {f \in files : f.dir = root \o u.dir /\ SameName(f, u)}
        exact == {f \in here : f.cap = u.cap}
    IN IF exact # {} THEN CHOOSE f \in exact : TRUE
       ELSE IF here # {} THEN CHOOSE f \in here : TRUE
       ELSE FindByBasename(root, u, files)

\* _candidate_package_roots() and the order of _resolve_package_uri().
SearchRoots(package, prefixes) ==
    (IF package \in DOMAIN PackageMap
     THEN LET base == PackageMap[package] IN <<base, Append(base, package), base \o <<"share", package>>>>
     ELSE <<>>)
    \o FlattenSeq([n \in DOMAIN prefixes |-> <<prefixes[n] \o <<"share", package>>, Append(prefixes[n], package)>>])
    \o [n \in DOMAIN RosPaths |-> Append(RosPaths[n], package)]

\* _resolve_package_uri(): the first root that has it, else near the URDF file.
ResolvePackageUri(u, prefixes, files) ==
    LET roots == SearchRoots(u.package, prefixes)
        hits == {n \in DOMAIN roots : ResolveInRoot(roots[n], u, files) # NoFile}
    IN IF hits = {} THEN FindByBasename(UrdfDir, u, files)
       ELSE ResolveInRoot(roots[CHOOSE n \in hits : \A k \in hits : n <= k], u, files)

\* resolve_mesh_uri(), NoFile where it raises.
ResolveMeshUri(u, prefixes, files) ==
    LET exact == {f \in files : f.dir = (IF u.scheme = "absolute" THEN u.dir ELSE UrdfDir \o u.dir) /\ SameName(f, u) /\ f.cap = u.cap}
    IN IF u.scheme = "package" THEN ResolvePackageUri(u, prefixes, files)
       ELSE IF exact # {} THEN CHOOSE f \in exact : TRUE
       ELSE IF u.scheme = "absolute" THEN NoFile
       ELSE FindByBasename(UrdfDir, u, files)

-----------------------------------------------------------------------------
(* Units.  content gives the unit a COLLADA file states, "broken" where it  *)
(* cannot be read.                                                          *)

\* _detect_mesh_unit_to_meter(), "none" with an error.
DetectUnit(f, content) ==
    CASE f.ext \in {"gltf", "glb"} -> "meter"
      [] f.ext \in {"dae", "collada"} /\ content # "broken" -> content
      [] OTHER -> "none"

\* apply_mesh_unit_policy() for one visual: the unit, and whether it is a guess.
UnitOf(u, prefixes, meshes) ==
    LET source == ResolveMeshUri(u, prefixes, DOMAIN meshes)
        detected == IF source = NoFile THEN "none" ELSE DetectUnit(source, meshes[source])
    IN IF MeshUnit # "auto" THEN [unit |-> MeshUnit, guess |-> FALSE]
       ELSE IF detected = "none" THEN [unit |-> DefaultUnit, guess |-> TRUE]
       ELSE [unit |-> detected, guess |-> FALSE]

-----------------------------------------------------------------------------
(* Assets *)

\* mesh_component_name(): a name without letters or digits falls back to the
\* link's; the extension and the case of the first letter are lost.
ComponentName(u, link) == IF u.stem = "" THEN link ELSE u.stem

ModuleOf(g) == ComponentName(g.uri, g.link)

\* collect_mesh_assets(): geoms are the meshes of the model with their links'
\* names, in the order of the model.  The first mesh of a module stands for it;
\* these are the places of the first ones.
CollectMeshAssets(geoms) == {n \in DOMAIN geoms : \A k \in 1..(n - 1) : ModuleOf(geoms[k]) # ModuleOf(geoms[n])}

\* It raises where a mesh has no file, or a module would have two.
CollectionFails(geoms, prefixes, files) ==
    LET Source(g) == ResolveMeshUri(g.uri, prefixes, files)
    IN \/ \E g \in ToSet(geoms) : Source(g) = NoFile
       \/ \E g, h \in ToSet(geoms) : ModuleOf(g) = ModuleOf(h) /\ Source(g) # Source(h)
=============================================================================
