-------------------------- MODULE UrdfExportProofs --------------------------
(***************************************************************************)
(* What the URDF exporter may never do to its user, for any robots, mesh   *)
(* files, command lines and environments and any number of runs, edits and *)
(* faults: the files that are the user's, the environment of the process,  *)
(* the files a good run reports, and the scene it makes of the robot.      *)
(***************************************************************************)
EXTENDS UrdfExport, FiniteSetTheorems, WellFoundedInduction, TLAPS

-----------------------------------------------------------------------------
(* Least elements and induction.  The library's induction theorem is about *)
(* operators; a set of numbers says the same, as the order of the numbers  *)
(* is well founded.                                                        *)

Below == {ss \in Nat \X Nat : ss[1] < ss[2]}
LEMMA LeastNat ==
  ASSUME NEW T, T \subseteq Nat, T # {}
  PROVE \E x \in T : \A y \in T : x <= y
<1>1. IsWellFoundedOn(Below, Nat)
  <2>1. OpToRel(<, Nat) = Below
    BY DEF OpToRel, Below
  <2> QED BY <2>1, NatLessThanWellFounded
<1>4. PICK x \in T : \A y \in T : ~(<<y, x>> \in Below)
  BY <1>1, WFMin
<1>5. ASSUME NEW y \in T PROVE x <= y
  <2>1. x \in Nat /\ y \in Nat
    OBVIOUS
  <2>2. ~(<<y, x>> \in Below)
    BY <1>4
  <2>3. <<y, x>> \in Nat \X Nat 
    BY <2>1
  <2>4. ~(y < x)
    BY <2>2, <2>3 DEF Below
  <2> QED BY <2>1, <2>4
<1> QED BY <1>5

LEMMA Induct ==
  ASSUME NEW S, 0 \in S, \A n \in Nat : n \in S => n + 1 \in S
  PROVE  \A n \in Nat : n \in S
<1> DEFINE T == Nat \ S
<1>1. ASSUME T # {} PROVE FALSE
  <2>1. PICK x \in T : \A y \in T : x <= y
    BY <1>1, LeastNat
  <2>2. x # 0 /\ x - 1 \in Nat /\ x - 1 \notin T
    BY <2>1
  <2> QED BY <2>2
<1> QED BY <1>1

-----------------------------------------------------------------------------
(* Sequences in a sequence *)

LEMMA SetOfConcat ==
  ASSUME NEW S, NEW s \in Seq(S), NEW t \in Seq(S)
  PROVE  ToSet(s \o t) = ToSet(s) \cup ToSet(t)
<1>1. ASSUME NEW x \in ToSet(s \o t) PROVE x \in ToSet(s) \cup ToSet(t)
  <2>1. PICK i \in DOMAIN (s \o t) : x = (s \o t)[i]
    BY <1>1 DEF ToSet
  <2>2. CASE i <= Len(s)
    BY <2>1, <2>2 DEF ToSet
  <2>3. CASE i > Len(s)
    <3>1. i - Len(s) \in DOMAIN t /\ x = t[i - Len(s)]
      BY <2>1, <2>3
    <3> QED BY <3>1 DEF ToSet
  <2> QED BY <2>1, <2>2, <2>3
<1>2. ASSUME NEW x \in ToSet(s) PROVE x \in ToSet(s \o t)
  <2>1. PICK i \in DOMAIN s : x = s[i]
    BY <1>2 DEF ToSet
  <2>2. i \in DOMAIN (s \o t) /\ (s \o t)[i] = x
    BY <2>1
  <2> QED BY <2>2 DEF ToSet
<1>3. ASSUME NEW x \in ToSet(t) PROVE x \in ToSet(s \o t)
  <2>1. PICK i \in DOMAIN t : x = t[i]
    BY <1>3 DEF ToSet
  <2>2. i + Len(s) \in DOMAIN (s \o t) /\ (s \o t)[i + Len(s)] = x
    BY <2>1
  <2> QED BY <2>2 DEF ToSet
<1> QED BY <1>1, <1>2, <1>3

\* A function on 1..n that is defined from its value one below.
Flat(seqs, n, g) == g = [i \in 1..n |-> IF i = 1 THEN seqs[i] ELSE g[i - 1] \o seqs[i]]

LEMMA FlatExists ==
  ASSUME NEW seqs
  PROVE  \A n \in Nat : \E g : Flat(seqs, n, g)
<1> DEFINE S == {n \in Nat : \E g : Flat(seqs, n, g)}
<1>1. 0 \in S
  <2>1. Flat(seqs, 0, [i \in 1..0 |-> 0])
    BY DEF Flat
  <2> QED BY <2>1
<1>2. ASSUME NEW n \in Nat, n \in S PROVE n + 1 \in S
  <2>1. PICK g : Flat(seqs, n, g)
    BY <1>2
  <2> DEFINE h == [i \in 1..(n + 1) |-> IF i = 1 THEN seqs[i] ELSE g[i - 1] \o seqs[i]]
  <2>1a. \A i \in 1..n : g[i] = IF i = 1 THEN seqs[i] ELSE g[i - 1] \o seqs[i]
    BY <2>1 DEF Flat
  <2>2. \A i \in 1..n : h[i] = g[i]
    BY <2>1a
  <2>3. \A i \in 1..(n + 1) : i # 1 => i - 1 \in 1..n
    OBVIOUS
  <2>4. \A i \in 1..(n + 1) : h[i] = IF i = 1 THEN seqs[i] ELSE h[i - 1] \o seqs[i]
    BY <2>2, <2>3
  <2>5. h = [i \in 1..(n + 1) |-> IF i = 1 THEN seqs[i] ELSE h[i - 1] \o seqs[i]]
    BY <2>4
  <2>6. Flat(seqs, n + 1, h)
    BY <2>5 DEF Flat
  <2>7. \E x : Flat(seqs, n + 1, x)
    BY <2>6
  <2> QED BY <2>7
<1> HIDE DEF S
<1>3. \A n \in Nat : n \in S
  BY <1>1, <1>2, Induct
<1> QED BY <1>3 DEF S

LEMMA FlattenIsFlat ==
  ASSUME NEW A, NEW seqs \in Seq(A), seqs # <<>>
  PROVE  \E g : Flat(seqs, Len(seqs), g) /\ FlattenSeq(seqs) = g[Len(seqs)]
<1> DEFINE g == CHOOSE x : Flat(seqs, Len(seqs), x)
<1>1. Flat(seqs, Len(seqs), g)
  <2>1. Len(seqs) \in Nat
    OBVIOUS
  <2>2. \E x : Flat(seqs, Len(seqs), x)
    BY <2>1, FlatExists
  <2> QED BY <2>2
<1>2. FlattenSeq(seqs) = g[Len(seqs)]
  BY DEF FlattenSeq, Flat
<1> QED BY <1>1, <1>2

\* The sequence of all of them has the elements of each, and no others.
LEMMA Flattened ==
  ASSUME NEW S, NEW seqs \in Seq(Seq(S))
  PROVE  /\ FlattenSeq(seqs) \in Seq(S)
         /\ \A x : x \in ToSet(FlattenSeq(seqs)) <=> \E n \in 1..Len(seqs) : x \in ToSet(seqs[n])
<1>1. CASE seqs = <<>>
  BY <1>1 DEF FlattenSeq, ToSet
<1>2. CASE seqs # <<>>
  <2>1. PICK g : Flat(seqs, Len(seqs), g) /\ FlattenSeq(seqs) = g[Len(seqs)]
    BY <1>2, FlattenIsFlat
  <2>2. \A i \in 1..Len(seqs) : g[i] = IF i = 1 THEN seqs[i] ELSE g[i - 1] \o seqs[i]
    BY <2>1 DEF Flat
  <2> DEFINE Held(n) == /\ g[n] \in Seq(S)
                        /\ \A x : x \in ToSet(g[n]) <=> \E k \in 1..n : x \in ToSet(seqs[k])
             T == {n \in Nat : n \in 1..Len(seqs) => Held(n)}
  <2>3. 0 \in T
    OBVIOUS
  <2> HIDE DEF Held
  <2>4. ASSUME NEW n \in Nat, n \in T PROVE n + 1 \in T
    <3> SUFFICES ASSUME n + 1 \in 1..Len(seqs) PROVE Held(n + 1)
      OBVIOUS
    <3>1. g[n + 1] = IF n + 1 = 1 THEN seqs[n + 1] ELSE g[n + 1 - 1] \o seqs[n + 1]
      BY <2>2
    <3>2. seqs[n + 1] \in Seq(S)
      OBVIOUS
    <3>3. CASE n = 0
      <4>1. g[1] = seqs[1] /\ n + 1 = 1
        BY <3>1, <3>3
      <4>2. \A k \in 1..1 : k = 1
        OBVIOUS
      <4>3. g[1] \in Seq(S)
        BY <3>2, <4>1
      <4>4. ASSUME NEW x PROVE x \in ToSet(g[1]) <=> \E k \in 1..1 : x \in ToSet(seqs[k])
        <5>1. 1 \in 1..1
          OBVIOUS
        <5> QED BY <4>1, <4>2, <5>1, Zenon
      <4> QED BY <3>3, <4>1, <4>3, <4>4 DEF Held
    <3>4. CASE n # 0
      <4>1. n \in 1..Len(seqs) /\ n + 1 - 1 = n /\ n + 1 # 1
        BY <3>4
      <4>2. Held(n)
        BY <2>4, <4>1
      <4>3. g[n + 1] = g[n] \o seqs[n + 1]
        BY <3>1, <4>1
      <4>4. g[n] \in Seq(S)
        BY <4>2 DEF Held
      <4>5. g[n + 1] \in Seq(S)
        BY <3>2, <4>3, <4>4
      <4>6. ToSet(g[n + 1]) = ToSet(g[n]) \cup ToSet(seqs[n + 1])
        BY <3>2, <4>3, <4>4, SetOfConcat
      <4>7. \A k : k \in 1..(n + 1) <=> k \in 1..n \/ k = n + 1
        OBVIOUS
      <4>8. ASSUME NEW x PROVE x \in ToSet(g[n + 1]) <=> \E k \in 1..(n + 1) : x \in ToSet(seqs[k])
        <5>1. x \in ToSet(g[n]) <=> \E k \in 1..n : x \in ToSet(seqs[k])
          BY <4>2 DEF Held
        <5> QED BY <4>6, <4>7, <5>1, Zenon
      <4> QED BY <4>5, <4>8 DEF Held
    <3> QED BY <3>3, <3>4
  <2> HIDE DEF T
  <2>5. \A n \in Nat : n \in T
    BY <2>3, <2>4, Induct
  <2>6. Len(seqs) \in Nat /\ Len(seqs) \in 1..Len(seqs)
    BY <1>2
  <2>7. Held(Len(seqs))
    BY <2>5, <2>6 DEF T
  <2>8. FlattenSeq(seqs) = g[Len(seqs)]
    BY <2>1
  <2> QED BY <2>7, <2>8 DEF Held
<1> QED BY <1>1, <1>2

-----------------------------------------------------------------------------
(* The meshes of a robot *)

Mesh(g, link) == [uri |-> g.uri, link |-> QmlId(link)]

LEMMA SeqMonotone ==
  ASSUME NEW S, NEW T, S \subseteq T, NEW s \in Seq(S)
  PROVE  s \in Seq(T)
OBVIOUS

LEMMA MeshesOfLink ==
  ASSUME NEW G, NEW geoms \in Seq(G), NEW link
  PROVE  /\ MeshesOf(geoms, link) \in Seq({Mesh(g, link) : g \in G})
         /\ \A x : x \in ToSet(MeshesOf(geoms, link)) <=> \E g \in ToSet(geoms) : IsMesh(g) /\ x = Mesh(g, link)
<1> DEFINE M == {Mesh(g, link) : g \in G}
           One(g) == IF IsMesh(g) THEN <<Mesh(g, link)>> ELSE <<>>
           seqs == [n \in DOMAIN geoms |-> One(geoms[n])]
<1>1. ASSUME NEW g \in G PROVE One(g) \in Seq(M)
  <2>1. Mesh(g, link) \in M
    OBVIOUS
  <2> HIDE DEF M
  <2>2. <<Mesh(g, link)>> \in Seq(M) /\ <<>> \in Seq(M)
    BY <2>1
  <2> QED BY <2>2
<1>2. ASSUME NEW g, NEW x PROVE x \in ToSet(One(g)) <=> IsMesh(g) /\ x = Mesh(g, link)
  BY DEF ToSet
<1>3. MeshesOf(geoms, link) = FlattenSeq(seqs)
  BY DEF MeshesOf, Mesh
<1> HIDE DEF M, One
<1>4. DOMAIN geoms = 1..Len(geoms) /\ Len(geoms) \in Nat
  OBVIOUS
<1>5. seqs \in Seq(Seq(M)) /\ Len(seqs) = Len(geoms)
  BY <1>1, <1>4
<1>6. ASSUME NEW x PROVE x \in ToSet(FlattenSeq(seqs)) <=> \E g \in ToSet(geoms) : IsMesh(g) /\ x = Mesh(g, link)
  <2>1. x \in ToSet(FlattenSeq(seqs)) <=> \E n \in 1..Len(geoms) : x \in ToSet(One(geoms[n]))
    <3>1. x \in ToSet(FlattenSeq(seqs)) <=> \E n \in 1..Len(seqs) : x \in ToSet(seqs[n])
      BY <1>5, Flattened
    <3> QED BY <1>4, <1>5, <3>1
  <2> QED BY <1>2, <1>4, <2>1, Zenon DEF ToSet
<1>7. FlattenSeq(seqs) \in Seq(M)
  BY <1>5, Flattened
<1> QED BY <1>3, <1>6, <1>7 DEF M

Models == {r.model : r \in Robots} \cup {NoModel}

\* The geometries of a robot under every one of its links.
MeshSet(m) == UNION {{Mesh(g, l.name) : g \in ToSet(l.visuals) \cup ToSet(l.collisions)} : l \in ToSet(m.links)}

LEMMA LinksListed ==
  ASSUME NEW m \in Models
  PROVE  /\ m.links \in Seq(ToSet(m.links))
         /\ \A l \in ToSet(m.links) : l.visuals \in Seq(ToSet(l.visuals)) /\ l.collisions \in Seq(ToSet(l.collisions))
<1>1. CASE m = NoModel
  <2>1. m.links = <<>>
    BY <1>1 DEF NoModel
  <2>2. ToSet(m.links) = {}
    BY <2>1 DEF ToSet
  <2> QED BY <2>1, <2>2
<1>2. CASE m # NoModel
  BY <1>2, RobotsAssumption DEF Models
<1> QED BY <1>1, <1>2

\* A model lists every mesh, the visual ones among them.
LEMMA MeshesListed ==
  ASSUME NEW m \in Models
  PROVE  /\ AllMeshes(m) \in Seq(MeshSet(m)) /\ VisualMeshes(m) \in Seq(MeshSet(m))
         /\ ToSet(VisualMeshes(m)) \subseteq ToSet(AllMeshes(m))
<1> DEFINE links == m.links
           Both(l) == MeshesOf(l.visuals \o l.collisions, l.name)
           Visual(l) == MeshesOf(l.visuals, l.name)
           all == [n \in DOMAIN links |-> Both(links[n])]
           visual == [n \in DOMAIN links |-> Visual(links[n])]
<1>1. DOMAIN links = 1..Len(links) /\ Len(links) \in Nat /\ \A n \in 1..Len(links) : links[n] \in ToSet(links)
  BY LinksListed DEF ToSet
<1>2. ASSUME NEW l \in ToSet(links)
      PROVE  /\ Both(l) \in Seq(MeshSet(m)) /\ Visual(l) \in Seq(MeshSet(m))
             /\ ToSet(Visual(l)) \subseteq ToSet(Both(l))
  <2> DEFINE G == ToSet(l.visuals) \cup ToSet(l.collisions)
  <2>1. l.visuals \in Seq(ToSet(l.visuals)) /\ l.collisions \in Seq(ToSet(l.collisions))
    BY <1>2, LinksListed
  <2>2. l.visuals \in Seq(G) /\ l.collisions \in Seq(G)
    BY <2>1, SeqMonotone
  <2> HIDE DEF G
  <2>3. l.visuals \o l.collisions \in Seq(G) /\ ToSet(l.visuals \o l.collisions) = ToSet(l.visuals) \cup ToSet(l.collisions)
    BY <2>2, SetOfConcat
  <2>4. {Mesh(g, l.name) : g \in G} \subseteq MeshSet(m)
    BY <1>2 DEF G, MeshSet
  <2>5. Both(l) \in Seq({Mesh(g, l.name) : g \in G}) /\ Visual(l) \in Seq({Mesh(g, l.name) : g \in G})
    BY <2>2, <2>3, MeshesOfLink
  <2>6. \A x : x \in ToSet(Visual(l)) <=> \E g \in ToSet(l.visuals) : IsMesh(g) /\ x = Mesh(g, l.name)
    BY <2>2, MeshesOfLink
  <2> DEFINE both == l.visuals \o l.collisions
  <2>0. both \in Seq(G)
    BY <2>3
  <2> HIDE DEF both
  <2>7. \A x : x \in ToSet(MeshesOf(both, l.name)) <=> \E g \in ToSet(both) : IsMesh(g) /\ x = Mesh(g, l.name)
    BY <2>0, MeshesOfLink
  <2>9. Both(l) = MeshesOf(both, l.name) /\ ToSet(both) = ToSet(l.visuals) \cup ToSet(l.collisions)
    BY <2>3 DEF both
  <2> HIDE DEF Both, Visual
  <2>8. ToSet(Visual(l)) \subseteq ToSet(Both(l))
    BY <2>6, <2>7, <2>9
  <2> QED BY <2>4, <2>5, <2>8, SeqMonotone
<1>3. AllMeshes(m) = FlattenSeq(all) /\ VisualMeshes(m) = FlattenSeq(visual)
  BY DEF AllMeshes, VisualMeshes
<1> HIDE DEF Both, Visual, links
<1>4. all \in Seq(Seq(MeshSet(m))) /\ visual \in Seq(Seq(MeshSet(m))) /\ Len(all) = Len(links) /\ Len(visual) = Len(links)
  BY <1>1, <1>2
<1>5. ASSUME NEW x \in ToSet(FlattenSeq(visual)) PROVE x \in ToSet(FlattenSeq(all))
  <2>1. PICK n \in 1..Len(visual) : x \in ToSet(visual[n])
    BY <1>4, <1>5, Flattened
  <2>2. n \in 1..Len(all) /\ visual[n] = Visual(links[n]) /\ all[n] = Both(links[n]) /\ links[n] \in ToSet(links)
    BY <1>1, <1>4, <2>1
  <2>3. x \in ToSet(all[n])
    BY <1>2, <2>1, <2>2
  <2> HIDE DEF all, visual
  <2> QED BY <1>4, <2>2, <2>3, Flattened
<1> HIDE DEF all, visual
<1>6. FlattenSeq(all) \in Seq(MeshSet(m)) /\ FlattenSeq(visual) \in Seq(MeshSet(m))
  BY <1>4, Flattened
<1> QED BY <1>3, <1>5, <1>6

-----------------------------------------------------------------------------
(* The user's files *)

\* Only editing and writing touch the files.
LEMMA FilesTouched ==
  ASSUME [Next]_vars
  PROVE  UNCHANGED disk \/ (\E f \in Once : EditFile(f)) \/ WriteFile \/ WriteFails
<1>1. ASSUME NEW r \in Robots, EditRobot(r) PROVE UNCHANGED disk
  BY <1>1 DEF EditRobot, output
<1>2. ASSUME NEW ms \in MeshStates, EditMeshes(ms) PROVE UNCHANGED disk
  BY <1>2 DEF EditMeshes, output
<1>3. ASSUME NEW o \in Options, StartRun(o) PROVE UNCHANGED disk
  BY <1>3 DEF StartRun, output
<1>4. ASSUME EnterOverlay \/ (\E ok \in BOOLEAN : RunXacroModule(ok) \/ RunXacroCli(ok)) \/ Parse
      PROVE  UNCHANGED disk
  BY <1>4 DEF EnterOverlay, RunXacroModule, RunXacroCli, Parse, output
<1>5. ASSUME Collect \/ (\E mesh \in BOOLEAN : Convert(mesh)) \/ FinishAssets \/ Discover
      PROVE  UNCHANGED disk
  BY <1>5 DEF Collect, Convert, FinishAssets, Discover, output
<1>8. ASSUME (\E qml, mesh \in BOOLEAN : ConvertFails(qml, mesh)) \/ (\E left \in Leftovers : ConvertRaises(left))
             \/ (\E named \in {scaffold} \cup SUBSET OnDisk : FinishAssetsRaises(named))
      PROVE  UNCHANGED disk
  BY <1>8 DEF ConvertFails, ConvertRaises, FinishAssetsRaises
<1>6. ASSUME RenderFails \/ Finish \/ ReportError PROVE UNCHANGED disk
  BY <1>6 DEF RenderFails, Finish, ReportError, output
<1>7. ASSUME UNCHANGED vars PROVE UNCHANGED disk
  BY <1>7 DEF vars, output
<1> QED
  BY <1>1, <1>2, <1>3, <1>4, <1>5, <1>6, <1>7, <1>8 DEF Next

DiskTyped == disk = [f \in Files |-> disk[f]]

LEMMA DiskTypedInit == Init => DiskTyped
  BY DEF Init, DiskTyped

LEMMA DiskTypedStep == DiskTyped /\ [Next]_vars => DiskTyped'
<1> SUFFICES ASSUME DiskTyped, [Next]_vars PROVE DiskTyped'
  OBVIOUS
<1>1. ASSUME NEW f \in Once, EditFile(f) PROVE DiskTyped'
  BY <1>1 DEF EditFile, DiskTyped
<1>2. CASE WriteFile
  BY <1>2 DEF WriteFile, DiskTyped
<1>3. CASE WriteFails
  BY <1>3 DEF WriteFails, DiskTyped
<1>4. CASE UNCHANGED disk
  BY <1>4 DEF DiskTyped
<1> QED BY <1>1, <1>2, <1>3, <1>4, FilesTouched

\* A file that the user has edited and that the exporter creates only once
\* stays as it is in every step of every run.
LEMMA EditsKeptStep ==
  ASSUME DiskTyped, [Next]_vars, NEW g \in Once, disk[g].is = "edited"
  PROVE  disk'[g] = disk[g]
<1>0. g \in Files
  BY FilesAssumption
<1>1. ASSUME NEW f \in Once, EditFile(f) PROVE disk'[g] = disk[g]
  <2>1. g # f
    BY <1>1 DEF EditFile
  <2> QED BY <1>0, <1>1, <2>1 DEF EditFile, DiskTyped
<1>2. CASE WriteFile
  BY <1>0, <1>2 DEF WriteFile, LeftAlone, DiskTyped
<1>3. CASE WriteFails
  <2>1. g # Head(todo)
    BY <1>3 DEF WriteFails, LeftAlone
  <2> QED BY <1>0, <1>3, <2>1 DEF WriteFails, DiskTyped
<1>4. CASE UNCHANGED disk
  BY <1>4
<1> QED BY <1>1, <1>2, <1>3, <1>4, FilesTouched

\* Whatever the robots, the options and the faults: no run overwrites a file
\* that the user has made theirs.  write_control_files(), write_preview_qml().
THEOREM EditsKept == Spec => UserEditsKept
<1>1. DiskTyped /\ [Next]_vars => [\A f \in Once : disk[f].is = "edited" => disk'[f] = disk[f]]_vars
  BY EditsKeptStep
<1> QED BY <1>1, DiskTypedInit, DiskTypedStep, PTL DEF Spec, UserEditsKept

-----------------------------------------------------------------------------
(* The environment of xacro *)

\* What _process_xacro() keeps is what it found, and what it made of it.
XacroInv ==
    /\ XacroEnvironment
    /\ pc = "python" => saved.old = userEnv /\ saved.cli = Overlaid

LEMMA XacroInit == Init => XacroInv
  BY DEF Init, XacroInv, XacroEnvironment

LEMMA XacroStep == XacroInv /\ [Next]_vars => XacroInv'
<1> SUFFICES ASSUME XacroInv, [Next]_vars PROVE XacroInv'
  OBVIOUS
<1> USE DEF XacroInv, XacroEnvironment, Overlaid, XacroPackages
<1>1. ASSUME NEW r \in Robots, EditRobot(r) PROVE XacroInv'
  BY <1>1 DEF EditRobot, Edit, process
<1>2. ASSUME NEW ms \in MeshStates, EditMeshes(ms) PROVE XacroInv'
  BY <1>2 DEF EditMeshes, Edit, process
<1>3. ASSUME NEW f \in Once, EditFile(f) PROVE XacroInv'
  BY <1>3 DEF EditFile, Edit, process, inputs
<1>4. ASSUME NEW o \in Options, StartRun(o) PROVE XacroInv'
  BY <1>4 DEF StartRun, inputs
<1>5. CASE EnterOverlay
  BY <1>5 DEF EnterOverlay, inputs
<1>6. ASSUME NEW ok \in BOOLEAN, RunXacroModule(ok) PROVE XacroInv'
  BY <1>6 DEF RunXacroModule, inputs
<1>7. ASSUME NEW ok \in BOOLEAN, RunXacroCli(ok) PROVE XacroInv'
  BY <1>7 DEF RunXacroCli, inputs
<1>8. CASE Parse
  BY <1>8 DEF Parse, Raise, inputs
<1>9. CASE Collect
  BY <1>9 DEF Collect, AssetsFail, Raise, inputs
<1>10. ASSUME NEW mesh \in BOOLEAN, Convert(mesh) PROVE XacroInv'
  BY <1>10 DEF Convert, inputs
<1>11. ASSUME NEW qml \in BOOLEAN, NEW mesh \in BOOLEAN, ConvertFails(qml, mesh) PROVE XacroInv'
  BY <1>11 DEF ConvertFails, Converting, AssetsFail, Raise, inputs
<1>20. ASSUME NEW left \in Leftovers, ConvertRaises(left) PROVE XacroInv'
  BY <1>20 DEF ConvertRaises, Converting, Raise, process, inputs
<1>21. ASSUME NEW named, FinishAssetsRaises(named) PROVE XacroInv'
  BY <1>21 DEF FinishAssetsRaises, Raise, process, inputs
<1>12. CASE FinishAssets
  BY <1>12 DEF FinishAssets, inputs
<1>13. CASE Discover
  BY <1>13 DEF Discover, Raise, inputs
<1>14. CASE WriteFile
  BY <1>14 DEF WriteFile, inputs
<1>15. CASE WriteFails
  BY <1>15 DEF WriteFails, Writing, Raise, process, inputs
<1>16. CASE RenderFails
  BY <1>16 DEF RenderFails, Writing, Raise, process, inputs
<1>17. CASE Finish
  BY <1>17 DEF Finish, process, inputs
<1>18. CASE ReportError
  BY <1>18 DEF ReportError, process, inputs
<1>19. CASE UNCHANGED vars
  BY <1>19 DEF vars, process, inputs
<1> QED
  BY <1>1, <1>2, <1>3, <1>4, <1>5, <1>6, <1>7, <1>8, <1>9, <1>10, <1>11, <1>12, <1>13, <1>14, <1>15, <1>16, <1>17, <1>18, <1>19, <1>20, <1>21 DEF Next

\* xacro always sees its overlay, nothing else does, and no failure leaves
\* the overlay or the environment behind.  _process_xacro().
THEOREM EnvironmentRestored == Spec => []XacroEnvironment
BY XacroInit, XacroStep, PTL DEF Spec, XacroInv

-----------------------------------------------------------------------------
(* The files of a good run *)

\* What is left of a sequence when its head is done.
LEMMA HeadOrTail ==
  ASSUME NEW S, NEW s \in Seq(S), s # <<>>
  PROVE  /\ Head(s) \in S /\ Tail(s) \in Seq(S)
         /\ ToSet(s) \subseteq {Head(s)} \cup ToSet(Tail(s))
<1>1. ASSUME NEW x \in ToSet(s) PROVE x \in {Head(s)} \cup ToSet(Tail(s))
  <2>1. PICK i \in DOMAIN s : x = s[i]
    BY <1>1 DEF ToSet
  <2>2. CASE i = 1
    BY <2>1, <2>2
  <2>3. CASE i # 1
    <3>1. i - 1 \in DOMAIN Tail(s) /\ Tail(s)[i - 1] = x
      BY <2>1, <2>3
    <3> QED BY <3>1 DEF ToSet
  <2> QED BY <2>2, <2>3
<1> QED BY <1>1

Names == {"robot.qml", "ControlBase.h", "ControlBase.cpp", "Control.h", "Control.cpp", "joints.json", "CMakeLists.txt", "qmldir", "Control.qml",
          "PreviewScene.qml", "ControlPanel.qml", "Main.qml", "main.cpp", "robot.qmlproject", "RosBridge.qml"}
Fixed == <<"robot.qml", "ControlBase.h", "ControlBase.cpp", "Control.h", "Control.cpp", "joints.json", "CMakeLists.txt", "qmldir", "Control.qml">>
Preview(o) == IF o.preview THEN <<"PreviewScene.qml">> \o (IF o.ros THEN <<>> ELSE <<"ControlPanel.qml">>) ELSE <<>>
Mains(o) == IF o.main THEN <<"Main.qml", "main.cpp", "robot.qmlproject">> ELSE <<>>
Bridge(o) == IF o.ros THEN <<"RosBridge.qml">> ELSE <<>>

LEMMA OrderInParts ==
  ASSUME NEW o
  PROVE  /\ WriteOrder(o) \in Seq(Names)
         /\ ToSet(WriteOrder(o)) = ToSet(Fixed) \cup ToSet(Preview(o)) \cup ToSet(Mains(o)) \cup ToSet(Bridge(o))
<1>1. Fixed \in Seq(Names)
  BY DEF Fixed, Names
<1>2. Preview(o) \in Seq(Names)
  <2>1. <<>> \in Seq(Names) /\ <<"ControlPanel.qml">> \in Seq(Names) /\ <<"PreviewScene.qml">> \in Seq(Names)
    BY DEF Names
  <2>2. (IF o.ros THEN <<>> ELSE <<"ControlPanel.qml">>) \in Seq(Names)
    BY <2>1
  <2> QED BY <2>1, <2>2 DEF Preview
<1>3. Mains(o) \in Seq(Names) /\ Bridge(o) \in Seq(Names)
  <2>1. <<"Main.qml", "main.cpp", "robot.qmlproject">> \in Seq(Names)
    BY DEF Names
  <2>2. <<>> \in Seq(Names) /\ <<"RosBridge.qml">> \in Seq(Names)
    BY DEF Names
  <2> QED BY <2>1, <2>2 DEF Mains, Bridge
<1>4. WriteOrder(o) = ((Fixed \o Preview(o)) \o Mains(o)) \o Bridge(o)
  BY DEF WriteOrder, Fixed, Preview, Mains, Bridge
<1>5. Fixed \o Preview(o) \in Seq(Names) /\ (Fixed \o Preview(o)) \o Mains(o) \in Seq(Names)
  BY <1>1, <1>2, <1>3
<1>a. \A s, t \in Seq(Names) : ToSet(s \o t) = ToSet(s) \cup ToSet(t)
  BY SetOfConcat
<1>6. ToSet(Fixed \o Preview(o)) = ToSet(Fixed) \cup ToSet(Preview(o))
  BY <1>1, <1>2, <1>a, Zenon
<1>7. ToSet((Fixed \o Preview(o)) \o Mains(o)) = ToSet(Fixed \o Preview(o)) \cup ToSet(Mains(o))
  BY <1>3, <1>5, <1>a, Zenon
<1>8. ToSet(WriteOrder(o)) = ToSet((Fixed \o Preview(o)) \o Mains(o)) \cup ToSet(Bridge(o))
  BY <1>3, <1>4, <1>5, <1>a, Zenon
<1>9. WriteOrder(o) \in Seq(Names)
  BY <1>3, <1>4, <1>5
<1> QED BY <1>6, <1>7, <1>8, <1>9

\* Every file that the CMake file or, from the start, the manifest names is
\* among those the run writes, but for main.cpp of a run without Main.qml.
LEMMA NamedAreWritten ==
  ASSUME NEW o, NEW m
  PROVE  /\ {"robot.qml", "Control.qml", "joints.json"} \subseteq ToSet(WriteOrder(o))
         /\ \A f \in ListedByCMake(o, m) \ {"Generated"} : f \in ToSet(WriteOrder(o)) \/ (f = "main.cpp" /\ ~o.main)
         /\ "Generated" \in ListedByCMake(o, m) => VisualMeshes(m) # <<>>
<1>1. {"robot.qml", "ControlBase.h", "ControlBase.cpp", "Control.h", "Control.cpp", "joints.json", "Control.qml"} \subseteq ToSet(Fixed)
  BY DEF Fixed, ToSet
<1>2. o.main => "Main.qml" \in ToSet(Mains(o)) /\ "main.cpp" \in ToSet(Mains(o))
  BY DEF Mains, ToSet
<1>3. o.ros => "RosBridge.qml" \in ToSet(Bridge(o))
  BY DEF Bridge, ToSet
<1>4. o.preview => "PreviewScene.qml" \in ToSet(Preview(o))
  BY DEF Preview, ToSet
<1>5. o.preview /\ ~o.ros => "ControlPanel.qml" \in ToSet(Preview(o))
  BY DEF Preview, ToSet
<1>6. /\ {"robot.qml", "Control.qml", "joints.json"} \subseteq ToSet(WriteOrder(o))
      /\ {"robot.qml", "ControlBase.h", "ControlBase.cpp", "Control.h", "Control.cpp", "joints.json"} \subseteq ToSet(WriteOrder(o))
      /\ o.main => "Main.qml" \in ToSet(WriteOrder(o)) /\ "main.cpp" \in ToSet(WriteOrder(o))
      /\ o.ros => "RosBridge.qml" \in ToSet(WriteOrder(o))
      /\ o.preview => "PreviewScene.qml" \in ToSet(WriteOrder(o))
      /\ o.preview /\ ~o.ros => "ControlPanel.qml" \in ToSet(WriteOrder(o))
  BY <1>1, <1>2, <1>3, <1>4, <1>5, OrderInParts
<1> HIDE DEF WriteOrder
<1> QED BY <1>6 DEF ListedByCMake

Order == ToSet(WriteOrder(options))

\* The file is as the run leaves it.
Good(f) == IF f \in Once THEN disk[f].is # "absent" ELSE disk[f] = [is |-> "written", of |-> model]

\* While a run writes, what is no longer to do is good; a run that reports
\* success has written all of it from the robot that is there.
FilesInv ==
    /\ DiskTyped
    /\ manifest = [status |-> manifest.status, modules |-> manifest.modules, files |-> manifest.files]
    /\ pc # "idle" => options \in Options /\ manifest.status = "none"
    /\ manifest.files \subseteq Order
    /\ pc \in {"collect", "convert", "discover", "write"} => model = robot.model
    /\ pc = "write" => todo \in Seq(Order) /\ \A f \in Order \ ToSet(todo) : Good(f)
    /\ Exported => model = robot.model /\ \A f \in Order : Good(f)

LEMMA FilesInit == Init => FilesInv
  BY DEF Init, FilesInv, DiskTyped, NoManifest, Exported

\* Where writing begins.
LEMMA AllToDo == WriteOrder(options) \in Seq(Order) /\ \A f \in Order : f \in ToSet(WriteOrder(options))
<1>1. WriteOrder(options) \in Seq(Names)
  BY OrderInParts
<1>2. \A i \in DOMAIN WriteOrder(options) : WriteOrder(options)[i] \in Order
  BY DEF Order, ToSet
<1> QED BY <1>1, <1>2 DEF Order

LEMMA FilesEdit ==
  ASSUME FilesInv, Edit, UNCHANGED <<process, pc>>, DiskTyped'
  PROVE  FilesInv'
BY DEF FilesInv, Edit, Exported, Order, process

LEMMA FilesRaise ==
  ASSUME FilesInv, Raise, pc # "idle", UNCHANGED <<robot, options, manifest>>, DiskTyped'
  PROVE  FilesInv'
BY DEF FilesInv, Raise, Exported, Order

\* A step on the way to writing, which may begin it.
LEMMA FilesBefore ==
  ASSUME FilesInv, pc # "idle", pc' # "idle", UNCHANGED <<robot, options, disk>>,
         manifest' = [manifest EXCEPT !.modules = manifest'.modules] \/ UNCHANGED manifest,
         pc' \in {"collect", "convert", "discover", "write"} => model' = robot.model,
         pc' = "write" => todo' = WriteOrder(options)
  PROVE  FilesInv'
<1>1. manifest' = [status |-> manifest'.status, modules |-> manifest'.modules, files |-> manifest'.files]
      /\ manifest'.status = manifest.status /\ manifest'.files = manifest.files
  BY DEF FilesInv
<1>2. pc' = "write" => todo' \in Seq(Order) /\ \A f \in Order : f \in ToSet(todo')
  BY AllToDo
<1> QED BY <1>1, <1>2 DEF FilesInv, DiskTyped, Exported, Order

LEMMA FilesWriteFile ==
  ASSUME FilesInv, WriteFile
  PROVE  FilesInv'
<1> DEFINE h == Head(todo)
<1>1. todo \in Seq(Order) /\ todo # <<>> /\ pc = "write" /\ pc' = "write"
  BY DEF FilesInv, WriteFile, Writing
<1>2. h \in Order /\ Tail(todo) \in Seq(Order) /\ ToSet(todo) \subseteq {h} \cup ToSet(Tail(todo))
  BY <1>1, HeadOrTail
<1>3. Order \subseteq Files
  BY <1>1, FilesAssumption DEF FilesInv, Order
<1>4. UNCHANGED <<options, model, robot>> /\ todo' = Tail(todo)
  BY DEF WriteFile, inputs
<1>5. Order' = Order
  BY <1>4 DEF Order
<1>6. disk' = [disk EXCEPT ![h] = IF h \in Once /\ disk[h].is # "absent" THEN disk[h] ELSE [is |-> "written", of |-> model]]
  BY DEF WriteFile, LeftAlone, FilesInv, DiskTyped
<1>7. ASSUME NEW f \in Order \ ToSet(todo') PROVE Good(f)'
  <2>1. CASE f = h
    <3>1. h \in Files
      BY <1>2, <1>3
    <3>2. disk'[h] = IF h \in Once /\ disk[h].is # "absent" THEN disk[h] ELSE [is |-> "written", of |-> model]
      BY <1>6, <3>1 DEF FilesInv, DiskTyped
    <3> QED BY <2>1, <3>2, <1>4 DEF Good
  <2>2. CASE f # h
    <3>1. f \in Order \ ToSet(todo) /\ f \in Files
      BY <1>2, <1>3, <1>4, <2>2
    <3>2. Good(f) /\ disk'[f] = disk[f]
      BY <1>1, <1>6, <2>2, <3>1 DEF FilesInv, DiskTyped
    <3> QED BY <1>4, <3>2 DEF Good
  <2> QED BY <2>1, <2>2
<1>8. manifest' = [manifest EXCEPT !.files = @ \cup Reported(h)]
  BY DEF WriteFile
<1>9. Reported(h) \subseteq Order
  BY <1>2 DEF Reported
<1>10. manifest' = [status |-> manifest'.status, modules |-> manifest'.modules, files |-> manifest'.files]
       /\ manifest'.status = manifest.status /\ manifest'.files \subseteq Order
  BY <1>8, <1>9 DEF FilesInv
<1>11. DiskTyped'
  BY <1>6 DEF FilesInv, DiskTyped
<1> QED BY <1>1, <1>2, <1>4, <1>5, <1>7, <1>10, <1>11 DEF FilesInv, Exported

LEMMA FilesStep == FilesInv /\ [Next]_vars => FilesInv'
<1> SUFFICES ASSUME FilesInv, [Next]_vars PROVE FilesInv'
  OBVIOUS
<1>0. DiskTyped'
  BY DiskTypedStep DEF FilesInv
<1>1. ASSUME NEW r \in Robots, EditRobot(r) PROVE FilesInv'
  BY <1>0, <1>1, FilesEdit DEF EditRobot
<1>2. ASSUME NEW ms \in MeshStates, EditMeshes(ms) PROVE FilesInv'
  BY <1>0, <1>2, FilesEdit DEF EditMeshes
<1>3. ASSUME NEW f \in Once, EditFile(f) PROVE FilesInv'
  BY <1>0, <1>3, FilesEdit DEF EditFile
<1>4. ASSUME NEW o \in Options, StartRun(o) PROVE FilesInv'
  BY <1>0, <1>4 DEF StartRun, FilesInv, NoManifest, Exported
<1>5. CASE EnterOverlay
  BY <1>5, FilesBefore DEF EnterOverlay, inputs, output
<1>6. ASSUME NEW ok \in BOOLEAN, RunXacroModule(ok) PROVE FilesInv'
  BY <1>6, FilesBefore DEF RunXacroModule, inputs, output
<1>7. ASSUME NEW ok \in BOOLEAN, RunXacroCli(ok) PROVE FilesInv'
  BY <1>7, FilesBefore DEF RunXacroCli, inputs, output
<1>8. CASE Parse
  <2>1. CASE ~robot.parses
    BY <1>0, <1>8, <2>1, FilesRaise DEF Parse, Raise, inputs
  <2>2. CASE robot.parses
    <3>1. model' = robot.model /\ UNCHANGED <<robot, options>> /\ pc' # "idle" /\ pc # "idle"
      BY <1>8, <2>2 DEF Parse, ParsedModel, inputs
    <3>2. manifest' = [manifest EXCEPT !.files = {"robot.qml", "Control.qml", "joints.json"}]
      BY <1>8, <2>2 DEF Parse
    <3>3. manifest' = [status |-> manifest'.status, modules |-> manifest'.modules, files |-> manifest'.files]
          /\ manifest'.status = manifest.status /\ manifest'.files \subseteq Order
      BY <3>2, NamedAreWritten DEF FilesInv, Order
    <3>4. pc' = "write" => todo' = WriteOrder(options)
      BY <1>8, <2>2 DEF Parse
    <3>5. pc' = "write" => todo' \in Seq(Order) /\ \A f \in Order : f \in ToSet(todo')
      BY <3>4, AllToDo
    <3> QED BY <1>0, <3>1, <3>3, <3>5 DEF FilesInv, Exported, Order
  <2> QED BY <2>1, <2>2
<1>9. CASE Collect
  <2>1. CASE pc' = "convert" /\ UNCHANGED manifest
    BY <1>9, <2>1, FilesBefore DEF Collect, inputs, output, FilesInv
  <2>2. CASE AssetsFail
    <3>1. CASE pc' = "raised"
      BY <1>9, <2>2, <3>1, FilesBefore DEF Collect, AssetsFail, Raise, inputs, output
    <3>2. CASE pc' = "discover"
      BY <1>9, <2>2, <3>2, FilesBefore DEF Collect, AssetsFail, Raise, inputs, output, FilesInv
    <3> QED BY <2>2, <3>1, <3>2 DEF AssetsFail, Raise
  <2> QED BY <1>9, <2>1, <2>2 DEF Collect
<1>10. ASSUME NEW mesh \in BOOLEAN, Convert(mesh) PROVE FilesInv'
  BY <1>10, FilesBefore DEF Convert, Converting, inputs, FilesInv
<1>11. ASSUME NEW qml \in BOOLEAN, NEW mesh \in BOOLEAN, ConvertFails(qml, mesh) PROVE FilesInv'
  BY <1>11, FilesBefore DEF ConvertFails, Converting, AssetsFail, Raise, inputs, FilesInv
<1>20. ASSUME NEW left \in Leftovers, ConvertRaises(left) PROVE FilesInv'
  BY <1>0, <1>20, FilesRaise DEF ConvertRaises, Converting, Raise, process, inputs
<1>21. ASSUME NEW named, FinishAssetsRaises(named) PROVE FilesInv'
  BY <1>0, <1>21, FilesRaise DEF FinishAssetsRaises, Raise, process, inputs
<1>12. CASE FinishAssets
  BY <1>12, FilesBefore DEF FinishAssets, inputs, FilesInv
<1>13. CASE Discover
  BY <1>13, FilesBefore DEF Discover, Raise, inputs, output, FilesInv
<1>14. CASE WriteFile
  BY <1>14, FilesWriteFile
<1>15. CASE WriteFails
  BY <1>0, <1>15, FilesRaise DEF WriteFails, Writing, Raise, process, inputs
<1>16. CASE RenderFails
  BY <1>0, <1>16, FilesRaise DEF RenderFails, Writing, Raise, process, inputs
<1>17. CASE Finish
  <2>1. model = robot.model /\ \A f \in Order : Good(f)
    <3>1. pc = "write" /\ ToSet(todo) = {}
      BY <1>17 DEF Finish, ToSet
    <3> QED BY <3>1 DEF FilesInv
  <2>2. UNCHANGED <<model, robot, disk, options>>
    BY <1>17 DEF Finish, inputs, process, output
  <2>3. model' = robot'.model /\ \A f \in Order' : Good(f)'
    BY <2>1, <2>2 DEF Order, Good
  <2>4. manifest' = [status |-> manifest'.status, modules |-> manifest'.modules, files |-> manifest'.files]
        /\ manifest'.files = manifest.files
    BY <1>17 DEF Finish, FilesInv
  <2>5. pc' = "idle"
    BY <1>17 DEF Finish
  <2> QED BY <1>0, <2>2, <2>3, <2>4, <2>5 DEF FilesInv, Exported, Order
<1>18. CASE ReportError
  BY <1>0, <1>18 DEF ReportError, process, inputs, output, FilesInv, Exported, Order
<1>19. CASE UNCHANGED vars
  BY <1>0, <1>19 DEF vars, process, inputs, output, FilesInv, Exported, Order, Good
<1> QED
  BY <1>1, <1>2, <1>3, <1>4, <1>5, <1>6, <1>7, <1>8, <1>9, <1>10, <1>11, <1>12, <1>13, <1>14, <1>15, <1>16, <1>17, <1>18, <1>19, <1>20, <1>21 DEF Next

-----------------------------------------------------------------------------
(* Looking for a file, and the mesh that stands for a module *)

Dirs == Seq(STRING)

\* The file is there under the name that the URI gives.
Fits(f, u, files) == f # NoFile => f \in files /\ SameName(f, u)

LEMMA FitsByBasename ==
  ASSUME NEW root, NEW u, NEW files, \A f \in files : f.dir \in Dirs
  PROVE  Fits(FindByBasename(root, u, files), u, files)
<1> DEFINE found == {f \in files : IsPrefix(root, f.dir) /\ SameName(f, u)}
<1>1. CASE found = {}
  BY <1>1 DEF FindByBasename, Fits
<1>2. CASE found # {}
  <2> DEFINE lengths == {Len(f.dir) : f \in found}
  <2>1. lengths \subseteq Nat /\ lengths # {}
    <3>1. \A f \in found : Len(f.dir) \in Nat
      BY DEF Dirs
    <3>2. PICK f \in found : TRUE
      BY <1>2
    <3>3. Len(f.dir) \in lengths
      OBVIOUS
    <3> QED BY <3>1, <3>3
  <2>2. PICK x \in lengths : \A y \in lengths : x <= y
    BY <2>1, LeastNat
  <2>3. \E f \in found : \A g \in found : Len(f.dir) <= Len(g.dir)
    BY <2>2
  <2>4. FindByBasename(root, u, files) = CHOOSE f \in found : \A g \in found : Len(f.dir) <= Len(g.dir)
    BY <1>2 DEF FindByBasename
  <2>5. FindByBasename(root, u, files) \in found
    BY <2>3, <2>4
  <2> QED BY <2>5 DEF Fits
<1> QED BY <1>1, <1>2

LEMMA FitsInRoot ==
  ASSUME NEW root, NEW u, NEW files, \A f \in files : f.dir \in Dirs
  PROVE  Fits(ResolveInRoot(root, u, files), u, files)
<1> DEFINE here == {f \in files : f.dir = root \o u.dir /\ SameName(f, u)}
           exact == {f \in here : f.cap = u.cap}
<1>1. CASE exact # {}
  <2>1. ResolveInRoot(root, u, files) \in exact
    BY <1>1 DEF ResolveInRoot
  <2> QED BY <2>1 DEF Fits
<1>2. CASE exact = {} /\ here # {}
  <2>1. ResolveInRoot(root, u, files) \in here
    BY <1>2 DEF ResolveInRoot
  <2> QED BY <2>1 DEF Fits
<1>3. CASE exact = {} /\ here = {}
  <2>1. ResolveInRoot(root, u, files) = FindByBasename(root, u, files)
    BY <1>3 DEF ResolveInRoot
  <2> QED BY <2>1, FitsByBasename
<1> QED BY <1>1, <1>2, <1>3

LEMMA FitsPackage ==
  ASSUME NEW u, NEW prefixes, NEW files, \A f \in files : f.dir \in Dirs
  PROVE  Fits(ResolvePackageUri(u, prefixes, files), u, files)
<1> DEFINE roots == SearchRoots(u.package, prefixes)
           hits == {n \in DOMAIN roots : ResolveInRoot(roots[n], u, files) # NoFile}
           first == CHOOSE n \in hits : \A k \in hits : n <= k
<1>1. CASE hits = {}
  BY <1>1, FitsByBasename DEF ResolvePackageUri
<1>2. CASE hits # {}
  BY <1>2, FitsInRoot DEF ResolvePackageUri
<1> QED BY <1>1, <1>2

\* Whatever the URI and the directories: a file that is found exists and has
\* the name that was asked for, up to the case of a letter.
LEMMA FitsUri ==
  ASSUME NEW u, NEW prefixes, NEW files, \A f \in files : f.dir \in Dirs
  PROVE  Fits(ResolveMeshUri(u, prefixes, files), u, files)
<1> DEFINE exact == {f \in files : f.dir = (IF u.scheme = "absolute" THEN u.dir ELSE UrdfDir \o u.dir) /\ SameName(f, u) /\ f.cap = u.cap}
<1>1. CASE u.scheme = "package"
  BY <1>1, FitsPackage DEF ResolveMeshUri
<1>2. CASE u.scheme # "package" /\ exact # {}
  <2>1. ResolveMeshUri(u, prefixes, files) \in exact
    BY <1>2 DEF ResolveMeshUri
  <2> QED BY <2>1 DEF Fits
<1>3. CASE u.scheme # "package" /\ exact = {}
  BY <1>3, FitsByBasename DEF ResolveMeshUri, Fits
<1> QED BY <1>1, <1>2, <1>3

\* Each mesh has one that stands for its module, and each module has one.
LEMMA FirstOfModule ==
  ASSUME NEW S, NEW geoms \in Seq(S)
  PROVE  /\ CollectMeshAssets(geoms) \subseteq DOMAIN geoms /\ DOMAIN geoms \subseteq Nat
         /\ \A n, k \in CollectMeshAssets(geoms) : ModuleOf(geoms[n]) = ModuleOf(geoms[k]) => n = k
         /\ \A n \in DOMAIN geoms : \E k \in CollectMeshAssets(geoms) : ModuleOf(geoms[k]) = ModuleOf(geoms[n])
<1>1. CollectMeshAssets(geoms) \subseteq DOMAIN geoms /\ DOMAIN geoms = 1..Len(geoms) /\ Len(geoms) \in Nat
  BY DEF CollectMeshAssets
<1>2. ASSUME NEW n \in CollectMeshAssets(geoms), NEW k \in CollectMeshAssets(geoms), n < k
      PROVE  ModuleOf(geoms[n]) # ModuleOf(geoms[k])
  <2>1. n \in 1..(k - 1)
    BY <1>1, <1>2
  <2> QED BY <2>1 DEF CollectMeshAssets
<1>3. ASSUME NEW n \in CollectMeshAssets(geoms), NEW k \in CollectMeshAssets(geoms), ModuleOf(geoms[n]) = ModuleOf(geoms[k])
      PROVE  n = k
  <2>1. n \in Nat /\ k \in Nat /\ ~(n < k) /\ ~(k < n)
    BY <1>1, <1>2, <1>3
  <2> QED BY <2>1
<1>4. ASSUME NEW n \in DOMAIN geoms PROVE \E k \in CollectMeshAssets(geoms) : ModuleOf(geoms[k]) = ModuleOf(geoms[n])
  <2> DEFINE same == {k \in DOMAIN geoms : ModuleOf(geoms[k]) = ModuleOf(geoms[n])}
  <2>1. same \subseteq Nat /\ same # {}
    BY <1>1
  <2>2. PICK k \in same : \A j \in same : k <= j
    BY <2>1, LeastNat
  <2>3. ASSUME NEW j \in 1..(k - 1) PROVE ModuleOf(geoms[j]) # ModuleOf(geoms[k])
    <3>1. j \in DOMAIN geoms /\ ~(k <= j)
      BY <1>1, <2>2
    <3> QED BY <2>2, <3>1
  <2>4. k \in CollectMeshAssets(geoms)
    BY <2>2, <2>3 DEF CollectMeshAssets
  <2> QED BY <2>2, <2>4
<1> QED BY <1>1, <1>3, <1>4

-----------------------------------------------------------------------------
(* The types *)

LEMMA ModulesNamed ==
  ASSUME NEW m \in Models
  PROVE  /\ \A g \in ToSet(AllMeshes(m)) : ModuleOf(g) \in Modules
         /\ \A n \in CollectMeshAssets(AllMeshes(m)) : n \in DOMAIN AllMeshes(m) /\ AllMeshes(m)[n] \in ToSet(AllMeshes(m))
<1>1. AllMeshes(m) \in Seq(MeshSet(m))
  BY MeshesListed
<1>2. ASSUME NEW g \in ToSet(AllMeshes(m)) PROVE ModuleOf(g) \in Modules
  <2>1. CASE m = NoModel
    <3>1. MeshSet(m) = {}
      BY <2>1 DEF MeshSet, NoModel, ToSet
    <3> HIDE DEF MeshSet
    <3>2. AllMeshes(m) = <<>>
      BY <1>1, <3>1
    <3> QED BY <1>2, <3>2 DEF ToSet
  <2>2. CASE m # NoModel
    BY <1>2, <2>2 DEF Models, Modules
  <2> QED BY <2>1, <2>2
<1>3. CollectMeshAssets(AllMeshes(m)) \subseteq DOMAIN AllMeshes(m)
  BY <1>1, FirstOfModule
<1> QED BY <1>2, <1>3 DEF ToSet

Places == {"idle", "xacro", "python", "cli", "parse", "collect", "convert", "discover", "write", "raised"}

InputsTyped == robot \in Robots /\ meshes \in MeshStates /\ userEnv \in Environments

ControlTyped ==
    /\ pc \in Places
    /\ options \in Options
    /\ model \in Models
    /\ warnings \subseteq {"unit", "balsam"}

FilesTyped == DiskTyped /\ \A f \in Files : disk[f].is \in {"absent", "partial", "edited", "written"}

\* What a run works on are meshes of its robot, and nothing before it has read
\* the robot.
RunTyped ==
    /\ pending \subseteq Collected
    /\ {a.module : a \in assets} \subseteq Modules
    /\ pc \in {"xacro", "python", "cli", "parse", "collect"} => pending = {} /\ assets = {}
    /\ modules = [m \in Modules |-> modules[m]]

ReportTyped ==
    /\ scaffold \subseteq Modules
    /\ scene.imports \subseteq Modules /\ scene.sources \subseteq Modules
    /\ manifest = [status |-> manifest.status, modules |-> manifest.modules, files |-> manifest.files]
    /\ manifest.modules \subseteq Modules
    /\ manifest.status \in {"none", "edited", "ok", "error"}

\* A file or a module that is there but not whole is one whose last step
\* failed, and the history says so.
MarkInv ==
    /\ failed = [files |-> failed.files, modules |-> failed.modules]
    /\ failed.files \subseteq Files /\ failed.modules \subseteq Modules
    /\ \A f \in Files : disk[f].is = "partial" => f \in failed.files
    /\ \A m \in Modules : modules[m].mesh => Complete(m) \/ m \in failed.modules

SavedTyped == saved.old \in Environments

CountersTyped == runs \in 0..MaxRuns /\ edits \in 0..MaxEdits /\ faults \in 0..MaxFaults

TypeInv == InputsTyped /\ ControlTyped /\ FilesTyped /\ RunTyped /\ ReportTyped /\ CountersTyped /\ MarkInv

LEMMA TypeInit == Init => TypeInv
<1> SUFFICES ASSUME Init PROVE TypeInv
  OBVIOUS
<1>1. InputsTyped /\ CountersTyped
  BY BoundsAssumption DEF Init, InputsTyped, CountersTyped
<1>2. ControlTyped
  BY OptionsAssumption DEF Init, ControlTyped, Models, Places
<1>3. FilesTyped
  BY DEF Init, FilesTyped, DiskTyped
<1>4. RunTyped
  BY DEF Init, RunTyped
<1>5. ReportTyped
  BY DEF Init, ReportTyped, NoScene, NoManifest
<1>6. MarkInv
  BY DEF Init, MarkInv, NoModule
<1> QED BY <1>1, <1>2, <1>3, <1>4, <1>5, <1>6 DEF TypeInv

LEMMA InputsStep == InputsTyped /\ [Next]_vars => InputsTyped'
<1> SUFFICES ASSUME InputsTyped, [Next]_vars PROVE InputsTyped'
  OBVIOUS
<1> USE DEF InputsTyped, inputs, process
<1>1. ASSUME NEW r \in Robots, EditRobot(r) PROVE InputsTyped'
  BY <1>1 DEF EditRobot
<1>2. ASSUME NEW ms \in MeshStates, EditMeshes(ms) PROVE InputsTyped'
  BY <1>2 DEF EditMeshes
<1>3. ASSUME NEW f \in Once, EditFile(f) PROVE InputsTyped'
  BY <1>3 DEF EditFile
<1>4. ASSUME NEW o \in Options, StartRun(o) PROVE InputsTyped'
  BY <1>4 DEF StartRun
<1>5. ASSUME EnterOverlay \/ (\E ok \in BOOLEAN : RunXacroModule(ok) \/ RunXacroCli(ok)) \/ Parse
      PROVE  InputsTyped'
  BY <1>5 DEF EnterOverlay, RunXacroModule, RunXacroCli, Parse
<1>6. ASSUME Collect \/ (\E mesh \in BOOLEAN : Convert(mesh)) \/ FinishAssets \/ Discover
      PROVE  InputsTyped'
  BY <1>6 DEF Collect, Convert, FinishAssets, Discover
<1>9. ASSUME (\E qml, mesh \in BOOLEAN : ConvertFails(qml, mesh)) \/ (\E left \in Leftovers : ConvertRaises(left))
             \/ (\E named \in {scaffold} \cup SUBSET OnDisk : FinishAssetsRaises(named))
      PROVE  InputsTyped'
  BY <1>9 DEF ConvertFails, ConvertRaises, FinishAssetsRaises
<1>7. ASSUME WriteFile \/ WriteFails \/ RenderFails \/ Finish \/ ReportError PROVE InputsTyped'
  BY <1>7 DEF WriteFile, WriteFails, RenderFails, Finish, ReportError
<1>8. ASSUME UNCHANGED vars PROVE InputsTyped'
  BY <1>8 DEF vars
<1> QED
  BY <1>1, <1>2, <1>3, <1>4, <1>5, <1>6, <1>7, <1>8, <1>9 DEF Next

LEMMA CountersStep == CountersTyped /\ [Next]_vars => CountersTyped'
<1> SUFFICES ASSUME CountersTyped, [Next]_vars PROVE CountersTyped'
  OBVIOUS
<1> USE DEF CountersTyped, counters
<1>1. ASSUME Edit, UNCHANGED <<runs, faults>> PROVE CountersTyped'
  BY <1>1, BoundsAssumption DEF Edit
<1>2. ASSUME Fault, UNCHANGED <<runs, edits>> PROVE CountersTyped'
  BY <1>2, BoundsAssumption DEF Fault
<1>3. ASSUME \/ \E r \in Robots : EditRobot(r)
             \/ \E ms \in MeshStates : EditMeshes(ms)
             \/ \E f \in Once : EditFile(f)
      PROVE  CountersTyped'
  BY <1>1, <1>3 DEF EditRobot, EditMeshes, EditFile
<1>4. ASSUME NEW o \in Options, StartRun(o) PROVE CountersTyped'
  BY <1>4, BoundsAssumption DEF StartRun
<1>5. ASSUME NEW ok \in BOOLEAN, RunXacroModule(ok) PROVE CountersTyped'
  BY <1>2, <1>5 DEF RunXacroModule
<1>6. ASSUME EnterOverlay \/ (\E ok \in BOOLEAN : RunXacroCli(ok)) \/ Parse
      PROVE  CountersTyped'
  BY <1>6 DEF EnterOverlay, RunXacroCli, Parse
<1>7. ASSUME Collect \/ (\E mesh \in BOOLEAN : Convert(mesh)) \/ FinishAssets \/ Discover
      PROVE  CountersTyped'
  BY <1>7 DEF Collect, Convert, FinishAssets, Discover
<1>8. ASSUME \/ \E qml, mesh \in BOOLEAN : ConvertFails(qml, mesh)
             \/ \E left \in Leftovers : ConvertRaises(left)
             \/ \E named \in {scaffold} \cup SUBSET OnDisk : FinishAssetsRaises(named)
             \/ WriteFails
      PROVE  CountersTyped'
  BY <1>2, <1>8 DEF ConvertFails, ConvertRaises, FinishAssetsRaises, WriteFails
<1>9. ASSUME WriteFile \/ RenderFails \/ Finish \/ ReportError \/ UNCHANGED vars PROVE CountersTyped'
  BY <1>9 DEF WriteFile, RenderFails, Finish, ReportError, vars
<1> QED
  BY <1>3, <1>4, <1>5, <1>6, <1>7, <1>8, <1>9 DEF Next

LEMMA ControlStep == InputsTyped /\ ControlTyped /\ [Next]_vars => ControlTyped'
<1> SUFFICES ASSUME InputsTyped, ControlTyped, [Next]_vars PROVE ControlTyped'
  OBVIOUS
<1> USE DEF ControlTyped, Places, inputs, process, Raise
<1>1. ASSUME \/ \E r \in Robots : EditRobot(r)
             \/ \E ms \in MeshStates : EditMeshes(ms)
             \/ \E f \in Once : EditFile(f)
      PROVE  ControlTyped'
  BY <1>1 DEF EditRobot, EditMeshes, EditFile
<1>2. ASSUME NEW o \in Options, StartRun(o) PROVE ControlTyped'
  BY <1>2 DEF StartRun, Models
<1>3. ASSUME EnterOverlay \/ (\E ok \in BOOLEAN : RunXacroModule(ok) \/ RunXacroCli(ok)) PROVE ControlTyped'
  BY <1>3 DEF EnterOverlay, RunXacroModule, RunXacroCli
<1>4. CASE Parse
  <2>1. ParsedModel \in Models
    BY DEF InputsTyped, ParsedModel, Models
  <2> QED BY <1>4, <2>1 DEF Parse, UnitWarnings
<1>5. CASE Collect
  BY <1>5 DEF Collect, AssetsFail
<1>6. ASSUME NEW mesh \in BOOLEAN, Convert(mesh) PROVE ControlTyped'
  BY <1>6 DEF Convert
<1>9. ASSUME NEW qml \in BOOLEAN, NEW mesh \in BOOLEAN, ConvertFails(qml, mesh) PROVE ControlTyped'
  BY <1>9 DEF ConvertFails, AssetsFail
<1>10. ASSUME (\E left \in Leftovers : ConvertRaises(left)) \/ (\E named \in {scaffold} \cup SUBSET OnDisk : FinishAssetsRaises(named))
       PROVE  ControlTyped'
  BY <1>10 DEF ConvertRaises, FinishAssetsRaises
<1>7. ASSUME FinishAssets \/ Discover PROVE ControlTyped'
  BY <1>7 DEF FinishAssets, Discover
<1>8. ASSUME WriteFile \/ WriteFails \/ RenderFails \/ Finish \/ ReportError \/ UNCHANGED vars PROVE ControlTyped'
  BY <1>8 DEF WriteFile, WriteFails, RenderFails, Finish, ReportError, vars
<1> QED
  BY <1>1, <1>2, <1>3, <1>4, <1>5, <1>6, <1>7, <1>8, <1>9, <1>10 DEF Next

LEMMA FilesTypedStep == FilesTyped /\ [Next]_vars => FilesTyped'
<1> SUFFICES ASSUME FilesTyped, [Next]_vars PROVE FilesTyped'
  OBVIOUS
<1> USE DEF FilesTyped, DiskTyped
<1>0. DiskTyped'
  BY DiskTypedStep
<1>1. ASSUME NEW f \in Once, EditFile(f) PROVE FilesTyped'
  BY <1>0, <1>1 DEF EditFile
<1>2. CASE WriteFile
  BY <1>0, <1>2 DEF WriteFile
<1>3. CASE WriteFails
  BY <1>0, <1>3 DEF WriteFails
<1>4. CASE UNCHANGED disk
  BY <1>4
<1> QED BY <1>1, <1>2, <1>3, <1>4, FilesTouched

\* The mesh in work is one of those still to do, and the first of them.
LEMMA CurrentPending ==
  ASSUME ControlTyped, RunTyped, pending # {}
  PROVE  /\ Current \in pending /\ Current \in Collected
         /\ ModuleAt(Current) \in Modules /\ Geoms[Current] \in ToSet(Geoms)
<1>1. Collected \subseteq DOMAIN Geoms /\ DOMAIN Geoms \subseteq Nat
  BY MeshesListed, FirstOfModule DEF ControlTyped, Collected, Geoms
<1>2. pending \subseteq Nat
  BY <1>1 DEF RunTyped
<1>3. \E n \in pending : \A k \in pending : n <= k
  BY <1>2, LeastNat
<1>4. Current \in pending
  BY <1>3 DEF Current
<1> QED BY <1>4, ModulesNamed DEF RunTyped, ControlTyped, Collected, Geoms, ModuleAt

LEMMA RunStep == ControlTyped /\ RunTyped /\ [Next]_vars => RunTyped'
<1> SUFFICES ASSUME ControlTyped, RunTyped, [Next]_vars PROVE RunTyped'
  OBVIOUS
<1> USE DEF RunTyped, Collected, Geoms, process, output
<1>1. ASSUME \/ \E r \in Robots : EditRobot(r)
             \/ \E ms \in MeshStates : EditMeshes(ms)
             \/ \E f \in Once : EditFile(f)
      PROVE  RunTyped'
  BY <1>1 DEF EditRobot, EditMeshes, EditFile, Edit
<1>2. ASSUME NEW o \in Options, StartRun(o) PROVE RunTyped'
  BY <1>2 DEF StartRun
<1>3. ASSUME EnterOverlay \/ (\E ok \in BOOLEAN : RunXacroModule(ok) \/ RunXacroCli(ok)) PROVE RunTyped'
  BY <1>3 DEF EnterOverlay, RunXacroModule, RunXacroCli
<1>4. CASE Parse
  BY <1>4 DEF Parse, Raise
<1>5. CASE Collect
  BY <1>5 DEF Collect, AssetsFail, Raise
<1>6. ASSUME NEW mesh \in BOOLEAN, Convert(mesh) PROVE RunTyped'
  <2>1. ModuleAt(Current) \in Modules
    BY <1>6, CurrentPending DEF Convert, Converting
  <2>2. Asset(Current, mesh).module \in Modules
    BY <2>1 DEF Asset
  <2> QED BY <1>6, <2>2 DEF Convert, Converting
<1>7. ASSUME NEW qml \in BOOLEAN, NEW mesh \in BOOLEAN, ConvertFails(qml, mesh) PROVE RunTyped'
  BY <1>7 DEF ConvertFails, Converting, AssetsFail, Raise
<1>12. ASSUME NEW left \in Leftovers, ConvertRaises(left) PROVE RunTyped'
  BY <1>12 DEF ConvertRaises, Converting, Raise
<1>13. ASSUME NEW named, FinishAssetsRaises(named) PROVE RunTyped'
  BY <1>13 DEF FinishAssetsRaises, Raise
<1>8. CASE FinishAssets
  BY <1>8 DEF FinishAssets
<1>9. CASE Discover
  <2>1. ASSUME NEW n \in Collected PROVE Asset(n, TRUE).module \in Modules
    BY <2>1, ModulesNamed DEF ControlTyped, Asset, ModuleAt
  <2> QED BY <1>9, <2>1 DEF Discover, Raise
<1>10. ASSUME WriteFile \/ WriteFails \/ RenderFails PROVE RunTyped'
  BY <1>10 DEF WriteFile, WriteFails, RenderFails, Writing, Raise
<1>11. ASSUME Finish \/ ReportError \/ UNCHANGED vars PROVE RunTyped'
  BY <1>11 DEF Finish, ReportError, vars
<1> QED
  BY <1>1, <1>2, <1>3, <1>4, <1>5, <1>6, <1>7, <1>8, <1>9, <1>10, <1>11, <1>12, <1>13 DEF Next

\* The scene is about modules that there are.
LEMMA SceneTyped ==
  ASSUME ControlTyped, RunTyped
  PROVE  SceneOf.imports \subseteq Modules /\ SceneOf.sources \subseteq Modules
<1>1. \A g \in ToSet(VisualMeshes(model)) : ModuleOf(g) \in Modules
  BY MeshesListed, ModulesNamed DEF ControlTyped
<1>2. \A g : SourceOf(g) \subseteq Modules
  BY DEF SourceOf, RunTyped
<1>3. CASE Roots(model) = {}
  BY <1>3 DEF SceneOf, NoScene
<1>4. CASE Roots(model) # {}
  <2>1. SceneOf.imports = {ModuleOf(g) : g \in ToSet(VisualMeshes(model))}
    BY <1>4 DEF SceneOf
  <2>2. SceneOf.sources = UNION {SourceOf(g) : g \in ToSet(CollisionMeshes(model))}
    BY <1>4 DEF SceneOf
  <2> QED BY <1>1, <1>2, <2>1, <2>2
<1> QED BY <1>3, <1>4

LEMMA ReportStep == ControlTyped /\ RunTyped /\ ReportTyped /\ [Next]_vars => ReportTyped'
<1> SUFFICES ASSUME ControlTyped, RunTyped, ReportTyped, [Next]_vars PROVE ReportTyped'
  OBVIOUS
<1> USE DEF ReportTyped, output, Raise
<1>1. ASSUME \/ \E r \in Robots : EditRobot(r)
             \/ \E ms \in MeshStates : EditMeshes(ms)
             \/ \E f \in Once : EditFile(f)
      PROVE  ReportTyped'
  BY <1>1 DEF EditRobot, EditMeshes, EditFile, Edit
<1>2. ASSUME NEW o \in Options, StartRun(o) PROVE ReportTyped'
  BY <1>2 DEF StartRun, NoManifest
<1>3. ASSUME EnterOverlay \/ (\E ok \in BOOLEAN : RunXacroModule(ok) \/ RunXacroCli(ok)) PROVE ReportTyped'
  BY <1>3 DEF EnterOverlay, RunXacroModule, RunXacroCli
<1>4. CASE Parse
  BY <1>4 DEF Parse
<1>5. CASE Collect
  BY <1>5 DEF Collect, AssetsFail
<1>6. ASSUME NEW mesh \in BOOLEAN, Convert(mesh) PROVE ReportTyped'
  BY <1>6 DEF Convert
<1>12. ASSUME NEW qml \in BOOLEAN, NEW mesh \in BOOLEAN, ConvertFails(qml, mesh) PROVE ReportTyped'
  BY <1>12 DEF ConvertFails, AssetsFail
<1>13. ASSUME NEW left \in Leftovers, ConvertRaises(left) PROVE ReportTyped'
  BY <1>13 DEF ConvertRaises
<1>14. ASSUME NEW named \in {scaffold} \cup SUBSET OnDisk, FinishAssetsRaises(named) PROVE ReportTyped'
  BY <1>14 DEF FinishAssetsRaises, OnDisk
<1>7. CASE FinishAssets
  <2>1. scaffold' \subseteq Modules /\ UNCHANGED scene
    BY <1>7 DEF FinishAssets, OnDisk
  <2>2. manifest' = [manifest EXCEPT !.modules = {a.module : a \in assets}] /\ {a.module : a \in assets} \subseteq Modules
    BY <1>7 DEF FinishAssets, RunTyped
  <2> QED BY <2>1, <2>2
<1>8. CASE Discover
  BY <1>8 DEF Discover
<1>9. CASE WriteFile
  <2>1. UNCHANGED scaffold /\ (scene' = SceneOf \/ scene' = scene)
    BY <1>9 DEF WriteFile
  <2>2. scene'.imports \subseteq Modules /\ scene'.sources \subseteq Modules
    BY <2>1, SceneTyped
  <2>3. manifest' = [manifest EXCEPT !.files = @ \cup Reported(Head(todo))]
    BY <1>9 DEF WriteFile
  <2> QED BY <2>1, <2>2, <2>3
<1>10. CASE WriteFails
  <2>1. UNCHANGED <<scaffold, manifest>> /\ (scene' = SceneOf \/ scene' = scene)
    BY <1>10 DEF WriteFails
  <2>2. scene'.imports \subseteq Modules /\ scene'.sources \subseteq Modules
    BY <2>1, SceneTyped
  <2> QED BY <2>1, <2>2
<1>11. ASSUME RenderFails \/ Finish \/ ReportError \/ UNCHANGED vars PROVE ReportTyped'
  BY <1>11 DEF RenderFails, Finish, ReportError, vars
<1> QED
  BY <1>1, <1>2, <1>3, <1>4, <1>5, <1>6, <1>7, <1>8, <1>9, <1>10, <1>11, <1>12, <1>13, <1>14 DEF Next

\* Only a step that fails leaves something that is not whole.
LEMMA MarkStep == ControlTyped /\ RunTyped /\ FilesTyped /\ FilesInv /\ MarkInv /\ [Next]_vars => MarkInv'
<1> SUFFICES ASSUME ControlTyped, RunTyped, FilesTyped, FilesInv, MarkInv, [Next]_vars PROVE MarkInv'
  OBVIOUS
<1>1. ASSUME UNCHANGED <<disk, modules, failed>> PROVE MarkInv'
  BY <1>1 DEF MarkInv, Complete
<1>2. ASSUME UNCHANGED modules, failed' = [failed EXCEPT !.files = failed'.files], failed'.files \subseteq Files,
             \A f \in Files : disk'[f].is = "partial" => f \in failed'.files
      PROVE  MarkInv'
  <2>1. failed'.modules = failed.modules /\ failed' = [files |-> failed'.files, modules |-> failed'.modules]
    BY <1>2 DEF MarkInv
  <2> QED BY <1>2, <2>1 DEF MarkInv, Complete
<1>3. ASSUME UNCHANGED disk, failed' = [failed EXCEPT !.modules = failed'.modules], failed'.modules \subseteq Modules,
             \A m \in Modules : modules'[m].mesh => (modules'[m].qml /\ modules'[m].qmldir) \/ m \in failed'.modules
      PROVE  MarkInv'
  <2>1. failed'.files = failed.files /\ failed' = [files |-> failed'.files, modules |-> failed'.modules]
    BY <1>3 DEF MarkInv
  <2> QED BY <1>3, <2>1 DEF MarkInv, Complete
<1>4. ASSUME NEW f \in Once, EditFile(f) PROVE MarkInv'
  <2>1. UNCHANGED modules /\ failed' = [failed EXCEPT !.files = failed.files \ {f}] /\ disk' = [disk EXCEPT ![f] = [is |-> "edited", of |-> NoModel]]
    BY <1>4 DEF EditFile, FileMended
  <2>2. failed'.files = failed.files \ {f} /\ failed' = [failed EXCEPT !.files = failed'.files]
    BY <2>1 DEF MarkInv
  <2>3. \A g \in Files : disk'[g].is = "partial" => g # f /\ disk[g].is = "partial"
    BY <2>1 DEF FilesTyped, DiskTyped
  <2> QED BY <1>2, <2>1, <2>2, <2>3 DEF MarkInv
<1>5. CASE WriteFile
  <2>1. CASE UNCHANGED <<disk, failed>>
    BY <1>1, <1>5, <2>1 DEF WriteFile
  <2>2. CASE disk' = [disk EXCEPT ![Head(todo)] = [is |-> "written", of |-> model]] /\ FileMended(Head(todo))
    <3>1. UNCHANGED modules
      BY <1>5 DEF WriteFile
    <3>2. failed'.files = failed.files \ {Head(todo)} /\ failed' = [failed EXCEPT !.files = failed'.files]
      BY <2>2 DEF FileMended, MarkInv
    <3>3. \A g \in Files : disk'[g].is = "partial" => g # Head(todo) /\ disk[g].is = "partial"
      BY <2>2 DEF FilesTyped, DiskTyped
    <3> QED BY <1>2, <3>1, <3>2, <3>3 DEF MarkInv
  <2> QED BY <1>5, <2>1, <2>2 DEF WriteFile
<1>6. CASE WriteFails
  <2>1. UNCHANGED modules /\ failed' = [failed EXCEPT !.files = failed.files \cup {Head(todo)}]
        /\ disk' = [disk EXCEPT ![Head(todo)] = [is |-> "partial", of |-> model]]
    BY <1>6 DEF WriteFails, FileBreaks
  <2>2. failed'.files = failed.files \cup {Head(todo)} /\ failed' = [failed EXCEPT !.files = failed'.files]
    BY <2>1 DEF MarkInv
  <2>3. Head(todo) \in Files
    <3>1. todo \in Seq(Order) /\ todo # <<>>
      BY <1>6 DEF WriteFails, Writing, FilesInv
    <3>2. Order \subseteq Files
      BY FilesAssumption DEF ControlTyped, Order
    <3> QED BY <3>1, <3>2, HeadOrTail
  <2>4. \A g \in Files : g # Head(todo) => disk'[g] = disk[g]
    BY <2>1 DEF FilesTyped, DiskTyped
  <2> QED BY <1>2, <2>1, <2>2, <2>3, <2>4 DEF MarkInv
<1>7. ASSUME NEW mesh \in BOOLEAN, Convert(mesh) PROVE MarkInv'
  <2>0. PICK m \in Modules : m = ModuleAt(Current)
    BY <1>7, CurrentPending DEF Convert, Converting
  <2>1. UNCHANGED disk /\ failed' = [failed EXCEPT !.modules = failed.modules \ {m}] /\ modules' = [modules EXCEPT ![m] = Made(Current, mesh)]
    BY <1>7, <2>0 DEF Convert, ModuleMended
  <2>2. failed'.modules = failed.modules \ {m} /\ failed' = [failed EXCEPT !.modules = failed'.modules]
    BY <2>1 DEF MarkInv
  <2>3. modules'[m].qml /\ modules'[m].qmldir /\ \A k \in Modules \ {m} : modules'[k] = modules[k]
    BY <2>1 DEF RunTyped, Made
  <2> QED BY <1>3, <2>1, <2>2, <2>3 DEF MarkInv, Complete
<1>8. ASSUME NEW left, Converting, UNCHANGED disk, modules' = [modules EXCEPT ![ModuleAt(Current)] = left], ModuleBreaks(ModuleAt(Current))
      PROVE  MarkInv'
  <2>0. PICK m \in Modules : m = ModuleAt(Current)
    BY <1>8, CurrentPending DEF Converting
  <2>1. failed' = [failed EXCEPT !.modules = failed.modules \cup {m}] /\ modules' = [modules EXCEPT ![m] = left]
    BY <1>8, <2>0 DEF ModuleBreaks
  <2>2. failed'.modules = failed.modules \cup {m} /\ failed' = [failed EXCEPT !.modules = failed'.modules]
    BY <2>1 DEF MarkInv
  <2>3. \A k \in Modules \ {m} : modules'[k] = modules[k]
    BY <2>1 DEF RunTyped
  <2> QED BY <1>3, <1>8, <2>2, <2>3 DEF MarkInv, Complete
<1>9. ASSUME \/ \E qml, mesh \in BOOLEAN : ConvertFails(qml, mesh)
             \/ \E left \in Leftovers : ConvertRaises(left)
      PROVE  MarkInv'
  BY <1>8, <1>9 DEF ConvertFails, ConvertRaises
<1>10. ASSUME \/ \E r \in Robots : EditRobot(r)
              \/ \E ms \in MeshStates : EditMeshes(ms)
              \/ \E o \in Options : StartRun(o)
              \/ EnterOverlay
              \/ \E ok \in BOOLEAN : RunXacroModule(ok) \/ RunXacroCli(ok)
              \/ Parse
       PROVE  MarkInv'
  BY <1>1, <1>10 DEF EditRobot, EditMeshes, StartRun, EnterOverlay, RunXacroModule, RunXacroCli, Parse, output
<1>11. ASSUME \/ Collect
              \/ FinishAssets
              \/ \E named \in {scaffold} \cup SUBSET OnDisk : FinishAssetsRaises(named)
              \/ Discover
       PROVE  MarkInv'
  BY <1>1, <1>11 DEF Collect, FinishAssets, FinishAssetsRaises, Discover, output
<1>12. ASSUME RenderFails \/ Finish \/ ReportError \/ UNCHANGED vars PROVE MarkInv'
  BY <1>1, <1>12 DEF RenderFails, Finish, ReportError, vars, output
<1> QED
  BY <1>4, <1>5, <1>6, <1>7, <1>9, <1>10, <1>11, <1>12 DEF Next

LEMMA TypeStep == TypeInv /\ FilesInv /\ [Next]_vars => TypeInv'
BY InputsStep, ControlStep, FilesTypedStep, RunStep, ReportStep, CountersStep, MarkStep DEF TypeInv

\* The environment is one of the user's, or one of theirs behind the overlay.
EnvTyped == env \in Environments \cup {[set |-> TRUE, path |-> <<Overlay>> \o e.path] : e \in Environments}

LEMMA EnvInit == Init => EnvTyped /\ SavedTyped
BY DEF Init, EnvTyped, SavedTyped

LEMMA EnvStep == InputsTyped /\ XacroInv /\ EnvTyped /\ SavedTyped /\ [Next]_vars => EnvTyped' /\ SavedTyped'
<1> SUFFICES ASSUME InputsTyped, XacroInv, EnvTyped, SavedTyped, [Next]_vars PROVE EnvTyped' /\ SavedTyped'
  OBVIOUS
<1> USE DEF EnvTyped, SavedTyped, process
<1>1. CASE EnterOverlay
  <2>1. env \in Environments
    BY <1>1 DEF EnterOverlay, XacroInv, XacroEnvironment, InputsTyped
  <2> QED BY <1>1, <2>1 DEF EnterOverlay
<1>2. ASSUME NEW ok \in BOOLEAN, RunXacroModule(ok) PROVE EnvTyped' /\ SavedTyped'
  BY <1>2 DEF RunXacroModule
<1>3. ASSUME \/ \E r \in Robots : EditRobot(r)
             \/ \E ms \in MeshStates : EditMeshes(ms)
             \/ \E f \in Once : EditFile(f)
             \/ \E o \in Options : StartRun(o)
             \/ \E ok \in BOOLEAN : RunXacroCli(ok)
      PROVE  EnvTyped' /\ SavedTyped'
  BY <1>3 DEF EditRobot, EditMeshes, EditFile, StartRun, RunXacroCli
<1>4. ASSUME Parse \/ Collect \/ (\E mesh \in BOOLEAN : Convert(mesh)) \/ FinishAssets \/ Discover
      PROVE  EnvTyped' /\ SavedTyped'
  BY <1>4 DEF Parse, Collect, Convert, FinishAssets, Discover
<1>6. ASSUME \/ \E qml, mesh \in BOOLEAN : ConvertFails(qml, mesh)
             \/ \E left \in Leftovers : ConvertRaises(left)
             \/ \E named \in {scaffold} \cup SUBSET OnDisk : FinishAssetsRaises(named)
      PROVE  EnvTyped' /\ SavedTyped'
  BY <1>6 DEF ConvertFails, ConvertRaises, FinishAssetsRaises
<1>5. ASSUME WriteFile \/ WriteFails \/ RenderFails \/ Finish \/ ReportError \/ UNCHANGED vars PROVE EnvTyped' /\ SavedTyped'
  BY <1>5 DEF WriteFile, WriteFails, RenderFails, Finish, ReportError, vars
<1> QED
  BY <1>1, <1>2, <1>3, <1>4, <1>5, <1>6 DEF Next

LEMMA TypesHold == TypeInv /\ EnvTyped /\ SavedTyped /\ XacroInv /\ FilesInv => TypeOK
<1> SUFFICES ASSUME TypeInv, EnvTyped, SavedTyped, XacroInv, FilesInv PROVE TypeOK
  OBVIOUS
<1>1. overlay \subseteq XacroPackages
  BY DEF XacroInv, XacroEnvironment
<1>2. manifest.files \subseteq Files
  BY FilesAssumption DEF FilesInv, Order, TypeInv, ControlTyped
<1>3. scene.imports \cup scene.sources \cup manifest.modules \subseteq Modules
  BY DEF TypeInv, ReportTyped
<1> QED
  BY <1>1, <1>2, <1>3
  DEF TypeOK, TypeInv, InputsTyped, ControlTyped, Places, Models, FilesTyped, ReportTyped, CountersTyped, EnvTyped, SavedTyped, MarkInv

\* Every variable keeps its type; above all, whatever fails, the output names
\* only modules of meshes that some robot has.
THEOREM TypeCorrect == Spec => []TypeOK
BY TypeInit, TypeStep, EnvInit, EnvStep, XacroInit, XacroStep, FilesInit, FilesStep, TypesHold, PTL DEF Spec, TypeInv

-----------------------------------------------------------------------------
(* The meshes that the scene refers to *)

\* What the run may refer to is on disk: what is still to convert does not
\* touch what has been, and robot.qml, once written, refers to that only.
AssetsThere == \A a \in assets : a.mesh => modules[a.module].mesh
SceneThere ==
    /\ \A m \in scene.sources : modules[m].mesh
    /\ \A m \in scene.imports : \E g \in ToSet(AllMeshes(model)) : m = ModuleOf(g)

RefersInv ==
    /\ pc \in {"convert", "write"} => AssetsThere
    /\ pc = "convert" => \A a \in assets, n \in pending : a.module # ModuleAt(n)
    /\ pc = "write" /\ "robot.qml" \notin ToSet(todo) => SceneThere
    /\ Exported => SceneThere

LEMMA RefersInit == Init => RefersInv
BY DEF Init, RefersInv, Exported, NoManifest

LEMMA SceneIsThere ==
  ASSUME ControlTyped, AssetsThere
  PROVE  /\ \A m \in SceneOf.sources : modules[m].mesh
         /\ \A m \in SceneOf.imports : \E g \in ToSet(AllMeshes(model)) : m = ModuleOf(g)
<1>1. \A g : \A m \in SourceOf(g) : modules[m].mesh
  BY DEF SourceOf, AssetsThere
<1>2. CASE Roots(model) = {}
  BY <1>2 DEF SceneOf, NoScene
<1>3. CASE Roots(model) # {}
  <2>1. SceneOf.sources = UNION {SourceOf(g) : g \in ToSet(CollisionMeshes(model))}
    BY <1>3 DEF SceneOf
  <2>2. SceneOf.imports = {ModuleOf(g) : g \in ToSet(VisualMeshes(model))}
    BY <1>3 DEF SceneOf
  <2>3. ToSet(VisualMeshes(model)) \subseteq ToSet(AllMeshes(model))
    BY MeshesListed DEF ControlTyped
  <2> QED BY <1>1, <2>1, <2>2, <2>3
<1> QED BY <1>2, <1>3

\* Two places that stand for modules stand for different ones.
LEMMA ModulesDiffer ==
  ASSUME ControlTyped, NEW n \in Collected, NEW k \in Collected, n # k
  PROVE  ModuleAt(n) # ModuleAt(k)
BY MeshesListed, FirstOfModule DEF ControlTyped, Collected, Geoms, ModuleAt

LEMMA RobotQmlFirst == "robot.qml" \in ToSet(WriteOrder(options))
BY NamedAreWritten

LEMMA RefersConvert ==
  ASSUME ControlTyped, RunTyped, RefersInv, NEW mesh \in BOOLEAN, Convert(mesh)
  PROVE  RefersInv'
<1> DEFINE n == Current
           m == ModuleAt(n)
<1>1. pc = "convert" /\ pc' = "convert" /\ pending # {} /\ AssetsThere
  BY DEF Convert, Converting, RefersInv
<1>2. n \in pending /\ n \in Collected /\ m \in Modules
  BY <1>1, CurrentPending
<1>3. /\ modules' = [modules EXCEPT ![m] = Made(n, mesh)]
      /\ assets' = assets \cup {Asset(n, mesh)} /\ pending' = pending \ {n}
      /\ UNCHANGED model
  BY DEF Convert
<1>4. \A k : ModuleAt(k)' = ModuleAt(k)
  BY <1>3 DEF ModuleAt, Geoms
<1>5. modules'[m].mesh = mesh
  BY <1>2, <1>3 DEF RunTyped, Made
<1>6. \A a \in assets : a.module # m /\ modules'[a.module] = modules[a.module]
  <2>1. \A a \in assets : a.module # m /\ a.module \in Modules
    BY <1>1, <1>2 DEF RefersInv, RunTyped
  <2> HIDE DEF m
  <2> QED BY <1>3, <2>1 DEF RunTyped
<1>7. Asset(n, mesh).module = m /\ Asset(n, mesh).mesh = mesh
  BY DEF Asset
<1> HIDE DEF m
<1>8. AssetsThere'
  BY <1>1, <1>3, <1>5, <1>6, <1>7 DEF AssetsThere
<1>9. ASSUME NEW a \in assets', NEW k \in pending' PROVE a.module # ModuleAt(k)
  <2>1. k \in pending /\ k # n /\ k \in Collected
    BY <1>3 DEF RunTyped
  <2>2. ModuleAt(k) # m
    BY <1>2, <2>1, ModulesDiffer DEF m
  <2> QED BY <1>1, <1>3, <1>7, <2>1, <2>2 DEF RefersInv
<1>10. \A a \in assets', k \in pending' : a.module # ModuleAt(k)'
  BY <1>4, <1>9
<1> QED BY <1>1, <1>8, <1>10 DEF RefersInv, Exported

LEMMA RefersWrite ==
  ASSUME ControlTyped, FilesInv, RefersInv, WriteFile
  PROVE  RefersInv'
<1>1. /\ pc = "write" /\ pc' = "write" /\ todo # <<>> /\ todo \in Seq(Order)
      /\ todo' = Tail(todo) /\ UNCHANGED <<modules, assets, model>>
      /\ scene' = IF Head(todo) = "robot.qml" THEN SceneOf ELSE scene
  BY DEF WriteFile, Writing, FilesInv
<1>2. AssetsThere /\ AssetsThere'
  BY <1>1 DEF RefersInv, AssetsThere
<1>3. ASSUME "robot.qml" \notin ToSet(todo') PROVE SceneThere'
  <2>1. CASE Head(todo) = "robot.qml"
    BY <1>1, <1>2, <2>1, SceneIsThere DEF SceneThere
  <2>2. CASE Head(todo) # "robot.qml"
    <3>1. "robot.qml" \notin ToSet(todo)
      BY <1>1, <1>3, <2>2, HeadOrTail
    <3> QED BY <1>1, <2>2, <3>1 DEF RefersInv, SceneThere
  <2> QED BY <2>1, <2>2
<1> QED BY <1>1, <1>2, <1>3 DEF RefersInv, Exported

LEMMA RefersStep == ControlTyped /\ RunTyped /\ FilesInv /\ RefersInv /\ [Next]_vars => RefersInv'
<1> SUFFICES ASSUME ControlTyped, RunTyped, FilesInv, RefersInv, [Next]_vars PROVE RefersInv'
  OBVIOUS
<1>1. ASSUME \/ \E r \in Robots : EditRobot(r)
             \/ \E ms \in MeshStates : EditMeshes(ms)
             \/ \E f \in Once : EditFile(f)
      PROVE  RefersInv'
  <2>1. pc' = "idle" /\ manifest' = [manifest EXCEPT !.status = "edited"]
    BY <1>1 DEF EditRobot, EditMeshes, EditFile, Edit
  <2> QED BY <2>1 DEF RefersInv, Exported, FilesInv
<1>2. ASSUME NEW o \in Options, StartRun(o) PROVE RefersInv'
  BY <1>2 DEF StartRun, RefersInv, Exported
<1>3. ASSUME EnterOverlay \/ (\E ok \in BOOLEAN : RunXacroModule(ok) \/ RunXacroCli(ok)) PROVE RefersInv'
  BY <1>3 DEF EnterOverlay, RunXacroModule, RunXacroCli, RefersInv, Exported
<1>4. CASE Parse
  <2>1. pc' = "write" => todo' = WriteOrder(options) /\ assets' = {}
    BY <1>4 DEF Parse, Raise, RunTyped
  <2>2. pc' \in {"write", "collect", "discover", "raised"}
    BY <1>4 DEF Parse, Raise
  <2> QED BY <2>1, <2>2, RobotQmlFirst DEF RefersInv, Exported, AssetsThere
<1>5. CASE Collect
  <2>1. pc' \in {"convert", "discover", "raised"} /\ (pc' = "convert" => assets' = {})
    BY <1>5 DEF Collect, AssetsFail, Raise, RunTyped
  <2> QED BY <2>1 DEF RefersInv, Exported, AssetsThere
<1>6. ASSUME NEW mesh \in BOOLEAN, Convert(mesh) PROVE RefersInv'
  BY <1>6, RefersConvert
<1>7. ASSUME NEW qml \in BOOLEAN, NEW mesh \in BOOLEAN, ConvertFails(qml, mesh) PROVE RefersInv'
  <2>1. pc' \in {"discover", "raised"}
    BY <1>7 DEF ConvertFails, AssetsFail, Raise
  <2> QED BY <2>1 DEF RefersInv, Exported
<1>8. CASE FinishAssets
  <2>1. pc = "convert" /\ pc' = "write" /\ todo' = WriteOrder(options) /\ UNCHANGED <<assets, modules>>
    BY <1>8 DEF FinishAssets
  <2> QED BY <2>1, RobotQmlFirst DEF RefersInv, Exported, AssetsThere
<1>9. CASE Discover
  <2>1. CASE Uncollectable
    BY <1>9, <2>1 DEF Discover, Raise, RefersInv, Exported
  <2>2. CASE ~Uncollectable
    <3>1. /\ pc' = "write" /\ todo' = WriteOrder(options) /\ UNCHANGED modules
          /\ assets' = {Asset(n, TRUE) : n \in {k \in Collected : modules[ModuleAt(k)].mesh}}
      BY <1>9, <2>2 DEF Discover, output
    <3>2. AssetsThere'
      BY <3>1 DEF AssetsThere, Asset
    <3> QED BY <3>1, <3>2, RobotQmlFirst DEF RefersInv, Exported
  <2> QED BY <2>1, <2>2
<1>10. CASE WriteFile
  BY <1>10, RefersWrite
<1>11. ASSUME WriteFails \/ RenderFails PROVE RefersInv'
  BY <1>11 DEF WriteFails, RenderFails, Raise, RefersInv, Exported
<1>15. ASSUME (\E left \in Leftovers : ConvertRaises(left)) \/ (\E named \in {scaffold} \cup SUBSET OnDisk : FinishAssetsRaises(named))
       PROVE  RefersInv'
  BY <1>15 DEF ConvertRaises, FinishAssetsRaises, Raise, RefersInv, Exported
<1>12. CASE Finish
  <2>1. pc = "write" /\ "robot.qml" \notin ToSet(todo) /\ pc' = "idle" /\ UNCHANGED <<scene, modules, model>>
    BY <1>12 DEF Finish, process, output, ToSet
  <2> QED BY <2>1 DEF RefersInv, SceneThere
<1>13. CASE ReportError
  <2>1. pc' = "idle" /\ manifest' = [manifest EXCEPT !.status = "error"]
    BY <1>13 DEF ReportError
  <2> QED BY <2>1 DEF RefersInv, Exported, FilesInv
<1>14. CASE UNCHANGED vars
  BY <1>14 DEF vars, output, process, RefersInv, Exported, AssetsThere, SceneThere, ModuleAt, Geoms
<1> QED
  BY <1>1, <1>2, <1>3, <1>4, <1>5, <1>6, <1>7, <1>8, <1>9, <1>10, <1>11, <1>12, <1>13, <1>14, <1>15 DEF Next

-----------------------------------------------------------------------------
(* The meshes that the run accounts for *)

\* The module was made from the present content of its file, all of it.
MadeAt(n) ==
    LET m == modules[ModuleAt(n)] IN m.qml /\ m.qmldir /\ m.from = SourceAt(n) /\ m.content = meshes[SourceAt(n)]

\* Converting has made all but what is pending; writing begins with all of it,
\* or with a warning, and no mesh without its file.
MeshInv ==
    /\ pc = "convert" => /\ ~Uncollectable
                         /\ \A n \in Collected \ pending : MadeAt(n) /\ \E a \in assets : a.module = ModuleAt(n)
    /\ pc = "discover" => ~options.assets \/ "balsam" \in warnings
    /\ pc = "write" \/ Exported => ~Uncollectable
    /\ (pc = "write" \/ Exported) /\ options.assets /\ "balsam" \notin warnings =>
           \A n \in Collected : MadeAt(n) /\ ModuleAt(n) \in scaffold \cap manifest.modules

LEMMA MeshInit == Init => MeshInv
BY DEF Init, MeshInv, Exported, NoManifest

LEMMA NothingToCollect ==
  ASSUME NEW prefixes, NEW files
  PROVE  ~CollectionFails(<<>>, prefixes, files) /\ CollectMeshAssets(<<>>) = {}
BY DEF CollectionFails, CollectMeshAssets, ToSet

LEMMA MeshConvert ==
  ASSUME ControlTyped, RunTyped, MeshInv, NEW mesh \in BOOLEAN, Convert(mesh)
  PROVE  MeshInv'
<1>1. pc = "convert" /\ pc' = "convert" /\ pending # {}
  BY DEF Convert, Converting
<1>0. PICK n : n = Current
  OBVIOUS
<1> DEFINE m == ModuleAt(n)
<1>2. n \in pending /\ n \in Collected /\ m \in Modules
  BY <1>0, <1>1, CurrentPending
<1>3. /\ modules' = [modules EXCEPT ![m] = Made(n, mesh)]
      /\ assets' = assets \cup {Asset(n, mesh)} /\ pending' = pending \ {n}
      /\ UNCHANGED <<model, env, meshes>>
  BY <1>0 DEF Convert, inputs
<1>4. /\ Collected' = Collected /\ Uncollectable' = Uncollectable
      /\ \A k : ModuleAt(k)' = ModuleAt(k) /\ SourceAt(k)' = SourceAt(k)
  BY <1>3 DEF ModuleAt, SourceAt, Geoms, Collected, Uncollectable
<1>5. modules'[m] = Made(n, mesh) /\ Asset(n, mesh).module = m
  BY <1>2, <1>3 DEF RunTyped, Asset
<1>6. ASSUME NEW k \in Collected \ pending' PROVE MadeAt(k)' /\ \E a \in assets' : a.module = ModuleAt(k)
  <2>1. CASE k = n
    <3>1. MadeAt(n)'
      BY <1>3, <1>4, <1>5 DEF MadeAt, Made
    <3> QED BY <1>3, <1>5, <2>1, <3>1
  <2>2. CASE k # n
    <3>1. k \in Collected \ pending
      BY <1>3, <1>6, <2>2
    <3>2. ModuleAt(k) # m /\ ModuleAt(k) \in Modules
      BY <1>2, <2>2, <3>1, ModulesDiffer, ModulesNamed DEF ControlTyped, ModuleAt, Collected, Geoms
    <3> HIDE DEF m
    <3>3. modules'[ModuleAt(k)] = modules[ModuleAt(k)]
      BY <1>3, <3>2 DEF RunTyped
    <3>4. MadeAt(k)
      BY <1>1, <3>1 DEF MeshInv
    <3>5. MadeAt(k)'
      BY <1>3, <1>4, <3>3, <3>4 DEF MadeAt
    <3> QED BY <1>1, <1>3, <3>1, <3>5 DEF MeshInv
  <2> QED BY <2>1, <2>2
<1>7. ~Uncollectable'
  BY <1>1, <1>4 DEF MeshInv
<1>8. \A k \in Collected' \ pending' : MadeAt(k)' /\ \E a \in assets' : a.module = ModuleAt(k)'
  BY <1>4, <1>6
<1> QED BY <1>1, <1>7, <1>8 DEF MeshInv, Exported

\* A step that leaves the meshes alone and neither begins nor ends a run.
LEMMA MeshSame ==
  ASSUME MeshInv, UNCHANGED <<model, env, meshes, options, warnings, modules, scaffold>>, manifest'.modules = manifest.modules,
         pc' = "write" \/ Exported' => pc = "write" \/ Exported, pc' # "convert", pc' # "discover"
  PROVE  MeshInv'
<1>1. /\ Collected' = Collected /\ Uncollectable' = Uncollectable
      /\ \A k : ModuleAt(k)' = ModuleAt(k) /\ SourceAt(k)' = SourceAt(k)
  BY DEF ModuleAt, SourceAt, Geoms, Collected, Uncollectable
<1>2. \A k : MadeAt(k)' = MadeAt(k)
  BY <1>1 DEF MadeAt
<1> QED BY <1>1, <1>2 DEF MeshInv

LEMMA MeshStep == ControlTyped /\ RunTyped /\ FilesInv /\ MeshInv /\ [Next]_vars => MeshInv'
<1> SUFFICES ASSUME ControlTyped, RunTyped, FilesInv, MeshInv, [Next]_vars PROVE MeshInv'
  OBVIOUS
<1>0. ASSUME pc' \notin {"convert", "discover", "write"}, ~Exported' PROVE MeshInv'
  BY <1>0 DEF MeshInv
<1>1. ASSUME \/ \E r \in Robots : EditRobot(r)
             \/ \E ms \in MeshStates : EditMeshes(ms)
             \/ \E f \in Once : EditFile(f)
      PROVE  MeshInv'
  <2>1. pc' = "idle" /\ manifest' = [manifest EXCEPT !.status = "edited"]
    BY <1>1 DEF EditRobot, EditMeshes, EditFile, Edit
  <2> QED BY <1>0, <2>1 DEF Exported, FilesInv
<1>2. ASSUME NEW o \in Options, StartRun(o) PROVE MeshInv'
  BY <1>0, <1>2 DEF StartRun, Exported
<1>3. ASSUME EnterOverlay \/ (\E ok \in BOOLEAN : RunXacroModule(ok) \/ RunXacroCli(ok)) PROVE MeshInv'
  BY <1>0, <1>3 DEF EnterOverlay, RunXacroModule, RunXacroCli, Exported
<1>4. CASE Parse
  <2>1. CASE pc' = "write"
    <3>1. Geoms' = <<>>
      BY <1>4, <2>1 DEF Parse, Raise, Geoms
    <3>2. ~Uncollectable' /\ Collected' = {}
      BY <3>1, NothingToCollect DEF Uncollectable, Collected
    <3> QED BY <2>1, <3>2 DEF MeshInv
  <2>2. CASE pc' = "discover"
    <3>1. ~(options.assets')
      BY <1>4, <2>2 DEF Parse, Raise
    <3> QED BY <2>2, <3>1 DEF MeshInv, Exported
  <2>3. CASE pc' \in {"collect", "raised"}
    BY <1>0, <2>3 DEF Exported
  <2> QED BY <1>4, <2>1, <2>2, <2>3 DEF Parse, Raise
<1>5. CASE Collect
  <2>1. CASE pc' = "convert"
    <3>1. ~Uncollectable /\ pending' = Collected /\ UNCHANGED <<model, env, meshes>>
      BY <1>5, <2>1 DEF Collect, AssetsFail, Raise, inputs
    <3>2. ~Uncollectable' /\ Collected' = Collected
      BY <3>1 DEF Uncollectable, Collected, Geoms
    <3> QED BY <2>1, <3>1, <3>2 DEF MeshInv, Exported
  <2>2. CASE pc' = "discover"
    <3>1. "balsam" \in warnings'
      BY <1>5, <2>2 DEF Collect, AssetsFail, Raise
    <3> QED BY <2>2, <3>1 DEF MeshInv, Exported
  <2>3. CASE pc' = "raised"
    BY <1>0, <2>3 DEF Exported
  <2> QED BY <1>5, <2>1, <2>2, <2>3 DEF Collect, AssetsFail, Raise
<1>6. ASSUME NEW mesh \in BOOLEAN, Convert(mesh) PROVE MeshInv'
  BY <1>6, MeshConvert
<1>7. ASSUME NEW qml \in BOOLEAN, NEW mesh \in BOOLEAN, ConvertFails(qml, mesh) PROVE MeshInv'
  <2>1. CASE pc' = "discover"
    <3>1. "balsam" \in warnings'
      BY <1>7, <2>1 DEF ConvertFails, AssetsFail, Raise
    <3> QED BY <2>1, <3>1 DEF MeshInv, Exported
  <2>2. CASE pc' = "raised"
    BY <1>0, <2>2 DEF Exported
  <2> QED BY <1>7, <2>1, <2>2 DEF ConvertFails, AssetsFail, Raise
<1>8. CASE FinishAssets
  <2>1. /\ pc = "convert" /\ pending = {} /\ pc' = "write"
        /\ UNCHANGED <<model, env, meshes, modules>>
        /\ scaffold' = {m \in Modules : modules[m].qml}
        /\ manifest' = [manifest EXCEPT !.modules = {a.module : a \in assets}]
    BY <1>8 DEF FinishAssets, OnDisk, inputs
  <2>2. /\ Collected' = Collected /\ Uncollectable' = Uncollectable
        /\ \A k : ModuleAt(k)' = ModuleAt(k) /\ SourceAt(k)' = SourceAt(k)
    BY <2>1 DEF ModuleAt, SourceAt, Geoms, Collected, Uncollectable
  <2>3. manifest'.modules = {a.module : a \in assets}
    BY <2>1 DEF FilesInv
  <2>4. ASSUME NEW k \in Collected PROVE MadeAt(k)' /\ ModuleAt(k) \in scaffold' \cap manifest'.modules
    <3>1. MadeAt(k) /\ \E a \in assets : a.module = ModuleAt(k)
      BY <2>1 DEF MeshInv
    <3>2. ModuleAt(k) \in Modules
      BY ModulesNamed DEF ControlTyped, ModuleAt, Collected, Geoms
    <3>3. MadeAt(k)'
      BY <2>1, <2>2, <3>1 DEF MadeAt
    <3>4. ModuleAt(k) \in scaffold'
      BY <2>1, <3>1, <3>2 DEF MadeAt
    <3> QED BY <2>3, <3>1, <3>3, <3>4
  <2>5. ~Uncollectable'
    BY <2>1, <2>2 DEF MeshInv
  <2> QED BY <2>1, <2>2, <2>4, <2>5 DEF MeshInv
<1>9. CASE Discover
  <2>1. CASE pc' = "write"
    <3>1. ~Uncollectable /\ UNCHANGED <<model, env, meshes, options, warnings>> /\ (~options.assets \/ "balsam" \in warnings)
      BY <1>9, <2>1 DEF Discover, Raise, inputs, MeshInv
    <3>2. ~Uncollectable'
      BY <3>1 DEF Uncollectable, Geoms
    <3> QED BY <2>1, <3>1, <3>2 DEF MeshInv
  <2>2. CASE pc' = "raised"
    BY <1>0, <2>2 DEF Exported
  <2> QED BY <1>9, <2>1, <2>2 DEF Discover, Raise
<1>10. CASE WriteFile
  <2>1. manifest' = [manifest EXCEPT !.files = @ \cup Reported(Head(todo))]
    BY <1>10 DEF WriteFile
  <2>2. manifest'.modules = manifest.modules
    BY <2>1 DEF FilesInv
  <2> QED BY <1>10, <2>2, MeshSame DEF WriteFile, Writing, inputs
<1>11. ASSUME WriteFails \/ RenderFails PROVE MeshInv'
  BY <1>0, <1>11 DEF WriteFails, RenderFails, Raise, Exported
<1>15. ASSUME (\E left \in Leftovers : ConvertRaises(left)) \/ (\E named \in {scaffold} \cup SUBSET OnDisk : FinishAssetsRaises(named))
       PROVE  MeshInv'
  BY <1>0, <1>15 DEF ConvertRaises, FinishAssetsRaises, Raise, Exported
<1>12. CASE Finish
  <2>1. manifest' = [manifest EXCEPT !.status = "ok"]
    BY <1>12 DEF Finish
  <2>2. manifest'.modules = manifest.modules
    BY <2>1 DEF FilesInv
  <2> QED BY <1>12, <2>2, MeshSame DEF Finish, inputs, process, output
<1>13. CASE ReportError
  <2>1. pc' = "idle" /\ manifest' = [manifest EXCEPT !.status = "error"]
    BY <1>13 DEF ReportError
  <2> QED BY <1>0, <2>1 DEF Exported, FilesInv
<1>14. CASE UNCHANGED vars
  BY <1>14 DEF vars, inputs, output, process, MeshInv, Exported, MadeAt, ModuleAt, SourceAt, Collected, Uncollectable, Geoms
<1> QED
  BY <1>1, <1>2, <1>3, <1>4, <1>5, <1>6, <1>7, <1>8, <1>9, <1>10, <1>11, <1>12, <1>13, <1>14, <1>15 DEF Next

LEMMA MeshesHold == InputsTyped /\ ControlTyped /\ XacroInv /\ MeshInv => MeshesAccountedFor
<1> DEFINE Source(g) == ResolveMeshUri(g.uri, userEnv.path, DOMAIN meshes)
           geoms == ToSet(AllMeshes(model))
<1> SUFFICES ASSUME InputsTyped, ControlTyped, XacroInv, MeshInv, Exported
             PROVE  /\ \A g \in geoms : Source(g) \in DOMAIN meshes /\ SameName(Source(g), g.uri)
                    /\ \A g, h \in geoms : ModuleOf(g) = ModuleOf(h) => Source(g) = Source(h)
                    /\ ~Unprepared =>
                           \A g \in geoms : LET m == ModuleOf(g) IN
                               /\ Complete(m)
                               /\ modules[m].from = Source(g) /\ modules[m].content = meshes[Source(g)]
                               /\ m \in scaffold \cap manifest.modules
  BY DEF MeshesAccountedFor
<1>1. env = userEnv
  BY DEF XacroInv, XacroEnvironment, Exported
<1>2. ~CollectionFails(AllMeshes(model), userEnv.path, DOMAIN meshes)
  BY <1>1 DEF MeshInv, Uncollectable, Geoms
<1>3. /\ \A g \in geoms : Source(g) # NoFile
      /\ \A g, h \in geoms : ModuleOf(g) = ModuleOf(h) => Source(g) = Source(h)
  BY <1>2 DEF CollectionFails
<1>4. ASSUME NEW g \in geoms PROVE Source(g) \in DOMAIN meshes /\ SameName(Source(g), g.uri)
  <2>1. \A f \in DOMAIN meshes : f.dir \in Dirs
    BY MeshStatesAssumption DEF InputsTyped, Dirs
  <2>2. Fits(Source(g), g.uri, DOMAIN meshes)
    BY <2>1, FitsUri
  <2> QED BY <1>3, <2>2 DEF Fits
<1>5. ASSUME ~Unprepared, NEW g \in geoms
      PROVE  LET m == ModuleOf(g) IN
                 /\ Complete(m)
                 /\ modules[m].from = Source(g) /\ modules[m].content = meshes[Source(g)]
                 /\ m \in scaffold \cap manifest.modules
  <2>1. PICK n \in DOMAIN Geoms : g = Geoms[n]
    BY DEF ToSet, Geoms
  <2>2. PICK k \in Collected : ModuleAt(k) = ModuleOf(g)
    BY <2>1, MeshesListed, FirstOfModule DEF ControlTyped, Collected, Geoms, ModuleAt
  <2>3. MadeAt(k) /\ ModuleAt(k) \in scaffold \cap manifest.modules
    BY <1>5 DEF MeshInv, Unprepared
  <2>4. Geoms[k] \in geoms
    BY ModulesNamed DEF ControlTyped, Collected, Geoms
  <2>5. Source(Geoms[k]) = Source(g)
    BY <1>3, <2>2, <2>4 DEF ModuleAt
  <2>6. SourceAt(k) = Source(g)
    BY <1>1, <2>5 DEF SourceAt
  <2> HIDE DEF Source
  <2> QED BY <2>2, <2>3, <2>6 DEF MadeAt, Complete
<1> HIDE DEF geoms, Source
<1> QED BY <1>3, <1>4, <1>5

\* Whatever links, meshes, files and earlier runs: each mesh of a robot that
\* was exported has its file, alone in its module, and a run that was to
\* convert and did not warn has made, listed and reported every module from
\* what the files hold now.
THEOREM MeshesCorrect == Spec => []MeshesAccountedFor
BY TypeInit, TypeStep, XacroInit, XacroStep, FilesInit, FilesStep, MeshInit, MeshStep, MeshesHold, PTL DEF Spec, TypeInv

LEMMA ReferencesHold == ReportTyped /\ MarkInv /\ RefersInv /\ MeshesAccountedFor => ReferencesExist
<1> SUFFICES ASSUME ReportTyped, MarkInv, RefersInv, MeshesAccountedFor, Exported
             PROVE  /\ \A m \in scene.imports : (Complete(m) /\ m \in scaffold) \/ Unprepared
                    /\ \A m \in scene.sources : modules[m].mesh /\ (Complete(m) \/ m \in failed.modules)
  BY DEF ReferencesExist
<1>1. SceneThere
  BY DEF RefersInv
<1>2. ASSUME NEW m \in scene.imports, ~Unprepared PROVE Complete(m) /\ m \in scaffold
  <2>1. PICK g \in ToSet(AllMeshes(model)) : m = ModuleOf(g)
    BY <1>1 DEF SceneThere
  <2> QED BY <1>2, <2>1 DEF MeshesAccountedFor
<1>3. ASSUME NEW m \in scene.sources PROVE modules[m].mesh /\ (Complete(m) \/ m \in failed.modules)
  BY <1>1 DEF SceneThere, ReportTyped, MarkInv
<1> QED BY <1>2, <1>3

\* Whatever has been converted, kept or broken by this run and those before
\* it: a good run that was to prepare the modules leaves every import of the
\* robot's QML complete and named, and no good run refers to a mesh that is
\* not there, or is there by anything but a conversion or the last failure.
THEOREM ReferencesCorrect == Spec => []ReferencesExist
BY TypeInit, TypeStep, XacroInit, XacroStep, FilesInit, FilesStep, MeshInit, MeshStep, MeshesHold,
   RefersInit, RefersStep, ReferencesHold, PTL DEF Spec, TypeInv

LEMMA GoodFilesWhole == ControlTyped /\ FilesTyped /\ MarkInv /\ FilesInv /\ MeshesAccountedFor => FilesWhole
<1> SUFFICES ASSUME ControlTyped, FilesTyped, MarkInv, FilesInv, MeshesAccountedFor, Exported,
                    NEW f \in manifest.files \cup ListedByCMake(options, model)
             PROVE  \/ f \in Files \ Once /\ disk[f] = [is |-> "written", of |-> robot.model]
                    \/ f \in Once /\ (disk[f].is \in {"written", "edited"} \/ f \in failed.files)
                    \/ f = "main.cpp" /\ ~options.main
                    \/ f = "Generated" /\ (scaffold # {} \/ Unprepared)
  BY DEF FilesWhole
<1>1. Order \subseteq Files
  BY FilesAssumption DEF ControlTyped, Order
<1>2. CASE f \in Order
  <2>1. Good(f) /\ f \in Files /\ model = robot.model
    BY <1>1, <1>2 DEF FilesInv
  <2>2. CASE f \in Once
    BY <2>1, <2>2 DEF Good, FilesTyped, MarkInv
  <2>3. CASE f \notin Once
    BY <2>1, <2>3 DEF Good
  <2> QED BY <2>2, <2>3
<1>3. CASE f = "Generated" /\ f \in ListedByCMake(options, model)
  <2>1. ASSUME ~Unprepared PROVE scaffold # {}
    <3>1. VisualMeshes(model) # <<>>
      BY <1>3, NamedAreWritten
    <3>2. ToSet(VisualMeshes(model)) \subseteq ToSet(AllMeshes(model))
      BY MeshesListed DEF ControlTyped
    <3>3. PICK g \in ToSet(VisualMeshes(model)) : TRUE
      BY <3>1, MeshesListed DEF ControlTyped, ToSet
    <3> QED BY <2>1, <3>2, <3>3 DEF MeshesAccountedFor
  <2> QED BY <1>3, <2>1
<1>4. CASE f = "main.cpp" /\ ~options.main
  BY <1>4
<1>5. manifest.files \subseteq Order
  BY DEF FilesInv
<1>6. \A g \in ListedByCMake(options, model) \ {"Generated"} : g \in Order \/ (g = "main.cpp" /\ ~options.main)
  BY NamedAreWritten DEF Order
<1> QED BY <1>2, <1>3, <1>4, <1>5, <1>6

\* A run that reports success leaves each file it names whole and made from
\* the present robot, over what any earlier runs and faults left on disk; only
\* a once-only file can be in parts, and then the step that wrote it failed.
THEOREM ReportedFilesWhole == Spec => []FilesWhole
BY TypeInit, TypeStep, XacroInit, XacroStep, FilesInit, FilesStep, MeshInit, MeshStep, MeshesHold, GoodFilesWhole, PTL DEF Spec, TypeInv

-----------------------------------------------------------------------------
(* Scenes in a scene: pairs of a link and what it is nested in.             *)

LEMMA FlattenStages ==
  ASSUME NEW A, NEW seqs \in Seq(Seq(A))
  PROVE  \E g : /\ g[0] = <<>> /\ FlattenSeq(seqs) = g[Len(seqs)]
                /\ \A n \in 0..Len(seqs) : g[n] \in Seq(A)
                /\ \A n \in 0..Len(seqs) : n # 0 => g[n] = g[n - 1] \o seqs[n]
<1>0. Len(seqs) \in Nat /\ \A n \in 1..Len(seqs) : seqs[n] \in Seq(A)
  OBVIOUS
<1>1. CASE seqs = <<>>
  <2> DEFINE g == [n \in {0} |-> <<>>]
  <2>1. FlattenSeq(seqs) = <<>> /\ Len(seqs) = 0
    BY <1>1 DEF FlattenSeq
  <2>2. g[0] = <<>> /\ <<>> \in Seq(A) /\ \A n \in 0..0 : n = 0
    OBVIOUS
  <2>3. \A n \in 0..Len(seqs) : g[n] \in Seq(A) /\ n = 0
    BY <2>1, <2>2
  <2> HIDE DEF g
  <2> QED BY <2>1, <2>2, <2>3
<1>2. CASE seqs # <<>>
  <2>1. PICK h : Flat(seqs, Len(seqs), h) /\ FlattenSeq(seqs) = h[Len(seqs)]
    BY <1>2, FlattenIsFlat
  <2>2. \A i \in 1..Len(seqs) : h[i] = IF i = 1 THEN seqs[i] ELSE h[i - 1] \o seqs[i]
    BY <2>1 DEF Flat
  <2> DEFINE g == [i \in 0..Len(seqs) |-> IF i = 0 THEN <<>> ELSE h[i]]
  <2>3. g[0] = <<>> /\ \A i \in 1..Len(seqs) : g[i] = h[i]
    BY <1>0
  <2>4. g[Len(seqs)] = h[Len(seqs)]
    BY <1>0, <1>2, <2>3
  <2>5. ASSUME NEW n \in 1..Len(seqs) PROVE g[n] = g[n - 1] \o seqs[n]
    <3>1. CASE n = 1
      <4>1. <<>> \o seqs[1] = seqs[1]
        BY <1>0, <2>5, <3>1
      <4>2. g[1] = seqs[1]
        BY <2>2, <2>3, <2>5, <3>1
      <4>3. n - 1 = 0
        BY <3>1
      <4> HIDE DEF g
      <4> QED BY <2>3, <3>1, <4>1, <4>2, <4>3
    <3>2. CASE n # 1
      <4>1. n - 1 \in 1..Len(seqs)
        BY <1>0, <3>2
      <4> HIDE DEF g
      <4> QED BY <2>2, <2>3, <3>2, <4>1
    <3> QED BY <3>1, <3>2
  <2> HIDE DEF g
  <2> DEFINE T == {n \in Nat : n \in 0..Len(seqs) => g[n] \in Seq(A)}
  <2>6. 0 \in T
    <3>1. <<>> \in Seq(A)
      OBVIOUS
    <3> QED BY <2>3, <3>1
  <2>7. ASSUME NEW n \in Nat, n \in T PROVE n + 1 \in T
    <3> SUFFICES ASSUME n + 1 \in 0..Len(seqs) PROVE g[n + 1] \in Seq(A)
      OBVIOUS
    <3>1. n + 1 \in 1..Len(seqs) /\ n \in 0..Len(seqs) /\ n + 1 - 1 = n
      BY <1>0
    <3>2. g[n] \in Seq(A)
      BY <2>7, <3>1
    <3>3. g[n + 1] = g[n + 1 - 1] \o seqs[n + 1] /\ seqs[n + 1] \in Seq(A)
      <4>1. seqs[n + 1] \in Seq(A)
        BY <1>0, <3>1
      <4>2. PICK m \in 1..Len(seqs) : m = n + 1
        BY <3>1
      <4>3. g[m] = g[m - 1] \o seqs[m]
        BY <2>5
      <4> QED BY <4>1, <4>2, <4>3
    <3>4. g[n + 1] = g[n] \o seqs[n + 1]
      BY <3>1, <3>3
    <3> HIDE DEF T
    <3> QED BY <3>2, <3>3, <3>4
  <2> HIDE DEF T
  <2>8. \A n \in Nat : n \in T
    BY <2>6, <2>7, Induct
  <2>9. \A n \in 0..Len(seqs) : g[n] \in Seq(A)
    BY <2>8 DEF T
  <2>10. \A n \in 0..Len(seqs) : n # 0 => n \in 1..Len(seqs)
    BY <1>0
  <2> QED BY <2>1, <2>3, <2>4, <2>5, <2>9, <2>10
<1> QED BY <1>1, <1>2

\* No link is there twice.
Distinct(s) == \A i, j \in 1..Len(s) : s[i][2] = s[j][2] => i = j

LEMMA DistinctConcat ==
  ASSUME NEW S, NEW s \in Seq(S), NEW t \in Seq(S), Distinct(s), Distinct(t),
         \A x \in ToSet(s), y \in ToSet(t) : x[2] # y[2]
  PROVE  Distinct(s \o t)
<1> DEFINE u == s \o t
<1>1. Len(s) \in Nat /\ Len(t) \in Nat /\ Len(u) = Len(s) + Len(t)
  OBVIOUS
<1>2. \A i \in 1..Len(s) : u[i] = s[i] /\ s[i] \in ToSet(s)
  BY DEF ToSet
<1>3. \A i \in 1..Len(u) : i > Len(s) => i - Len(s) \in 1..Len(t) /\ u[i] = t[i - Len(s)] /\ t[i - Len(s)] \in ToSet(t)
  BY DEF ToSet
<1> HIDE DEF u
<1> SUFFICES ASSUME NEW i \in 1..Len(u), NEW j \in 1..Len(u), u[i][2] = u[j][2] PROVE i = j
  BY DEF Distinct, u
<1>4. CASE i <= Len(s) /\ j <= Len(s)
  <2>1. i \in 1..Len(s) /\ j \in 1..Len(s)
    BY <1>1, <1>4
  <2> QED BY <1>2, <2>1 DEF Distinct
<1>5. CASE i > Len(s) /\ j > Len(s)
  <2>1. /\ i - Len(s) \in 1..Len(t) /\ j - Len(s) \in 1..Len(t)
        /\ t[i - Len(s)][2] = t[j - Len(s)][2]
    BY <1>3, <1>5
  <2>2. i - Len(s) = j - Len(s)
    BY <2>1 DEF Distinct
  <2> QED BY <1>1, <2>2
<1>6. CASE i <= Len(s) /\ j > Len(s)
  <2>1. i \in 1..Len(s)
    BY <1>1, <1>6
  <2>2. u[i] \in ToSet(s) /\ u[j] \in ToSet(t)
    BY <1>2, <1>3, <1>6, <2>1
  <2> QED BY <2>2
<1>7. CASE i > Len(s) /\ j <= Len(s)
  <2>1. j \in 1..Len(s)
    BY <1>1, <1>7
  <2>2. u[j] \in ToSet(s) /\ u[i] \in ToSet(t)
    BY <1>2, <1>3, <1>7, <2>1
  <2> QED BY <2>2
<1> QED BY <1>1, <1>4, <1>5, <1>6, <1>7

\* The sequence of all has no link twice when none of them does and no two
\* of them share one.
LEMMA FlattenDistinct ==
  ASSUME NEW S, NEW seqs \in Seq(Seq(S)), \A n \in 1..Len(seqs) : Distinct(seqs[n]),
         \A i, j \in 1..Len(seqs) : i # j => \A x \in ToSet(seqs[i]), y \in ToSet(seqs[j]) : x[2] # y[2]
  PROVE  Distinct(FlattenSeq(seqs))
<1>1. Len(seqs) \in Nat /\ \A n \in 1..Len(seqs) : seqs[n] \in Seq(S)
  OBVIOUS
<1>2. PICK g : /\ g[0] = <<>> /\ FlattenSeq(seqs) = g[Len(seqs)]
               /\ \A n \in 0..Len(seqs) : g[n] \in Seq(S)
               /\ \A n \in 0..Len(seqs) : n # 0 => g[n] = g[n - 1] \o seqs[n]
  BY FlattenStages
<1> DEFINE Held(n) == /\ Distinct(g[n])
                      /\ \A x \in ToSet(g[n]) : \E k \in 1..n : x \in ToSet(seqs[k])
           T == {n \in Nat : n \in 0..Len(seqs) => Held(n)}
<1>3. 0 \in T
  BY <1>2 DEF Distinct, ToSet
<1> HIDE DEF Held
<1>4. ASSUME NEW n \in Nat, n \in T PROVE n + 1 \in T
  <2> SUFFICES ASSUME n + 1 \in 0..Len(seqs) PROVE Held(n + 1)
    OBVIOUS
  <2>1. n \in 0..Len(seqs) /\ n + 1 \in 1..Len(seqs) /\ n + 1 # 0 /\ (n + 1) - 1 = n
    BY <1>1
  <2>2. Held(n)
    BY <1>4, <2>1
  <2>3. PICK s : s = g[n]
    OBVIOUS
  <2>4. PICK t : t = seqs[n + 1]
    OBVIOUS
  <2>5. s \in Seq(S) /\ t \in Seq(S) /\ g[n + 1] = s \o t
    <3>1. g[n + 1] = g[(n + 1) - 1] \o seqs[n + 1]
      BY <1>2, <2>1
    <3> QED BY <1>1, <1>2, <2>1, <2>3, <2>4, <3>1
  <2>6. \A x \in ToSet(s), y \in ToSet(t) : x[2] # y[2]
    <3> SUFFICES ASSUME NEW x \in ToSet(s), NEW y \in ToSet(t) PROVE x[2] # y[2]
      OBVIOUS
    <3>1. PICK k \in 1..n : x \in ToSet(seqs[k])
      BY <2>2, <2>3 DEF Held
    <3>2. k \in 1..Len(seqs) /\ k # n + 1
      BY <1>1, <2>1
    <3> QED BY <2>1, <2>4, <3>1, <3>2
  <2>7. Distinct(s) /\ Distinct(t)
    BY <2>1, <2>2, <2>3, <2>4 DEF Held
  <2>8. Distinct(s \o t)
    BY <2>5, <2>6, <2>7, DistinctConcat
  <2>9. ToSet(s \o t) = ToSet(s) \cup ToSet(t)
    BY <2>5, SetOfConcat
  <2>10. \A k \in 1..n : k \in 1..n + 1
    OBVIOUS
  <2>11. \A x \in ToSet(s \o t) : \E k \in 1..n + 1 : x \in ToSet(seqs[k])
    <3> SUFFICES ASSUME NEW x \in ToSet(s \o t) PROVE \E k \in 1..n + 1 : x \in ToSet(seqs[k])
      OBVIOUS
    <3>1. CASE x \in ToSet(s)
      <4>1. PICK k \in 1..n : x \in ToSet(seqs[k])
        BY <2>2, <2>3, <3>1 DEF Held
      <4> QED BY <2>10, <4>1
    <3>2. CASE x \in ToSet(t)
      <4>1. n + 1 \in 1..n + 1
        OBVIOUS
      <4> QED BY <2>4, <3>2, <4>1
    <3> QED BY <2>9, <3>1, <3>2
  <2> QED BY <2>5, <2>8, <2>11 DEF Held
<1> HIDE DEF T
<1>5. \A n \in Nat : n \in T
  BY <1>3, <1>4, Induct
<1>6. Held(Len(seqs))
  BY <1>1, <1>5 DEF T
<1> QED BY <1>2, <1>6 DEF Held

LEMMA StageIndex ==
  ASSUME NEW L \in Nat, NEW n \in Nat, n + 1 \in 0..L
  PROVE  n \in 0..L /\ n + 1 \in 1..L /\ n + 1 # 0 /\ (n + 1) - 1 = n
OBVIOUS

\* Where only one of them is not empty, all of them are this one.
LEMMA FlattenOnly ==
  ASSUME NEW S, NEW seqs \in Seq(Seq(S)), NEW r \in 1..Len(seqs),
         \A n \in 1..Len(seqs) : n # r => seqs[n] = <<>>
  PROVE  FlattenSeq(seqs) = seqs[r]
<1>1. Len(seqs) \in Nat /\ \A n \in 1..Len(seqs) : seqs[n] \in Seq(S)
  OBVIOUS
<1>2. PICK g : /\ g[0] = <<>> /\ FlattenSeq(seqs) = g[Len(seqs)]
               /\ \A n \in 0..Len(seqs) : g[n] \in Seq(S)
               /\ \A n \in 0..Len(seqs) : n # 0 => g[n] = g[n - 1] \o seqs[n]
  BY FlattenStages
<1>3. \A s \in Seq(S) : s \o <<>> = s /\ <<>> \o s = s
  OBVIOUS
<1> DEFINE T == {n \in Nat : n \in 0..Len(seqs) => g[n] = IF n < r THEN <<>> ELSE seqs[r]}
<1>4. 0 \in T
  BY <1>1, <1>2
<1> HIDE DEF T
<1>5. ASSUME NEW n \in Nat, n \in T PROVE n + 1 \in T
  <2> SUFFICES ASSUME n + 1 \in 0..Len(seqs) PROVE g[n + 1] = IF n + 1 < r THEN <<>> ELSE seqs[r]
    BY DEF T
  <2>1. n \in 0..Len(seqs) /\ n + 1 \in 1..Len(seqs) /\ n + 1 # 0 /\ (n + 1) - 1 = n
    BY <1>1, StageIndex, Zenon
  <2>2. g[n + 1] = g[n] \o seqs[n + 1]
    <3>1. g[n + 1] = g[(n + 1) - 1] \o seqs[n + 1]
      BY <1>2, <2>1
    <3> QED BY <2>1, <3>1
  <2>3. g[n] = IF n < r THEN <<>> ELSE seqs[r]
    BY <1>5, <2>1 DEF T
  <2>4. CASE n + 1 = r
    <3>1. g[n] = <<>> /\ seqs[n + 1] = seqs[r] /\ ~(n + 1 < r)
      BY <2>3, <2>4
    <3> QED BY <1>1, <1>3, <2>2, <3>1
  <2>5. CASE n + 1 # r
    <3>1. seqs[n + 1] = <<>> /\ g[n] \in Seq(S)
      BY <1>2, <2>1, <2>5
    <3>2. g[n + 1] = g[n]
      BY <1>3, <2>2, <3>1
    <3>3. n + 1 < r <=> n < r
      BY <2>5
    <3> QED BY <2>3, <3>2, <3>3
  <2> QED BY <2>4, <2>5
<1>6. \A n \in Nat : n \in T
  BY <1>4, <1>5, Induct
<1>7. ~(Len(seqs) < r) /\ Len(seqs) \in 0..Len(seqs)
  BY <1>1
<1>8. g[Len(seqs)] = seqs[r]
  BY <1>1, <1>6, <1>7 DEF T
<1> QED BY <1>2, <1>8

-----------------------------------------------------------------------------
(* The links of a robot, by what is above them.  When one follows the       *)
(* joints upwards from a link, one climbs: the climb of a link is where one *)
(* is after each step.                                                     *)

Robotic(m) == m.links \in Seq(ToSet(m.links)) /\ m.joints \in Seq(ToSet(m.joints))
OneParent(m) == \A l \in LinkNames(m) : \A i, j \in Inbound(m, l) : i = j

Climbs(m, link, g) == g = [n \in 0..Len(m.links) |-> IF n = 0 THEN link ELSE Up(m, g[n - 1])]
ClimbOf(m, link) == CHOOSE g : Climbs(m, link, g)

\* The links that have the same number of links above them.
Tier(m, k) ==
    {l \in LinkNames(m) : Inbound(m, ClimbOf(m, l)[k]) = {} /\ \A i \in 0..k - 1 : Inbound(m, ClimbOf(m, l)[i]) # {}}

LEMMA UpIsLink ==
  ASSUME NEW m, NEW l \in LinkNames(m)
  PROVE  /\ Up(m, l) \in LinkNames(m)
         /\ Inbound(m, l) # {} => \E n \in Outbound(m, Up(m, l)) : m.joints[n].child = l
<1>1. CASE Inbound(m, l) = {}
  BY <1>1 DEF Up
<1>2. CASE Inbound(m, l) # {}
  <2>1. PICK n \in Inbound(m, l) : n = CHOOSE k \in Inbound(m, l) : TRUE
    BY <1>2
  <2>2. Up(m, l) = m.joints[n].parent
    BY <1>2, <2>1 DEF Up
  <2> QED BY <2>1, <2>2 DEF Inbound, Outbound, TreeJoints
<1> QED BY <1>1, <1>2

\* The joint below a link is the one above its child.
LEMMA BelowJoint ==
  ASSUME NEW m, OneParent(m), NEW l, NEW n \in Outbound(m, l)
  PROVE  LET child == m.joints[n].child IN
         /\ child \in LinkNames(m) /\ Inbound(m, child) # {} /\ Up(m, child) = l
         /\ \A k \in Outbound(m, l) : m.joints[k].child = child => k = n
<1> DEFINE child == m.joints[n].child
<1>1. child \in LinkNames(m) /\ n \in Inbound(m, child)
  BY DEF Inbound, Outbound, TreeJoints
<1>2. PICK k \in Inbound(m, child) : k = CHOOSE i \in Inbound(m, child) : TRUE
  BY <1>1
<1>3. k = n
  BY <1>1, <1>2 DEF OneParent
<1>4. Up(m, child) = l
  BY <1>1, <1>2, <1>3 DEF Up, Outbound
<1>5. ASSUME NEW i \in Outbound(m, l), m.joints[i].child = child PROVE i = n
  <2>1. i \in Inbound(m, child)
    BY <1>5 DEF Inbound, Outbound
  <2> QED BY <1>1, <2>1 DEF OneParent
<1> QED BY <1>1, <1>4, <1>5

LEMMA ClimbExists ==
  ASSUME NEW m, NEW link
  PROVE  \A n \in Nat : \E g : g = [i \in 0..n |-> IF i = 0 THEN link ELSE Up(m, g[i - 1])]
<1> DEFINE Climbing(n, g) == g = [i \in 0..n |-> IF i = 0 THEN link ELSE Up(m, g[i - 1])]
           S == {n \in Nat : \E g : Climbing(n, g)}
<1>1. 0 \in S
  <2> DEFINE h == [i \in 0..0 |-> link]
  <2>1. Climbing(0, h)
    OBVIOUS
  <2> HIDE DEF Climbing, h
  <2> QED BY <2>1
<1>2. ASSUME NEW n \in Nat, n \in S PROVE n + 1 \in S
  <2>1. PICK g : Climbing(n, g)
    BY <1>2
  <2> DEFINE h == [i \in 0..(n + 1) |-> IF i = 0 THEN link ELSE Up(m, g[i - 1])]
  <2>2. \A i \in 0..n : g[i] = IF i = 0 THEN link ELSE Up(m, g[i - 1])
    BY <2>1
  <2>3. \A i \in 0..n : h[i] = g[i]
    BY <2>2
  <2>4. \A i \in 0..(n + 1) : i # 0 => i - 1 \in 0..n
    OBVIOUS
  <2>5. \A i \in 0..(n + 1) : h[i] = IF i = 0 THEN link ELSE Up(m, h[i - 1])
    BY <2>3, <2>4
  <2>6. h = [i \in 0..(n + 1) |-> IF i = 0 THEN link ELSE Up(m, h[i - 1])]
    BY <2>5
  <2>7. Climbing(n + 1, h)
    BY <2>6
  <2> HIDE DEF Climbing, h
  <2> QED BY <2>7
<1> HIDE DEF S
<1>3. \A n \in Nat : n \in S
  BY <1>1, <1>2, Induct
<1> QED BY <1>3 DEF S

LEMMA Climb ==
  ASSUME NEW m, Robotic(m), NEW l \in LinkNames(m)
  PROVE  /\ ClimbOf(m, l)[0] = l
         /\ \A k \in 0..Len(m.links) : ClimbOf(m, l)[k] \in LinkNames(m)
         /\ \A k \in 0..Len(m.links) : k # 0 => ClimbOf(m, l)[k] = Up(m, ClimbOf(m, l)[k - 1])
<1>0. PICK N \in Nat : N = Len(m.links)
  BY DEF Robotic
<1>1. PICK g : g = ClimbOf(m, l)
  OBVIOUS
<1>2. Climbs(m, l, g)
  <2>1. \E x : Climbs(m, l, x)
    BY <1>0, ClimbExists DEF Climbs
  <2> QED BY <1>1, <2>1 DEF ClimbOf
<1>3. \A k \in 0..N : g[k] = IF k = 0 THEN l ELSE Up(m, g[k - 1])
  BY <1>0, <1>2 DEF Climbs
<1>4. 0 \in 0..N
  OBVIOUS
<1>5. g[0] = l
  BY <1>3, <1>4
<1> DEFINE T == {k \in Nat : k \in 0..N => g[k] \in LinkNames(m)}
<1>6. 0 \in T
  BY <1>5
<1> HIDE DEF T
<1>7. ASSUME NEW k \in Nat, k \in T PROVE k + 1 \in T
  <2> SUFFICES ASSUME k + 1 \in 0..N PROVE g[k + 1] \in LinkNames(m)
    BY DEF T
  <2>1. k \in 0..N /\ k + 1 \in 1..N /\ k + 1 # 0 /\ (k + 1) - 1 = k
    BY StageIndex, Zenon
  <2>2. g[k + 1] = Up(m, g[k]) /\ g[k] \in LinkNames(m)
    BY <1>3, <1>7, <2>1 DEF T
  <2> QED BY <2>2, UpIsLink
<1>8. \A k \in Nat : k \in T
  BY <1>6, <1>7, Induct
<1>9. \A k \in 0..N : g[k] \in LinkNames(m)
  BY <1>8 DEF T
<1> QED BY <1>0, <1>1, <1>3, <1>5, <1>9

\* One climbs on from where one is.
LEMMA ClimbOn ==
  ASSUME NEW m, Robotic(m), NEW l \in LinkNames(m), NEW k \in Nat
  PROVE  \A i \in Nat : k + i \in 0..Len(m.links) => ClimbOf(m, ClimbOf(m, l)[k])[i] = ClimbOf(m, l)[k + i]
<1>0. PICK N \in Nat : N = Len(m.links)
  BY DEF Robotic
<1> DEFINE c == ClimbOf(m, l)[k]
           T == {i \in Nat : k + i \in 0..N => ClimbOf(m, c)[i] = ClimbOf(m, l)[k + i]}
<1>1. ASSUME k \in 0..N PROVE c \in LinkNames(m) /\ ClimbOf(m, c)[0] = c
  BY <1>0, <1>1, Climb
<1>2. 0 \in T
  <2>1. k + 0 = k
    OBVIOUS
  <2> QED BY <1>1, <2>1
<1> HIDE DEF T
<1>3. ASSUME NEW i \in Nat, i \in T PROVE i + 1 \in T
  <2> SUFFICES ASSUME k + (i + 1) \in 0..N PROVE ClimbOf(m, c)[i + 1] = ClimbOf(m, l)[k + (i + 1)]
    BY DEF T
  <2>1. /\ k \in 0..N /\ k + i \in 0..N /\ i + 1 \in 0..N /\ i + 1 # 0 /\ k + (i + 1) # 0
        /\ (i + 1) - 1 = i /\ (k + (i + 1)) - 1 = k + i
    OBVIOUS
  <2>2. ClimbOf(m, c)[i] = ClimbOf(m, l)[k + i]
    BY <1>3, <2>1 DEF T
  <2>3. ClimbOf(m, l)[k + (i + 1)] = Up(m, ClimbOf(m, l)[(k + (i + 1)) - 1])
    BY <1>0, <2>1, Climb
  <2>4. c \in LinkNames(m)
    BY <1>1, <2>1
  <2> HIDE DEF c
  <2>5. ClimbOf(m, c)[i + 1] = Up(m, ClimbOf(m, c)[(i + 1) - 1])
    BY <1>0, <2>1, <2>4, Climb
  <2> QED BY <2>1, <2>2, <2>3, <2>5
<1>4. \A i \in Nat : i \in T
  BY <1>2, <1>3, Induct
<1> QED BY <1>0, <1>4 DEF T

LEMMA TierOfClimb ==
  ASSUME NEW m, Robotic(m), NEW e \in Nat, NEW k \in Nat, e + k <= Len(m.links), NEW l \in Tier(m, e + k)
  PROVE  ClimbOf(m, l)[k] \in Tier(m, e)
<1>0. PICK N \in Nat : N = Len(m.links)
  BY DEF Robotic
<1> DEFINE c == ClimbOf(m, l)[k]
<1>1. /\ l \in LinkNames(m) /\ Inbound(m, ClimbOf(m, l)[e + k]) = {}
      /\ \A i \in 0..(e + k) - 1 : Inbound(m, ClimbOf(m, l)[i]) # {}
  BY DEF Tier
<1>2. k \in 0..N /\ e + k = k + e /\ k + e \in 0..N
  BY <1>0
<1>3. c \in LinkNames(m)
  BY <1>0, <1>1, <1>2, Climb
<1>4. \A i \in 0..e : ClimbOf(m, c)[i] = ClimbOf(m, l)[k + i]
  <2>1. \A i \in 0..e : i \in Nat /\ k + i \in 0..N
    BY <1>2
  <2> QED BY <1>0, <1>1, <2>1, ClimbOn
<1>5. ClimbOf(m, c)[e] = ClimbOf(m, l)[e + k]
  <2>1. e \in 0..e
    OBVIOUS
  <2> QED BY <1>2, <1>4, <2>1
<1>6. ASSUME NEW i \in 0..e - 1 PROVE Inbound(m, ClimbOf(m, c)[i]) # {}
  <2>1. i \in 0..e /\ k + i \in 0..(e + k) - 1
    OBVIOUS
  <2> QED BY <1>1, <1>4, <2>1
<1> HIDE DEF c
<1>7. c \in Tier(m, e)
  BY <1>1, <1>3, <1>5, <1>6 DEF Tier
<1> QED BY <1>7 DEF c

LEMMA OneTier ==
  ASSUME NEW m, NEW e \in Nat, NEW k \in Nat, NEW l, l \in Tier(m, e), l \in Tier(m, k)
  PROVE  e = k
<1>1. ASSUME NEW i \in Nat, NEW j \in Nat, l \in Tier(m, i), l \in Tier(m, j), i < j PROVE FALSE
  <2>1. i \in 0..j - 1
    BY <1>1
  <2> QED BY <1>1, <2>1 DEF Tier
<1> QED BY <1>1

LEMMA TierBelow ==
  ASSUME NEW m, Robotic(m), NEW e \in Nat, e + 1 <= Len(m.links), NEW l \in LinkNames(m), Inbound(m, l) # {}, Up(m, l) \in Tier(m, e)
  PROVE  l \in Tier(m, e + 1) /\ ClimbOf(m, l)[1] = Up(m, l)
<1>0. PICK N \in Nat : N = Len(m.links)
  BY DEF Robotic
<1>1. 0 \in 0..N /\ 1 \in 0..N /\ 1 - 1 = 0
  BY <1>0
<1>2. ClimbOf(m, l)[0] = l /\ ClimbOf(m, l)[1] = Up(m, l)
  <2>1. ClimbOf(m, l)[0] = l
    BY Climb
  <2>2. ClimbOf(m, l)[1] = Up(m, ClimbOf(m, l)[1 - 1])
    BY <1>0, <1>1, Climb
  <2> QED BY <1>1, <2>1, <2>2
<1>3. \A i \in 0..e : ClimbOf(m, Up(m, l))[i] = ClimbOf(m, l)[1 + i]
  <2>1. \A i \in 0..e : i \in Nat /\ 1 + i \in 0..N
    BY <1>0
  <2> QED BY <1>0, <1>2, <2>1, ClimbOn
<1>4. Inbound(m, ClimbOf(m, l)[e + 1]) = {}
  <2>1. e \in 0..e /\ 1 + e = e + 1
    OBVIOUS
  <2> QED BY <1>3, <2>1 DEF Tier
<1>5. ASSUME NEW i \in 0..(e + 1) - 1 PROVE Inbound(m, ClimbOf(m, l)[i]) # {}
  <2>1. CASE i = 0
    BY <1>2, <2>1
  <2>2. CASE i # 0
    <3>1. i - 1 \in 0..e /\ i - 1 \in 0..e - 1 /\ 1 + (i - 1) = i
      BY <2>2
    <3>2. Inbound(m, ClimbOf(m, Up(m, l))[i - 1]) # {}
      BY <3>1 DEF Tier
    <3> QED BY <1>3, <3>1, <3>2
  <2> QED BY <2>1, <2>2
<1> QED BY <1>2, <1>4, <1>5 DEF Tier

\* A link that reaches one without an inbound joint is in a tier.
LEMMA GroundedInTier ==
  ASSUME NEW m, Robotic(m), NEW l \in LinkNames(m)
  PROVE  Grounded(m, l) <=> \E k \in 0..Len(m.links) : l \in Tier(m, k)
<1>0. PICK N \in Nat : N = Len(m.links)
  BY DEF Robotic
<1>1. Grounded(m, l) <=> Inbound(m, ClimbOf(m, l)[N]) = {}
  BY <1>0 DEF Grounded, ClimbOf, Climbs
<1> DEFINE R == {k \in 0..N : Inbound(m, ClimbOf(m, l)[k]) = {}}
<1>2. ASSUME Grounded(m, l) PROVE \E k \in 0..N : l \in Tier(m, k)
  <2>1. N \in R
    BY <1>1, <1>2
  <2>2. PICK k \in R : \A i \in R : k <= i
    <3>1. R \subseteq Nat /\ R # {}
      BY <2>1
    <3> HIDE DEF R
    <3> QED BY <3>1, LeastNat
  <2>3. \A i \in 0..k - 1 : i \notin R /\ i \in 0..N
    BY <2>2
  <2> QED BY <2>2, <2>3 DEF Tier
<1>3. ASSUME NEW k \in 0..N, l \in Tier(m, k) PROVE Grounded(m, l)
  <2> DEFINE T == {i \in Nat : k + i \in 0..N => k + i \in R}
  <2>1. 0 \in T
    BY <1>3 DEF Tier
  <2> HIDE DEF T, R
  <2>2. ASSUME NEW i \in Nat, i \in T PROVE i + 1 \in T
    <3> SUFFICES ASSUME k + (i + 1) \in 0..N PROVE k + (i + 1) \in R
      BY DEF T
    <3>1. k + i \in 0..N /\ k + (i + 1) # 0 /\ (k + (i + 1)) - 1 = k + i
      OBVIOUS
    <3>2. Inbound(m, ClimbOf(m, l)[k + i]) = {}
      BY <2>2, <3>1 DEF T, R
    <3>3. ClimbOf(m, l)[k + (i + 1)] = Up(m, ClimbOf(m, l)[(k + (i + 1)) - 1])
      BY <1>0, <3>1, Climb
    <3>4. ClimbOf(m, l)[k + (i + 1)] = ClimbOf(m, l)[k + i]
      BY <3>1, <3>2, <3>3 DEF Up
    <3> QED BY <3>2, <3>4 DEF R
  <2>3. \A i \in Nat : i \in T
    BY <2>1, <2>2, Induct
  <2>4. N - k \in Nat /\ k + (N - k) = N /\ N \in 0..N
    OBVIOUS
  <2>5. N \in R
    BY <2>3, <2>4 DEF T
  <2> QED BY <1>1, <2>5 DEF R
<1> QED BY <1>0, <1>2, <1>3

-----------------------------------------------------------------------------
(* What is nested in a link.                                               *)

Pairs(m) == LinkNames(m) \X LinkNames(m)
Nests(m, n, b) ==
    b = [depth \in 0..n |-> [link \in LinkNames(m) |-> IF depth = 0 THEN <<>> ELSE Children(m, b[depth - 1], link)]]

LEMMA NestsExist ==
  ASSUME NEW m
  PROVE  \A n \in Nat : \E b : Nests(m, n, b)
<1> DEFINE S == {n \in Nat : \E b : Nests(m, n, b)}
<1>1. 0 \in S
  <2> DEFINE h == [depth \in 0..0 |-> [link \in LinkNames(m) |-> <<>>]]
  <2>1. Nests(m, 0, h)
    BY DEF Nests
  <2> HIDE DEF h
  <2> QED BY <2>1
<1>2. ASSUME NEW n \in Nat, n \in S PROVE n + 1 \in S
  <2>1. PICK b : Nests(m, n, b)
    BY <1>2
  <2> DEFINE h == [depth \in 0..(n + 1) |-> [link \in LinkNames(m) |-> IF depth = 0 THEN <<>> ELSE Children(m, b[depth - 1], link)]]
  <2>2. \A i \in 0..n : b[i] = [link \in LinkNames(m) |-> IF i = 0 THEN <<>> ELSE Children(m, b[i - 1], link)]
    BY <2>1 DEF Nests
  <2>3. \A i \in 0..n : h[i] = b[i]
    BY <2>2
  <2>4. \A i \in 0..(n + 1) : i # 0 => i - 1 \in 0..n
    OBVIOUS
  <2>5. \A i \in 0..(n + 1) : i # 0 => h[i - 1] = b[i - 1]
    BY <2>3, <2>4
  <2>6. \A i \in 0..(n + 1) : h[i] = [link \in LinkNames(m) |-> IF i = 0 THEN <<>> ELSE Children(m, h[i - 1], link)]
    BY <2>5
  <2>7. h = [i \in 0..(n + 1) |-> h[i]]
    OBVIOUS
  <2> HIDE DEF h
  <2>8. Nests(m, n + 1, h)
    BY <2>6, <2>7 DEF Nests
  <2> QED BY <2>8
<1> HIDE DEF S
<1>3. \A n \in Nat : n \in S
  BY <1>1, <1>2, Induct
<1> QED BY <1>3 DEF S

LEMMA Nesting ==
  ASSUME NEW m, Robotic(m)
  PROVE  \E b : /\ Nested(m) = b[Len(m.links)]
                /\ \A link \in LinkNames(m) : b[0][link] = <<>>
                /\ \A depth \in 0..Len(m.links) : depth # 0 =>
                       \A link \in LinkNames(m) : b[depth][link] = Children(m, b[depth - 1], link)
<1>0. PICK N \in Nat : N = Len(m.links)
  BY DEF Robotic
<1>1. PICK b : b = CHOOSE x : Nests(m, N, x)
  OBVIOUS
<1>2. Nests(m, N, b)
  BY <1>1, NestsExist
<1>3. Nested(m) = b[N]
  BY <1>0, <1>1 DEF Nested, Nests
<1>4. \A depth \in 0..N : b[depth] = [link \in LinkNames(m) |-> IF depth = 0 THEN <<>> ELSE Children(m, b[depth - 1], link)]
  BY <1>2 DEF Nests
<1>5. \A depth \in 0..N : \A link \in LinkNames(m) : b[depth][link] = IF depth = 0 THEN <<>> ELSE Children(m, b[depth - 1], link)
  BY <1>4
<1>6. 0 \in 0..N
  OBVIOUS
<1> QED BY <1>0, <1>3, <1>5, <1>6

\* A scene below a link of tier e, d deep: each of its links is once in it,
\* in its parent, and they are the links whose climb comes to the link.
SceneBelow(m, s, e, d, link) ==
    /\ Distinct(s)
    /\ \A t \in ToSet(s) : /\ Inbound(m, t[2]) # {} /\ t[1] = Up(m, t[2])
                           /\ \E k \in 1..d : t[2] \in Tier(m, e + k) /\ ClimbOf(m, t[2])[k] = link
    /\ \A k \in 1..d : \A l \in Tier(m, e + k) : ClimbOf(m, l)[k] = link => \E t \in ToSet(s) : t[2] = l

\* A link and what is below it.
LEMMA NestOf ==
  ASSUME NEW below, NEW S, NEW parent, NEW link, <<parent, link>> \in S, below[link] \in Seq(S)
  PROVE  /\ Nest(below, parent, link) \in Seq(S)
         /\ Nest(below, parent, link)[1] = <<parent, link>>
         /\ ToSet(Nest(below, parent, link)) = {<<parent, link>>} \cup ToSet(below[link])
         /\ Distinct(below[link]) /\ (\A t \in ToSet(below[link]) : t[2] # link) => Distinct(Nest(below, parent, link))
<1> DEFINE x == <<parent, link>>
<1>1. x \in S
  OBVIOUS
<1>2. PICK s \in Seq(S) : s = below[link]
  OBVIOUS
<1>3. Nest(below, parent, link) = <<x>> \o s
  BY <1>2 DEF Nest
<1>4. x[2] = link
  OBVIOUS
<1> HIDE DEF x
<1>5. <<x>> \in Seq(S) /\ Len(<<x>>) = 1 /\ <<x>>[1] = x
  BY <1>1
<1>6. <<x>> \o s \in Seq(S) /\ (<<x>> \o s)[1] = x
  BY <1>5
<1>7. ToSet(<<x>>) = {x} /\ Distinct(<<x>>)
  BY <1>5 DEF ToSet, Distinct
<1>8. ToSet(<<x>> \o s) = {x} \cup ToSet(s)
  <2>1. PICK one \in Seq(S) : one = <<x>>
    BY <1>5
  <2>2. ToSet(one \o s) = ToSet(one) \cup ToSet(s)
    BY SetOfConcat
  <2> QED BY <1>7, <2>1, <2>2
<1>9. ASSUME Distinct(s), \A t \in ToSet(s) : t[2] # link PROVE Distinct(<<x>> \o s)
  <2>1. \A y \in ToSet(<<x>>), t \in ToSet(s) : y[2] # t[2]
    BY <1>4, <1>7, <1>9
  <2> QED BY <1>5, <1>7, <1>9, <2>1, DistinctConcat
<1> QED BY <1>2, <1>3, <1>6, <1>8, <1>9 DEF x

ItemsOf(m, below, link, n) == {<<link, m.joints[n].child>>} \cup ToSet(below[m.joints[n].child])

LEMMA ChildrenListed ==
  ASSUME NEW m, Robotic(m), NEW link \in LinkNames(m), NEW below,
         \A l \in LinkNames(m) : below[l] \in Seq(Pairs(m))
  PROVE  /\ Children(m, below, link) \in Seq(Pairs(m))
         /\ \A x : x \in ToSet(Children(m, below, link)) <=> \E n \in Outbound(m, link) : x \in ItemsOf(m, below, link, n)
         /\ /\ \A n \in Outbound(m, link) : LET c == m.joints[n].child IN
                   Distinct(below[c]) /\ \A t \in ToSet(below[c]) : t[2] # c
            /\ \A i, k \in Outbound(m, link) : i # k =>
                   \A x \in ItemsOf(m, below, link, i), y \in ItemsOf(m, below, link, k) : x[2] # y[2]
            => Distinct(Children(m, below, link))
<1> DEFINE child(n) == m.joints[n].child
           One(n) == IF n \in Outbound(m, link) THEN Nest(below, link, child(n)) ELSE <<>>
           seqs == [n \in DOMAIN m.joints |-> One(n)]
           S == Pairs(m)
<1>1. PICK L \in Nat : DOMAIN m.joints = 1..L
  <2>1. Len(m.joints) \in Nat /\ DOMAIN m.joints = 1..Len(m.joints)
    BY DEF Robotic
  <2> QED BY <2>1
<1>2. ASSUME NEW n \in Outbound(m, link)
      PROVE  /\ n \in 1..L /\ child(n) \in LinkNames(m)
             /\ One(n) \in Seq(S) /\ ToSet(One(n)) = ItemsOf(m, below, link, n)
             /\ Distinct(below[child(n)]) /\ (\A t \in ToSet(below[child(n)]) : t[2] # child(n)) => Distinct(One(n))
  <2>1. n \in 1..L /\ child(n) \in LinkNames(m)
    BY <1>1 DEF Outbound, TreeJoints
  <2>2. below[child(n)] \in Seq(S) /\ <<link, child(n)>> \in S
    BY <2>1 DEF Pairs
  <2>3. One(n) = Nest(below, link, child(n))
    OBVIOUS
  <2> HIDE DEF child, One, S
  <2>4. /\ Nest(below, link, child(n)) \in Seq(S)
        /\ ToSet(Nest(below, link, child(n))) = {<<link, child(n)>>} \cup ToSet(below[child(n)])
        /\ Distinct(below[child(n)]) /\ (\A t \in ToSet(below[child(n)]) : t[2] # child(n)) => Distinct(Nest(below, link, child(n)))
    <3>1. PICK c : c = child(n)
      OBVIOUS
    <3>2. below[c] \in Seq(S) /\ <<link, c>> \in S
      BY <2>2, <3>1
    <3>3. Nest(below, link, c) \in Seq(S)
      BY <3>2, NestOf
    <3>4. ToSet(Nest(below, link, c)) = {<<link, c>>} \cup ToSet(below[c])
      BY <3>2, NestOf
    <3>5. Distinct(below[c]) /\ (\A t \in ToSet(below[c]) : t[2] # c) => Distinct(Nest(below, link, c))
      BY <3>2, NestOf
    <3> QED BY <3>1, <3>3, <3>4, <3>5, Zenon
  <2>5. ItemsOf(m, below, link, n) = {<<link, child(n)>>} \cup ToSet(below[child(n)])
    BY DEF ItemsOf, child
  <2> QED BY <2>1, <2>3, <2>4, <2>5, Zenon
<1>3. ASSUME NEW n, n \notin Outbound(m, link) PROVE One(n) \in Seq(S) /\ ToSet(One(n)) = {} /\ Distinct(One(n))
  <2>1. One(n) = <<>>
    BY <1>3
  <2> HIDE DEF One, S
  <2>2. <<>> \in Seq(S) /\ ToSet(<<>>) = {} /\ Distinct(<<>>)
    BY DEF ToSet, Distinct
  <2> QED BY <2>1, <2>2
<1>4. Children(m, below, link) = FlattenSeq(seqs)
  BY DEF Children
<1> HIDE DEF One, child, S
<1>5. \A n : One(n) \in Seq(S)
  BY <1>2, <1>3
<1>6. seqs \in Seq(Seq(S)) /\ Len(seqs) = L /\ \A n \in 1..L : seqs[n] = One(n)
  BY <1>1, <1>5
<1> HIDE DEF seqs
<1>7. FlattenSeq(seqs) \in Seq(S)
  BY <1>6, Flattened
<1>8. ASSUME NEW x PROVE x \in ToSet(FlattenSeq(seqs)) <=> \E n \in Outbound(m, link) : x \in ItemsOf(m, below, link, n)
  <2>1. x \in ToSet(FlattenSeq(seqs)) <=> \E n \in 1..Len(seqs) : x \in ToSet(seqs[n])
    BY <1>6, Flattened
  <2>2. x \in ToSet(FlattenSeq(seqs)) <=> \E n \in 1..L : x \in ToSet(One(n))
    BY <1>6, <2>1
  <2> QED BY <1>2, <1>3, <2>2
<1>9. ASSUME \A n \in Outbound(m, link) : Distinct(below[child(n)]) /\ \A t \in ToSet(below[child(n)]) : t[2] # child(n),
             \A i, k \in Outbound(m, link) : i # k =>
                 \A x \in ItemsOf(m, below, link, i), y \in ItemsOf(m, below, link, k) : x[2] # y[2]
      PROVE  Distinct(FlattenSeq(seqs))
  <2>1. ASSUME NEW n \in 1..L PROVE Distinct(One(n))
    BY <1>2, <1>3, <1>9
  <2>2. ASSUME NEW i \in 1..L, NEW k \in 1..L, i # k, NEW x \in ToSet(One(i)), NEW y \in ToSet(One(k)) PROVE x[2] # y[2]
    <3>1. i \in Outbound(m, link) /\ k \in Outbound(m, link)
      BY <1>3, <2>2
    <3>2. x \in ItemsOf(m, below, link, i) /\ y \in ItemsOf(m, below, link, k)
      BY <1>2, <2>2, <3>1
    <3> QED BY <1>9, <2>2, <3>1, <3>2
  <2>3. \A n \in 1..Len(seqs) : Distinct(seqs[n])
    BY <1>6, <2>1
  <2>4. \A i, k \in 1..Len(seqs) : i # k => \A x \in ToSet(seqs[i]), y \in ToSet(seqs[k]) : x[2] # y[2]
    BY <1>6, <2>2
  <2> QED BY <1>6, <2>3, <2>4, FlattenDistinct
<1> QED BY <1>4, <1>7, <1>8, <1>9 DEF S, child

\* One level more.
LEMMA ChildrenBelow ==
  ASSUME NEW m, Robotic(m), OneParent(m), NEW below, \A l \in LinkNames(m) : below[l] \in Seq(Pairs(m)),
         NEW e \in Nat, NEW d \in Nat, e + (d + 1) <= Len(m.links), NEW link \in Tier(m, e),
         \A c \in Tier(m, e + 1) : SceneBelow(m, below[c], e + 1, d, c)
  PROVE  SceneBelow(m, Children(m, below, link), e, d + 1, link)
<1>0. PICK N \in Nat : N = Len(m.links)
  BY DEF Robotic
<1>a. e + 1 <= N /\ e + 1 \in Nat /\ \A k \in 0..d : k \in 0..N /\ k + 1 \in 0..N /\ k + 1 # 0 /\ (k + 1) - 1 = k
  BY <1>0
<1> DEFINE child(n) == m.joints[n].child
           Items(n) == ItemsOf(m, below, link, n)
<1>1. link \in LinkNames(m)
  BY DEF Tier
<1>2. ASSUME NEW n \in Outbound(m, link)
      PROVE  /\ child(n) \in LinkNames(m) /\ Inbound(m, child(n)) # {} /\ Up(m, child(n)) = link
             /\ child(n) \in Tier(m, e + 1) /\ ClimbOf(m, child(n))[0] = child(n) /\ ClimbOf(m, child(n))[1] = link
             /\ SceneBelow(m, below[child(n)], e + 1, d, child(n))
             /\ \A k \in Outbound(m, link) : child(k) = child(n) => k = n
  <2>1. /\ child(n) \in LinkNames(m) /\ Inbound(m, child(n)) # {} /\ Up(m, child(n)) = link
        /\ \A k \in Outbound(m, link) : child(k) = child(n) => k = n
    BY BelowJoint
  <2> HIDE DEF child
  <2>2. child(n) \in Tier(m, e + 1) /\ ClimbOf(m, child(n))[1] = link
    BY <1>0, <1>a, <2>1, TierBelow
  <2>3. ClimbOf(m, child(n))[0] = child(n)
    BY <2>1, Climb
  <2> QED BY <2>1, <2>2, <2>3
<1>3. ASSUME NEW n \in Outbound(m, link), NEW x \in Items(n)
      PROVE  /\ x[1] = Up(m, x[2]) /\ Inbound(m, x[2]) # {} /\ x[2] \in LinkNames(m)
             /\ \E k \in 0..d : x[2] \in Tier(m, (e + 1) + k) /\ ClimbOf(m, x[2])[k] = child(n)
  <2>1. CASE x = <<link, child(n)>>
    <3>1. x[1] = link /\ x[2] = child(n) /\ 0 \in 0..d /\ (e + 1) + 0 = e + 1
      BY <2>1
    <3> HIDE DEF child, Items
    <3> QED BY <1>2, <3>1
  <2>2. CASE x \in ToSet(below[child(n)])
    <3> HIDE DEF child, Items
    <3>1. SceneBelow(m, below[child(n)], e + 1, d, child(n))
      BY <1>2
    <3>2. \A k \in 1..d : k \in 0..d
      OBVIOUS
    <3>3. /\ x[1] = Up(m, x[2]) /\ Inbound(m, x[2]) # {}
          /\ \E k \in 1..d : x[2] \in Tier(m, (e + 1) + k) /\ ClimbOf(m, x[2])[k] = child(n)
      BY <2>2, <3>1 DEF SceneBelow
    <3> QED BY <3>2, <3>3 DEF Tier
  <2> QED BY <1>3, <2>1, <2>2 DEF ItemsOf
<1>4. ASSUME NEW n \in Outbound(m, link), NEW t \in ToSet(below[child(n)]) PROVE t[2] # child(n)
  <2> HIDE DEF child, Items
  <2>1. PICK k \in 1..d : t[2] \in Tier(m, (e + 1) + k)
    BY <1>2, <1>4 DEF SceneBelow
  <2>2. (e + 1) + k # e + 1 /\ (e + 1) + k \in Nat
    OBVIOUS
  <2> QED BY <1>2, <1>a, <2>1, <2>2, OneTier
<1>5. ASSUME NEW i \in Outbound(m, link), NEW j \in Outbound(m, link), i # j, NEW x \in Items(i), NEW y \in Items(j)
      PROVE  x[2] # y[2]
  <2> HIDE DEF child, Items
  <2> SUFFICES ASSUME x[2] = y[2] PROVE FALSE
    OBVIOUS
  <2>1. PICK k \in 0..d : x[2] \in Tier(m, (e + 1) + k) /\ ClimbOf(m, x[2])[k] = child(i)
    BY <1>3
  <2>2. PICK q \in 0..d : y[2] \in Tier(m, (e + 1) + q) /\ ClimbOf(m, y[2])[q] = child(j)
    BY <1>3
  <2>3. (e + 1) + k = (e + 1) + q
    <3>1. (e + 1) + k \in Nat /\ (e + 1) + q \in Nat
      OBVIOUS
    <3> QED BY <2>1, <2>2, <3>1, OneTier
  <2>4. k = q
    BY <2>3
  <2>5. child(i) = child(j)
    BY <2>1, <2>2, <2>4
  <2> QED BY <1>2, <1>5, <2>5
<1> DEFINE s == Children(m, below, link)
<1>6. Distinct(s) /\ \A x : x \in ToSet(s) <=> \E n \in Outbound(m, link) : x \in Items(n)
  <2>1. \A n \in Outbound(m, link) : Distinct(below[child(n)]) /\ \A t \in ToSet(below[child(n)]) : t[2] # child(n)
    BY <1>2, <1>4 DEF SceneBelow
  <2>2. \A i, k \in Outbound(m, link) : i # k => \A x \in Items(i), y \in Items(k) : x[2] # y[2]
    BY <1>5
  <2> QED BY <1>1, <2>1, <2>2, ChildrenListed
<1> HIDE DEF s, Items, child
<1>7. ASSUME NEW t \in ToSet(s)
      PROVE  /\ Inbound(m, t[2]) # {} /\ t[1] = Up(m, t[2])
             /\ \E k \in 1..d + 1 : t[2] \in Tier(m, e + k) /\ ClimbOf(m, t[2])[k] = link
  <2>1. PICK n \in Outbound(m, link) : t \in Items(n)
    BY <1>6
  <2>2. PICK k \in 0..d : t[2] \in Tier(m, (e + 1) + k) /\ ClimbOf(m, t[2])[k] = child(n)
    BY <1>3, <2>1
  <2>3. k + 1 \in 1..d + 1 /\ (e + 1) + k = e + (k + 1)
    OBVIOUS
  <2>4. t[2] \in LinkNames(m)
    BY <1>3, <2>1
  <2>5. ClimbOf(m, t[2])[k + 1] = Up(m, ClimbOf(m, t[2])[(k + 1) - 1])
    BY <1>0, <1>a, <2>4, Climb
  <2>6. ClimbOf(m, t[2])[k + 1] = link
    BY <1>2, <1>a, <2>2, <2>5
  <2>7. t[2] \in Tier(m, e + (k + 1))
    BY <2>2, <2>3
  <2> QED BY <1>3, <2>1, <2>3, <2>6, <2>7
<1>8. ASSUME NEW k \in 1..d + 1, NEW l \in Tier(m, e + k), ClimbOf(m, l)[k] = link PROVE \E t \in ToSet(s) : t[2] = l
  <2>1. PICK i \in 0..d : k = i + 1
    <3>1. k - 1 \in 0..d /\ k = (k - 1) + 1
      OBVIOUS
    <3> QED BY <3>1
  <2>2. l \in LinkNames(m)
    BY DEF Tier
  <2>3. PICK c : c = ClimbOf(m, l)[i]
    OBVIOUS
  <2>4. e + k = (e + 1) + i /\ (e + 1) + i <= N
    BY <1>0, <2>1
  <2>5. c \in Tier(m, e + 1)
    <3>1. l \in Tier(m, (e + 1) + i) /\ i \in Nat /\ (e + 1) + i <= Len(m.links)
      BY <1>0, <2>4
    <3> QED BY <1>a, <2>3, <3>1, TierOfClimb
  <2>6. c \in LinkNames(m) /\ Inbound(m, c) # {}
    <3>1. c \in LinkNames(m)
      BY <2>5 DEF Tier
    <3>2. 0 \in 0..(e + 1) - 1
      OBVIOUS
    <3>3. ClimbOf(m, c)[0] = c
      BY <3>1, Climb
    <3> QED BY <2>5, <3>1, <3>2, <3>3 DEF Tier
  <2>7. Up(m, c) = link
    <3>1. ClimbOf(m, l)[i + 1] = Up(m, ClimbOf(m, l)[(i + 1) - 1])
      BY <1>0, <1>a, <2>2, Climb
    <3> QED BY <1>8, <1>a, <2>1, <2>3, <3>1
  <2>8. PICK n \in Outbound(m, link) : child(n) = c
    BY <2>6, <2>7, UpIsLink DEF child
  <2>9. CASE i = 0
    <3>1. c = l
      BY <2>2, <2>3, <2>9, Climb
    <3>2. <<link, l>> \in Items(n)
      BY <2>8, <3>1 DEF Items, ItemsOf, child
    <3>3. <<link, l>>[2] = l
      OBVIOUS
    <3> QED BY <1>6, <3>2, <3>3
  <2>10. CASE i # 0
    <3>1. i \in 1..d
      BY <2>10
    <3>2. SceneBelow(m, below[c], e + 1, d, c)
      BY <2>5
    <3>3. l \in Tier(m, (e + 1) + i)
      BY <2>4
    <3>4. PICK t \in ToSet(below[c]) : t[2] = l
      BY <2>3, <3>1, <3>2, <3>3 DEF SceneBelow
    <3>5. t \in Items(n)
      BY <2>8, <3>4 DEF Items, ItemsOf, child
    <3> QED BY <1>6, <3>4, <3>5
  <2> QED BY <2>9, <2>10
<1> QED BY <1>6, <1>7, <1>8 DEF SceneBelow, s

LEMMA NestedBelow ==
  ASSUME NEW m, Robotic(m), OneParent(m)
  PROVE  /\ \A l \in LinkNames(m) : Nested(m)[l] \in Seq(Pairs(m))
         /\ \A l \in Tier(m, 0) : SceneBelow(m, Nested(m)[l], 0, Len(m.links), l)
<1>0. PICK N \in Nat : N = Len(m.links)
  BY DEF Robotic
<1>1. PICK b : /\ Nested(m) = b[N]
               /\ \A link \in LinkNames(m) : b[0][link] = <<>>
               /\ \A depth \in 0..N : depth # 0 => \A link \in LinkNames(m) : b[depth][link] = Children(m, b[depth - 1], link)
  BY <1>0, Nesting
<1> DEFINE Typed(d) == \A l \in LinkNames(m) : b[d][l] \in Seq(Pairs(m))
           Deep(d) == \A e \in Nat : e + d <= N => \A l \in Tier(m, e) : SceneBelow(m, b[d][l], e, d, l)
           T == {d \in Nat : d \in 0..N => Typed(d) /\ Deep(d)}
<1>2. 0 \in T
  <2>1. <<>> \in Seq(Pairs(m))
    OBVIOUS
  <2>2. Typed(0)
    BY <1>1, <2>1
  <2>3. ASSUME NEW e, NEW l PROVE SceneBelow(m, <<>>, e, 0, l)
    BY DEF SceneBelow, Distinct, ToSet
  <2>4. Deep(0)
    <3>1. \A e : \A l \in Tier(m, e) : l \in LinkNames(m)
      BY DEF Tier
    <3> QED BY <1>1, <2>3, <3>1
  <2> QED BY <2>2, <2>4
<1> HIDE DEF T
<1>3. ASSUME NEW d \in Nat, d \in T PROVE d + 1 \in T
  <2> SUFFICES ASSUME d + 1 \in 0..N PROVE Typed(d + 1) /\ Deep(d + 1)
    BY DEF T
  <2>1. d \in 0..N /\ d + 1 # 0 /\ (d + 1) - 1 = d
    BY StageIndex, Zenon
  <2>2. PICK below : below = b[d]
    OBVIOUS
  <2>3. \A l \in LinkNames(m) : below[l] \in Seq(Pairs(m))
    BY <1>3, <2>1, <2>2 DEF T
  <2>4. \A l \in LinkNames(m) : b[d + 1][l] = Children(m, below, l)
    BY <1>1, <2>1, <2>2
  <2>5. Typed(d + 1)
    BY <2>3, <2>4, ChildrenListed
  <2>6. ASSUME NEW e \in Nat, e + (d + 1) <= N, NEW l \in Tier(m, e) PROVE SceneBelow(m, b[d + 1][l], e, d + 1, l)
    <3>1. e + 1 \in Nat /\ (e + 1) + d <= N
      BY <2>6
    <3>2. \A c \in Tier(m, e + 1) : SceneBelow(m, below[c], e + 1, d, c)
      BY <1>3, <2>1, <2>2, <3>1 DEF T
    <3>3. SceneBelow(m, Children(m, below, l), e, d + 1, l)
      BY <1>0, <2>3, <2>6, <3>2, ChildrenBelow
    <3> QED BY <2>4, <3>3 DEF Tier
  <2> QED BY <2>5, <2>6
<1>4. \A d \in Nat : d \in T
  BY <1>2, <1>3, Induct
<1>5. Typed(N) /\ Deep(N)
  BY <1>4 DEF T
<1>6. 0 + N <= N
  OBVIOUS
<1> QED BY <1>0, <1>1, <1>5, <1>6

\* A root is the first of the links of its name, which nothing leads to.
LEMMA RootNames ==
  ASSUME NEW m, Robotic(m)
  PROVE  /\ \A n \in Roots(m) : n \in 1..Len(m.links) /\ m.links[n].name \in Tier(m, 0)
         /\ \A l \in Tier(m, 0) : \E n \in Roots(m) : m.links[n].name = l
         /\ \A i, j \in Roots(m) : m.links[i].name = m.links[j].name => i = j
<1>0. PICK N \in Nat : N = Len(m.links) /\ DOMAIN m.links = 1..N
  BY DEF Robotic
<1>1. \A l : l \in LinkNames(m) <=> \E n \in 1..N : m.links[n].name = l
  BY <1>0 DEF LinkNames, ToSet
<1>2. \A l : l \in Tier(m, 0) <=> l \in LinkNames(m) /\ Inbound(m, l) = {}
  <2>1. \A i \in 0..0 - 1 : FALSE
    OBVIOUS
  <2> QED BY <2>1, Climb DEF Tier
<1>3. ASSUME NEW n \in Roots(m) PROVE n \in 1..Len(m.links) /\ m.links[n].name \in Tier(m, 0)
  BY <1>0, <1>1, <1>2 DEF Roots
<1>4. ASSUME NEW l \in Tier(m, 0) PROVE \E n \in Roots(m) : m.links[n].name = l
  <2> DEFINE U == {n \in 1..N : m.links[n].name = l}
  <2>1. U # {} /\ U \subseteq Nat
    BY <1>1, <1>2
  <2>2. PICK n \in U : \A k \in U : n <= k
    <3> HIDE DEF U
    <3> QED BY <2>1, LeastNat
  <2>3. ASSUME NEW k \in 1..n - 1 PROVE m.links[k].name # m.links[n].name
    <3>1. k \in 1..N /\ ~(n <= k)
      BY <2>2
    <3> QED BY <2>2, <3>1
  <2> QED BY <1>0, <1>2, <2>2, <2>3 DEF Roots, IsNode
<1>5. ASSUME NEW i \in Roots(m), NEW j \in Roots(m), i < j PROVE m.links[i].name # m.links[j].name
  <2>1. i \in 1..j - 1
    BY <1>0, <1>3, <1>5
  <2> QED BY <2>1 DEF Roots, IsNode
<1>6. \A i, j \in Roots(m) : i < j \/ j < i \/ i = j
  BY <1>0, <1>3
<1> QED BY <1>3, <1>4, <1>5, <1>6

\* There is a virtual root with an id of its own, however many links try to
\* take them.
LEMMA VirtualRootFree ==
  ASSUME NEW m, Robotic(m)
  PROVE  QmlId(VirtualRoot(m)) \notin {QmlId(l) : l \in LinkNames(m)}
<1>0. PICK N \in Nat : N = Len(m.links) /\ DOMAIN m.links = 1..N
  BY DEF Robotic
<1> DEFINE ids == {QmlId(l) : l \in LinkNames(m)}
           free == {k \in 1..N + 1 : VirtualWords(k) \notin ids}
<1>1. \A x \in ids : \E n \in 1..N : QmlId(m.links[n].name) = x
  BY <1>0 DEF LinkNames, ToSet
<1>2. ASSUME NEW i \in 1..N + 1, NEW j \in 1..N + 1, VirtualWords(i) = VirtualWords(j) PROVE i = j
  BY <1>2 DEF VirtualWords
<1> HIDE DEF ids
<1>3. free # {}
  <2> SUFFICES ASSUME free = {} PROVE FALSE
    OBVIOUS
  <2>1. \A k \in 1..N + 1 : VirtualWords(k) \in ids
    OBVIOUS
  <2> DEFINE f == [k \in 1..N + 1 |-> CHOOSE n \in 1..N : QmlId(m.links[n].name) = VirtualWords(k)]
  <2>2. \A k \in 1..N + 1 : f[k] \in 1..N /\ QmlId(m.links[f[k]].name) = VirtualWords(k)
    BY <1>1, <2>1
  <2>3. f \in [1..N + 1 -> 1..N]
    BY <2>2
  <2>4. IsFiniteSet(1..N + 1) /\ IsFiniteSet(1..N) /\ Cardinality(1..N) < Cardinality(1..N + 1)
    <3>1. N + 1 \in Nat /\ 1 \in Int /\ N \in Int /\ N + 1 \in Int
      OBVIOUS
    <3>2. /\ IsFiniteSet(1..N) /\ Cardinality(1..N) = (IF 1 > N THEN 0 ELSE N - 1 + 1)
          /\ IsFiniteSet(1..N + 1) /\ Cardinality(1..N + 1) = (IF 1 > N + 1 THEN 0 ELSE (N + 1) - 1 + 1)
      BY <3>1, FS_Interval
    <3> QED BY <3>2
  <2> HIDE DEF f
  <2>5. PICK i, j \in 1..N + 1 : i # j /\ f[i] = f[j]
    <3>1. PICK C, D : C = 1..N + 1 /\ D = 1..N
      OBVIOUS
    <3>2. f \in [C -> D] /\ IsFiniteSet(C) /\ IsFiniteSet(D) /\ Cardinality(D) < Cardinality(C)
      BY <2>3, <2>4, <3>1
    <3>3. \E i, j \in C : i # j /\ f[i] = f[j]
      BY <3>2, FS_PigeonHole
    <3> QED BY <3>1, <3>3
  <2> QED BY <1>2, <2>2, <2>5
<1>4. PICK k : k = CHOOSE i \in free : \A n \in free : i <= n
  OBVIOUS
<1>5. k \in free
  <2>1. free \subseteq Nat
    OBVIOUS
  <2> HIDE DEF free
  <2>2. \E i \in free : \A n \in free : i <= n
    BY <1>3, <2>1, LeastNat
  <2> QED BY <1>4, <2>2
<1>6. QmlId(VirtualRoot(m)) = VirtualWords(k)
  BY <1>0, <1>4 DEF VirtualRoot, QmlId, ids
<1> QED BY <1>5, <1>6 DEF ids

-----------------------------------------------------------------------------
(* The scene                                                               *)

Blocks(m) ==
    [n \in DOMAIN m.links |-> LET link == m.links[n].name IN
         IF n \in Roots(m) THEN Nest(Nested(m), Holder(m, link), link) ELSE <<>>]
ScenePairs(m) == (LinkNames(m) \cup {VirtualRoot(m)}) \X LinkNames(m)

\* A link of a tier is not nested in itself.
LEMMA NotInItself ==
  ASSUME NEW m, Robotic(m), NEW k \in 0..Len(m.links), NEW l \in Tier(m, k), Inbound(m, l) # {}
  PROVE  Up(m, l) # l
<1>0. PICK N \in Nat : N = Len(m.links)
  BY DEF Robotic
<1>1. l \in LinkNames(m) /\ ClimbOf(m, l)[0] = l
  BY Climb DEF Tier
<1>2. k # 0
  BY <1>1 DEF Tier
<1>3. PICK e \in Nat : k = e + 1 /\ e + 1 <= N
  <2>1. k - 1 \in Nat /\ k = (k - 1) + 1 /\ (k - 1) + 1 <= N
    BY <1>0, <1>2
  <2> QED BY <2>1
<1>4. ClimbOf(m, l)[1] = Up(m, l)
  <2>1. 1 \in 0..N /\ 1 # 0 /\ 1 - 1 = 0
    BY <1>3
  <2>2. ClimbOf(m, l)[1] = Up(m, ClimbOf(m, l)[1 - 1])
    BY <1>0, <1>1, <2>1, Climb
  <2> QED BY <1>1, <2>1, <2>2
<1>5. Up(m, l) \in Tier(m, e)
  <2>1. l \in Tier(m, e + 1) /\ 1 \in Nat
    BY <1>3
  <2> QED BY <1>0, <1>3, <1>4, <2>1, TierOfClimb
<1>6. e # k /\ k \in Nat
  BY <1>0, <1>3
<1> QED BY <1>5, <1>6, OneTier

\* What is rendered for a root.
LEMMA RootBlock ==
  ASSUME NEW m, Robotic(m), OneParent(m), NEW n \in Roots(m), NEW link, link = m.links[n].name
  PROVE  /\ n \in DOMAIN Blocks(m) /\ Blocks(m)[n] \in Seq(ScenePairs(m)) /\ Distinct(Blocks(m)[n])
         /\ Blocks(m)[n][1] = <<Holder(m, link), link>>
         /\ ToSet(Blocks(m)[n]) = {<<Holder(m, link), link>>} \cup ToSet(Nested(m)[link])
<1> DEFINE below == Nested(m)
           holder == Holder(m, link)
           S == ScenePairs(m)
<1>0. PICK N \in Nat : N = Len(m.links) /\ DOMAIN m.links = 1..N
  BY DEF Robotic
<1>1. n \in 1..N /\ link \in Tier(m, 0) /\ link \in LinkNames(m)
  BY <1>0, RootNames DEF Tier
<1>2. below[link] \in Seq(S)
  <2>1. Pairs(m) \subseteq S
    BY DEF Pairs, ScenePairs
  <2>2. below[link] \in Seq(Pairs(m))
    BY <1>1, NestedBelow
  <2> HIDE DEF S, below
  <2> QED BY <2>1, <2>2, SeqMonotone
<1>3. <<holder, link>> \in S
  BY <1>1 DEF ScenePairs, Holder
<1>4. Distinct(below[link]) /\ \A t \in ToSet(below[link]) : t[2] # link
  <2>1. SceneBelow(m, below[link], 0, N, link)
    BY <1>0, <1>1, NestedBelow
  <2> HIDE DEF below
  <2>2. ASSUME NEW t \in ToSet(below[link]) PROVE t[2] # link
    <3>1. Inbound(m, t[2]) # {}
      BY <2>1, <2>2 DEF SceneBelow
    <3>2. Inbound(m, link) = {}
      BY <1>1, Climb DEF Tier
    <3> QED BY <3>1, <3>2
  <2> QED BY <2>1, <2>2 DEF SceneBelow
<1>5. Blocks(m)[n] = Nest(below, holder, link) /\ n \in DOMAIN Blocks(m)
  BY <1>0, <1>1 DEF Blocks
<1> HIDE DEF below, holder, S
<1>6. Nest(below, holder, link) \in Seq(S) /\ Nest(below, holder, link)[1] = <<holder, link>>
  BY <1>2, <1>3, NestOf
<1>7. ToSet(Nest(below, holder, link)) = {<<holder, link>>} \cup ToSet(below[link])
  BY <1>2, <1>3, NestOf
<1>8. Distinct(Nest(below, holder, link))
  BY <1>2, <1>3, <1>4, NestOf
<1> QED BY <1>5, <1>6, <1>7, <1>8 DEF below, holder, S

LEMMA BlocksListed ==
  ASSUME NEW m, Robotic(m), OneParent(m)
  PROVE  /\ Blocks(m) \in Seq(Seq(ScenePairs(m))) /\ DOMAIN Blocks(m) = 1..Len(Blocks(m)) /\ Len(Blocks(m)) \in Nat
         /\ \A n \in 1..Len(Blocks(m)) : n \notin Roots(m) => Blocks(m)[n] = <<>>
<1>0. PICK N \in Nat : N = Len(m.links) /\ DOMAIN m.links = 1..N
  BY DEF Robotic
<1>1. \A n \in 1..N : n \notin Roots(m) => Blocks(m)[n] = <<>>
  BY <1>0 DEF Blocks
<1>2. <<>> \in Seq(ScenePairs(m))
  OBVIOUS
<1>3. \A n \in 1..N : Blocks(m)[n] \in Seq(ScenePairs(m))
  BY <1>1, <1>2, RootBlock
<1>4. PICK s : s = Blocks(m)
  OBVIOUS
<1>5. s = [n \in 1..N |-> s[n]]
  BY <1>0, <1>4 DEF Blocks
<1> DEFINE S == Seq(ScenePairs(m))
<1>6. \A n \in 1..N : s[n] \in S
  BY <1>3, <1>4
<1> HIDE DEF S
<1>7. s \in Seq(S) /\ Len(s) = N /\ DOMAIN s = 1..N
  BY <1>5, <1>6
<1> QED BY <1>1, <1>4, <1>7 DEF S

\* Each link of the scene is in a tier, and is in its holder when it is a
\* root and in its parent when not.
LEMMA RootItem ==
  ASSUME NEW m, Robotic(m), OneParent(m), NEW n \in Roots(m), NEW x \in ToSet(Blocks(m)[n])
  PROVE  /\ x[1] = (IF Inbound(m, x[2]) = {} THEN Holder(m, x[2]) ELSE Up(m, x[2]))
         /\ Inbound(m, x[2]) = {} => x[2] = m.links[n].name
         /\ \E k \in 0..Len(m.links) : x[2] \in Tier(m, k) /\ ClimbOf(m, x[2])[k] = m.links[n].name
<1>0. PICK N \in Nat : N = Len(m.links)
  BY DEF Robotic
<1>1. PICK link : link = m.links[n].name
  OBVIOUS
<1>2. link \in Tier(m, 0) /\ link \in LinkNames(m) /\ ClimbOf(m, link)[0] = link /\ Inbound(m, link) = {}
  <2>1. link \in Tier(m, 0) /\ link \in LinkNames(m)
    BY <1>1, RootNames DEF Tier
  <2> QED BY <2>1, Climb DEF Tier
<1>3. x = <<Holder(m, link), link>> \/ x \in ToSet(Nested(m)[link])
  BY <1>1, RootBlock
<1>4. CASE x = <<Holder(m, link), link>>
  <2>1. x[1] = Holder(m, link) /\ x[2] = link /\ 0 \in 0..N
    BY <1>4
  <2> QED BY <1>0, <1>1, <1>2, <2>1
<1>5. CASE x \in ToSet(Nested(m)[link])
  <2>1. SceneBelow(m, Nested(m)[link], 0, N, link)
    BY <1>0, <1>2, NestedBelow
  <2>2. /\ Inbound(m, x[2]) # {} /\ x[1] = Up(m, x[2])
        /\ \E k \in 1..N : x[2] \in Tier(m, 0 + k) /\ ClimbOf(m, x[2])[k] = link
    BY <1>5, <2>1 DEF SceneBelow
  <2>3. \A k \in 1..N : k \in 0..N /\ 0 + k = k
    OBVIOUS
  <2> QED BY <1>0, <1>1, <2>2, <2>3
<1> QED BY <1>3, <1>4, <1>5

\* Below the virtual root, if any: each link that reaches a root, once.
LEMMA ForestRendered ==
  ASSUME NEW m, Robotic(m), OneParent(m), NEW s, s = FlattenSeq(Blocks(m))
  PROVE  /\ s \in Seq(ScenePairs(m)) /\ Distinct(s)
         /\ \A x \in ToSet(s) :
                /\ x[1] = (IF Inbound(m, x[2]) = {} THEN Holder(m, x[2]) ELSE Up(m, x[2]))
                /\ x[2] \in LinkNames(m)
                /\ Inbound(m, x[2]) # {} => Up(m, x[2]) # x[2]
         /\ \A l \in LinkNames(m) : Grounded(m, l) <=> \E x \in ToSet(s) : x[2] = l
<1>0. PICK N \in Nat : N = Len(m.links)
  BY DEF Robotic
<1>b. PICK b : b = Blocks(m)
  OBVIOUS
<1>1. /\ b \in Seq(Seq(ScenePairs(m))) /\ DOMAIN b = 1..Len(b) /\ Len(b) \in Nat
      /\ \A n \in 1..Len(b) : n \notin Roots(m) => b[n] = <<>>
  BY <1>b, BlocksListed
<1>2. s \in Seq(ScenePairs(m)) /\ \A x : x \in ToSet(s) <=> \E n \in 1..Len(b) : x \in ToSet(b[n])
  BY <1>b, <1>1, Flattened
<1>3. ToSet(<<>>) = {} /\ Distinct(<<>>)
  BY DEF ToSet, Distinct
<1>4. \A x : x \in ToSet(s) <=> \E n \in Roots(m) : x \in ToSet(b[n])
  <2>1. \A n \in Roots(m) : n \in 1..Len(b)
    BY <1>b, <1>1, RootBlock
  <2> QED BY <1>1, <1>2, <1>3, <2>1
<1>5. Distinct(s)
  <2>1. ASSUME NEW n \in 1..Len(b) PROVE Distinct(b[n])
    BY <1>b, <1>1, <1>3, RootBlock
  <2>2. ASSUME NEW i \in 1..Len(b), NEW j \in 1..Len(b), i # j, NEW x \in ToSet(b[i]), NEW y \in ToSet(b[j]) PROVE x[2] # y[2]
    <3> SUFFICES ASSUME x[2] = y[2] PROVE FALSE
      OBVIOUS
    <3>1. i \in Roots(m) /\ j \in Roots(m)
      BY <1>1, <1>3, <2>2
    <3>2. PICK k \in 0..N : x[2] \in Tier(m, k) /\ ClimbOf(m, x[2])[k] = m.links[i].name
      BY <1>0, <1>b, <2>2, <3>1, RootItem
    <3>3. PICK q \in 0..N : y[2] \in Tier(m, q) /\ ClimbOf(m, y[2])[q] = m.links[j].name
      BY <1>0, <1>b, <2>2, <3>1, RootItem
    <3>4. k = q
      <4>1. k \in Nat /\ q \in Nat
        OBVIOUS
      <4> QED BY <3>2, <3>3, <4>1, OneTier
    <3>5. m.links[i].name = m.links[j].name
      BY <3>2, <3>3, <3>4
    <3> QED BY <2>2, <3>1, <3>5, RootNames
  <2> QED BY <1>b, <1>1, <2>1, <2>2, FlattenDistinct
<1>6. ASSUME NEW x \in ToSet(s)
      PROVE  /\ x[1] = (IF Inbound(m, x[2]) = {} THEN Holder(m, x[2]) ELSE Up(m, x[2]))
             /\ x[2] \in LinkNames(m)
             /\ Inbound(m, x[2]) # {} => Up(m, x[2]) # x[2]
             /\ \E k \in 0..N : x[2] \in Tier(m, k)
  <2>1. PICK n \in Roots(m) : x \in ToSet(b[n])
    BY <1>4
  <2>2. /\ x[1] = (IF Inbound(m, x[2]) = {} THEN Holder(m, x[2]) ELSE Up(m, x[2]))
        /\ \E k \in 0..N : x[2] \in Tier(m, k)
    BY <1>0, <1>b, <2>1, RootItem
  <2>3. x[2] \in LinkNames(m)
    BY <2>2 DEF Tier
  <2>4. Inbound(m, x[2]) # {} => Up(m, x[2]) # x[2]
    BY <1>0, <2>2, NotInItself
  <2> QED BY <2>2, <2>3, <2>4
<1>7. ASSUME NEW l \in LinkNames(m), NEW k \in 0..N, l \in Tier(m, k) PROVE \E x \in ToSet(s) : x[2] = l
  <2>1. PICK r : r = ClimbOf(m, l)[k]
    OBVIOUS
  <2>2. r \in Tier(m, 0)
    <3>1. 0 + k = k /\ 0 \in Nat /\ k \in Nat /\ 0 + k <= N
      OBVIOUS
    <3>2. l \in Tier(m, 0 + k)
      BY <1>7, <3>1
    <3> QED BY <1>0, <2>1, <3>1, <3>2, TierOfClimb
  <2>3. PICK n \in Roots(m) : m.links[n].name = r
    BY <2>2, RootNames
  <2>4. ToSet(b[n]) = {<<Holder(m, r), r>>} \cup ToSet(Nested(m)[r])
    BY <1>b, <2>3, RootBlock
  <2>5. CASE k = 0
    <3>1. r = l
      BY <2>1, <2>5, Climb
    <3>2. <<Holder(m, r), r>> \in ToSet(s) /\ <<Holder(m, r), r>>[2] = r
      BY <1>4, <2>4
    <3> QED BY <3>1, <3>2
  <2>6. CASE k # 0
    <3>1. SceneBelow(m, Nested(m)[r], 0, N, r)
      BY <1>0, <2>2, NestedBelow
    <3>2. k \in 1..N /\ l \in Tier(m, 0 + k)
      <4>1. k \in 1..N /\ 0 + k = k
        BY <2>6
      <4> QED BY <1>7, <4>1
    <3>3. PICK t \in ToSet(Nested(m)[r]) : t[2] = l
      BY <2>1, <3>1, <3>2 DEF SceneBelow
    <3>4. t \in ToSet(s)
      BY <1>4, <2>4
    <3> QED BY <3>3, <3>4
  <2> QED BY <2>5, <2>6
<1>8. ASSUME NEW l \in LinkNames(m) PROVE Grounded(m, l) <=> \E x \in ToSet(s) : x[2] = l
  BY <1>0, <1>6, <1>7, GroundedInTier
<1> QED BY <1>2, <1>5, <1>6, <1>8

\* How often a link is in a scene that has no link twice.
LEMMA ShownOnce ==
  ASSUME NEW S, NEW s \in Seq(S), Distinct(s), NEW l
  PROVE  Cardinality({n \in DOMAIN s : s[n][2] = l}) = IF \E x \in ToSet(s) : x[2] = l THEN 1 ELSE 0
<1> DEFINE P == {n \in DOMAIN s : s[n][2] = l}
<1>1. DOMAIN s = 1..Len(s)
  OBVIOUS
<1>2. CASE \E x \in ToSet(s) : x[2] = l
  <2>1. PICK n \in DOMAIN s : s[n][2] = l
    BY <1>2 DEF ToSet
  <2>2. P = {n}
    BY <1>1, <2>1 DEF Distinct
  <2> HIDE DEF P
  <2>3. Cardinality(P) = 1
    BY <2>2, FS_Singleton
  <2> QED BY <1>2, <2>3 DEF P
<1>3. CASE ~\E x \in ToSet(s) : x[2] = l
  <2>1. P = {}
    BY <1>3 DEF ToSet
  <2> HIDE DEF P
  <2>2. Cardinality(P) = 0
    BY <2>1, FS_EmptySet
  <2> QED BY <1>3, <2>2 DEF P
<1> QED BY <1>2, <1>3

\* The four things that LinksRenderedOnce says of a model and its scene.
RenderedOnce(m, shown) ==
    LET top == {n \in DOMAIN shown : shown[n][1] = shown[n][2]} IN
    /\ \A l \in LinkNames(m) : Cardinality({n \in DOMAIN shown : shown[n][2] = l}) = (IF Grounded(m, l) THEN 1 ELSE 0)
    /\ \A n \in DOMAIN shown \ top : LET l == shown[n][2] IN
           shown[n][1] = (IF Inbound(m, l) = {} THEN shown[1][2] ELSE Up(m, l))
    /\ top \subseteq {1}
    /\ \A n \in top : shown[n][2] \in LinkNames(m) \/ QmlId(shown[n][2]) \notin {QmlId(l) : l \in LinkNames(m)}

LEMMA OneRootRendered ==
  ASSUME NEW m, Robotic(m), OneParent(m), OneRoot(m)
  PROVE  RenderedOnce(m, Rendered(m))
<1>1. PICK s : s = FlattenSeq(Blocks(m))
  OBVIOUS
<1>2. /\ s \in Seq(ScenePairs(m)) /\ Distinct(s)
      /\ \A x \in ToSet(s) :
             /\ x[1] = (IF Inbound(m, x[2]) = {} THEN Holder(m, x[2]) ELSE Up(m, x[2]))
             /\ x[2] \in LinkNames(m)
             /\ Inbound(m, x[2]) # {} => Up(m, x[2]) # x[2]
      /\ \A l \in LinkNames(m) : Grounded(m, l) <=> \E x \in ToSet(s) : x[2] = l
  BY <1>1, ForestRendered
<1>3. Rendered(m) = s
  <2>1. <<>> \o s = s
    BY <1>2
  <2> QED BY <1>1, <2>1 DEF Rendered, Blocks
<1>4. \A l : Holder(m, l) = l
  BY DEF Holder
<1> DEFINE top == {n \in DOMAIN s : s[n][1] = s[n][2]}
<1>5. ASSUME NEW n \in DOMAIN s
      PROVE  /\ s[n][2] \in LinkNames(m)
             /\ n \in top => Inbound(m, s[n][2]) = {}
             /\ n \notin top => s[n][1] = Up(m, s[n][2]) /\ Inbound(m, s[n][2]) # {}
  <2>1. s[n] \in ToSet(s)
    BY DEF ToSet
  <2> QED BY <1>2, <1>4, <2>1
<1>6. ASSUME NEW n \in top PROVE n = 1
  <2>1. PICK b : b = Blocks(m)
    OBVIOUS
  <2>2. /\ b \in Seq(Seq(ScenePairs(m))) /\ DOMAIN b = 1..Len(b)
        /\ \A i \in 1..Len(b) : i \notin Roots(m) => b[i] = <<>>
    BY <2>1, BlocksListed
  <2>3. PICK i \in 1..Len(b) : s[n] \in ToSet(b[i])
    <3>1. s[n] \in ToSet(s)
      BY DEF ToSet
    <3> QED BY <1>1, <2>1, <2>2, <3>1, Flattened
  <2>4. i \in Roots(m)
    <3>1. ToSet(<<>>) = {}
      BY DEF ToSet
    <3> QED BY <2>2, <2>3, <3>1
  <2>5. \A j \in 1..Len(b) : j # i => b[j] = <<>>
    BY <2>2, <2>4 DEF OneRoot
  <2>6. s = b[i]
    BY <1>1, <2>1, <2>2, <2>5, FlattenOnly
  <2>7. s[1][2] = m.links[i].name
    BY <2>1, <2>4, <2>6, RootBlock
  <2>8. s[n][2] = m.links[i].name
    <3>1. Inbound(m, s[n][2]) = {}
      BY <1>5, <1>6
    <3> QED BY <2>1, <2>3, <2>4, <3>1, RootItem
  <2>9. n \in 1..Len(s) /\ 1 \in 1..Len(s)
    BY <1>2
  <2> HIDE DEF top
  <2> QED BY <1>2, <2>7, <2>8, <2>9 DEF Distinct
<1>7. ASSUME NEW l \in LinkNames(m) PROVE Cardinality({n \in DOMAIN s : s[n][2] = l}) = (IF Grounded(m, l) THEN 1 ELSE 0)
  BY <1>2, ShownOnce
<1>8. \A n \in DOMAIN s \ top : s[n][1] = (IF Inbound(m, s[n][2]) = {} THEN s[1][2] ELSE Up(m, s[n][2]))
  BY <1>5
<1>9. \A n \in top : s[n][2] \in LinkNames(m)
  BY <1>5
<1> QED BY <1>3, <1>6, <1>7, <1>8, <1>9 DEF RenderedOnce

LEMMA ManyRootsRendered ==
  ASSUME NEW m, Robotic(m), OneParent(m), ~OneRoot(m)
  PROVE  RenderedOnce(m, Rendered(m))
<1>1. PICK s : s = FlattenSeq(Blocks(m))
  OBVIOUS
<1>2. /\ s \in Seq(ScenePairs(m)) /\ Distinct(s)
      /\ \A x \in ToSet(s) :
             /\ x[1] = (IF Inbound(m, x[2]) = {} THEN Holder(m, x[2]) ELSE Up(m, x[2]))
             /\ x[2] \in LinkNames(m)
             /\ Inbound(m, x[2]) # {} => Up(m, x[2]) # x[2]
      /\ \A l \in LinkNames(m) : Grounded(m, l) <=> \E x \in ToSet(s) : x[2] = l
  BY <1>1, ForestRendered
<1>3. PICK v : v = VirtualRoot(m)
  OBVIOUS
<1>4. (\A l : Holder(m, l) = v) /\ v \notin LinkNames(m) /\ QmlId(v) \notin {QmlId(l) : l \in LinkNames(m)}
  BY <1>3, VirtualRootFree DEF Holder
<1> DEFINE root == <<v, v>>
           S == {root} \cup ScenePairs(m)
<1>5. root[1] = v /\ root[2] = v /\ root \in S
  OBVIOUS
<1>6. s \in Seq(S)
  <2>1. ScenePairs(m) \subseteq S
    OBVIOUS
  <2> HIDE DEF S
  <2> QED BY <1>2, <2>1, SeqMonotone
<1>7. PICK shown : shown = <<root>> \o s
  OBVIOUS
<1>8. Rendered(m) = shown
  BY <1>1, <1>3, <1>7 DEF Rendered, Blocks
<1> HIDE DEF S, root
<1>9. /\ <<root>> \in Seq(S) /\ shown \in Seq(S) /\ shown[1] = root /\ Len(s) \in Nat
      /\ DOMAIN shown = 1..Len(s) + 1 /\ \A n \in DOMAIN shown : n # 1 => shown[n] = s[n - 1] /\ n - 1 \in 1..Len(s)
  BY <1>5, <1>6, <1>7
<1>10. ToSet(<<root>>) = {root} /\ Distinct(<<root>>)
  BY DEF ToSet, Distinct
<1>11. Distinct(shown)
  <2>1. \A x \in ToSet(<<root>>), y \in ToSet(s) : x[2] # y[2]
    BY <1>2, <1>4, <1>5, <1>10
  <2> QED BY <1>2, <1>6, <1>7, <1>9, <1>10, <2>1, DistinctConcat
<1>12. ToSet(shown) = {root} \cup ToSet(s)
  <2>1. PICK one \in Seq(S) : one = <<root>>
    BY <1>9
  <2>2. ToSet(one \o s) = ToSet(one) \cup ToSet(s)
    BY <1>6, SetOfConcat
  <2> QED BY <1>7, <1>10, <2>1, <2>2
<1> DEFINE top == {n \in DOMAIN shown : shown[n][1] = shown[n][2]}
<1>13. ASSUME NEW n \in DOMAIN shown, n # 1
       PROVE  n \notin top /\ shown[n][1] = (IF Inbound(m, shown[n][2]) = {} THEN v ELSE Up(m, shown[n][2]))
  <2>1. PICK x \in ToSet(s) : x = shown[n]
    BY <1>9, <1>13 DEF ToSet
  <2>2. x[1] = (IF Inbound(m, x[2]) = {} THEN v ELSE Up(m, x[2])) /\ x[2] \in LinkNames(m)
    BY <1>2, <1>4
  <2>3. x[1] # x[2]
    BY <1>2, <1>4, <2>2
  <2> QED BY <2>1, <2>2, <2>3
<1>14. ASSUME NEW l \in LinkNames(m) PROVE Cardinality({n \in DOMAIN shown : shown[n][2] = l}) = (IF Grounded(m, l) THEN 1 ELSE 0)
  <2>1. (\E x \in ToSet(shown) : x[2] = l) <=> \E x \in ToSet(s) : x[2] = l
    BY <1>4, <1>5, <1>12
  <2>2. Cardinality({n \in DOMAIN shown : shown[n][2] = l}) = IF \E x \in ToSet(shown) : x[2] = l THEN 1 ELSE 0
    <3>1. shown \in Seq(S)
      BY <1>9
    <3> QED BY <1>11, <3>1, ShownOnce, Zenon
  <2> QED BY <1>2, <2>1, <2>2
<1>15. 1 \in top /\ shown[1][2] = v
  BY <1>5, <1>9
<1>16. \A n \in DOMAIN shown \ top : shown[n][1] = (IF Inbound(m, shown[n][2]) = {} THEN shown[1][2] ELSE Up(m, shown[n][2]))
  BY <1>13, <1>15
<1>17. \A n \in top : n = 1 /\ QmlId(shown[n][2]) \notin {QmlId(l) : l \in LinkNames(m)}
  BY <1>4, <1>13, <1>15
<1> QED BY <1>8, <1>14, <1>16, <1>17 DEF RenderedOnce

LEMMA ModelsRobotic == \A m \in Models : Robotic(m)
<1>1. Robotic(NoModel)
  <2>1. <<>> \in Seq(ToSet(<<>>))
    OBVIOUS
  <2> QED BY <2>1 DEF Robotic, NoModel
<1>2. ASSUME NEW m \in {r.model : r \in Robots} PROVE Robotic(m)
  BY <1>2, RobotsAssumption DEF Robotic
<1> QED BY <1>1, <1>2 DEF Models

\* Whatever the links and joints: where no link has two inbound joints, the
\* exported scene has every link that reaches a root exactly once, in its
\* parent or, when it is a root, in a root of its own id.  build_tree() and
\* the template.
THEOREM LinksCorrect == Spec => []LinksRenderedOnce
<1>1. TypeInv => LinksRenderedOnce
  <2> SUFFICES ASSUME TypeInv, \A l \in LinkNames(model) : \A i, j \in Inbound(model, l) : i = j
               PROVE  RenderedOnce(model, Rendered(model))
    BY DEF LinksRenderedOnce, RenderedOnce
  <2>1. PICK m : m = model
    OBVIOUS
  <2>2. Robotic(m) /\ OneParent(m)
    BY <2>1, ModelsRobotic DEF TypeInv, ControlTyped, OneParent
  <2>3. RenderedOnce(m, Rendered(m))
    BY <2>2, OneRootRendered, ManyRootsRendered
  <2> QED BY <2>1, <2>3
<1> QED BY <1>1, TypeInit, TypeStep, FilesInit, FilesStep, PTL DEF Spec
=============================================================================
