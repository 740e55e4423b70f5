SPECIFICATION Spec
CONSTANTS
    Robots <- MCRobots
    MeshStates <- MCMeshStates
    Options <- MCOptions
    Environments <- MCEnvironments
    Files <- MCFiles
    PackageMap <- MCPackageMap
    RosPaths <- MCRosPaths
    UrdfDir <- MCUrdfDir
    MeshUnit = "auto"
    DefaultUnit = "meter"
    MaxRuns = 2
    MaxEdits = 1
    MaxFaults = 1
INVARIANT TypeOK
INVARIANT XacroEnvironment
INVARIANT ReferencesExist
INVARIANT MeshesAccountedFor
INVARIANT LinksRenderedOnce
INVARIANT FilesWhole
PROPERTY UserEditsKept
CHECK_DEADLOCK FALSE
