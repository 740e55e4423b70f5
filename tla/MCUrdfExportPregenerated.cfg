SPECIFICATION Spec
CONSTANTS
    Robots <- MCRobots
    MeshStates <- MCMeshStates
    Options <- MCOptions
    Environments <- MCEnvironments
    Files <- MCFiles
    PackageMap <- MCPackageMap
    RosPaths <- MCRosPaths
    UrdfDir <- MCUrdfDir
    MeshUnit = "auto"
    DefaultUnit = "meter"
    MaxRuns = 2
    MaxEdits = 0
    MaxFaults = 0
INVARIANT MeshReferencesRegistered
CHECK_DEADLOCK FALSE
