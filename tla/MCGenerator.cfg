SPECIFICATION Spec
CONSTANTS
    Package = "geometry_msgs"
    Mapped <- MCMapped
    Opaque = {}
    Helpers <- MCHelpers
    ExtraIncludes <- MCExtraIncludes
    Idls <- MCIdls
    Contents <- MCContents
    NestedOnly = {"Vector3"}
    Templates <- MCTemplates
    Local <- MCLocal
    Installed = {"sensor_msgs"}
    Declared = {"std_msgs"}
    MaxEdits = 1
    MaxFailures = 1
INVARIANT TypeOK
INVARIANT FreshWhenConfigured
INVARIANT ListedIsComplete
INVARIANT IncludesResolved
INVARIANT ConversionsFaithful
