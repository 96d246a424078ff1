SPECIFICATION Spec
CONSTANTS
    v1 = v1
    v2 = v2
    j1 = j1
    j2 = j2
    Releases <- MCReleases
    Versions <- MCVersions
    VersionOf <- MCVersionOf
    Jobs <- MCJobs
    PageSize = 3
    MaxChanges = 1
SYMMETRY JobSymmetry
INVARIANTS
    TypeOK
    NewestFirst
    QuietFeedIsCurrent
PROPERTY PushHonoursMain
CHECK_DEADLOCK FALSE
