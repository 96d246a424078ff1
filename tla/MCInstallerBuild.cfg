SPECIFICATION Spec
CONSTANTS
    Missing = Missing
    Versions <- MCVersions
    Malformed <- MCMalformed
    VersionOnly <- MCVersionOnly
    EnvFiles <- MCEnvFiles
    MaxRuns = 2
    MaxEdits = 2
    MaxKills = 1
INVARIANTS
    TypeOK
    SourcesOfThisRun
    LabelOfTheExecutable
    VersionFilesAgree
    IconOfThisRun
    SidecarOfTheInstaller
    ToolsWhole
CHECK_DEADLOCK FALSE
