--------------------------- MODULE MCInstallerBuild ---------------------------
(* One developer, one build machine: four versions, two of them apart by the *)
(* build number only and one malformed, and two of the four .env files.      *)
EXTENDS InstallerBuild

MCVersions == {"1.0.0+1", "1.0.0+2", "1.1.0", "1.1"}
MCMalformed == {"1.1"}
MCVersionOnly == [v \in MCVersions |->
    IF v \in {"1.0.0+1", "1.0.0+2"} THEN "1.0.0" ELSE v]
MCEnvFiles == {".env", ".env.example"}
=============================================================================
