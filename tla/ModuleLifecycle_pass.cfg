SPECIFICATION MCSpec
CONSTANTS
    m = m
    agent = agent
    skill = skill
    extra = extra
    svc = svc
    svc2 = svc2
    mig = mig
    None = None
    Foreign = Foreign
    Torn = Torn
    Modules <- MCModules
    Files <- MCFiles
    Services <- MCServices
    Migrations <- MCMigrations
    Inputs <- MCInputs
    Unparsable = Unparsable
    Manifests <- MCManifests
INVARIANT LifecycleTypeOK
INVARIANT FreshInstallUndone
INVARIANT FailedUpgradeRestores
INVARIANT ResolverExact
INVARIANT PassMeansDone
PROPERTY RerunHeals
CHECK_DEADLOCK FALSE
