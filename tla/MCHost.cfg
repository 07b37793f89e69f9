CONSTANTS
    Runs = {"run1", "run2", "run3"}
    Roots <- SomeRoots
    Capsules = {r1, r2}
    Files = {f, up}
    Escaping = {up}
    TargetIgnored = FALSE
    MaxCrashes = 1
    MaxClients = 2
    Embedded <- SomeEmbedded
    Upstreams <- SomeUpstreams
    CodexLists <- SomeLists
    EnvKeys = {"openai", "acp"}
    Touched <- SomeTouched
    Patches <- SomePatches
    AskedModels = {"", "m2"}
    MaxReplaced = 1
    MaxFetches = 2
    MaxCalls = 2
    Helpers = {h1, h2}
    Profiles <- SomeProfiles
    Folders = {"f"}
    Destinations <- SomeDestinations
    AddressBits = 2
    Arguments <- SomeArguments
INIT SidesInit
NEXT SidesNext
CONSTRAINT ChainInOrder
SYMMETRY Symmetric
INVARIANTS AuthoritySound  RuntimeHolds WindowsSound
CHECK_DEADLOCK FALSE
