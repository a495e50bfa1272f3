SPECIFICATION Spec
CONSTANTS
    None = None
    Current = Current
    Versions = {1, 2, 3}
    shell = shell
    desktop = desktop
    container = container
    Catalog <- MCCatalog
    Containers = {container}
    Hosts = {desktop}
    Rewriters = {desktop}
    Pinned = {shell, container}
    Legacy = {1}
    MaxWrites = 1
    MaxRuns = 2
INVARIANTS
    TypeOK
    EditsSurvive
    LaunchesWork
    ServersKeepTheirCode
PROPERTIES
    RollbackRestores
CHECK_DEADLOCK FALSE
