CONSTANTS
    Contents = {a1, a2}
    Invalid = bad
    OpenApis = {o1}
    None = none
    Edited = edited
    Writers = {1, 2}
    Worker = worker
    Lost = lost
    MaxCreates = 2
    MaxEvents = 1
SPECIFICATION LiveSpec
INVARIANTS
    TypeOK
    ProjectsCommitted
    SpecFromGit
PROPERTIES
    CreateNeverOverwrites
    CreateNeverRegresses
    CreatesFinish
    FollowsGit
CHECK_DEADLOCK FALSE
