SPECIFICATION FairSpec
CONSTANTS
    deploy_jump = deploy_jump
    migrate = migrate
    Runners <- MCRunners
    Releases <- MCReleases
    MaxFailures <- MCMaxFailures
INVARIANTS
    TypeOK
    RecordedInOrder
    SameSchemaAsFresh
PROPERTIES
    CountsOutliveMigrations
    RetriesGetThrough
