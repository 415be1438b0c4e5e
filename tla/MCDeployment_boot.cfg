CONSTANTS
    app = app
    worker = worker
    second = second
    NoService = NoService
    Services <- MCServices
    Web <- MCWeb
    MaxFaults = 2
SPECIFICATION LiveSpec
INVARIANTS
    TypeOK
    UpIsMigrated
    ProbesAgree
PROPERTY EverybodyBoots
