SPECIFICATION Spec
CONSTANTS
    MaxJobs = 2
    MaxTasks = 3
    Messages <- MCMessages
INVARIANTS
    ArraysSubmitted
