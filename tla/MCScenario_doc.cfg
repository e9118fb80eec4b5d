CONSTANTS
    Width = 3
    Files <- MCFiles
SPECIFICATION Spec
INVARIANTS
    ReadmeExampleRuns
