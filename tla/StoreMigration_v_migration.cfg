\* A process that dies, or a step that raises, twice.
CONSTANT MaxFaults = 2
SPECIFICATION MigrationSpec
INVARIANT OpensWithData
