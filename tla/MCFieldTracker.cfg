\* Trackers on every kind of field.
SPECIFICATION Spec
CONSTANTS
  Names <- MCNames
  Schemas <- MCSchemas
  MaxNth = 6
  CallsInAnonymous = {}
INVARIANTS
  OffsetIsRight
  ReadyToMove
  NameIsResolved
PROPERTY
  IsCursor
