\* Two log positions, two terms, caches of two elements.
SPECIFICATION Spec
CONSTANTS
  MaxIndex = 2
  MaxTerm = 2
  CacheSize = 2
INVARIANTS
  TypeOK
  OpensComplete
  LogIsReadable
  CacheIsTransparent
PROPERTY ImplementsStorageExt
