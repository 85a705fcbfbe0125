SPECIFICATION Spec
CONSTANTS
  FieldWord <- Word
  Catalogs <- SomeCatalogs
  Pagings <- SomePagings
  Collections <- SomeCollections
  PageLimit = 2
  MaxRetries = 1
INVARIANTS TypeOK RetriedWhileNeeded OneKeyPerField PreviewAgrees
PROPERTIES FetchedWhole
