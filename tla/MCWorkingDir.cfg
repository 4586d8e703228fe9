CONSTANTS
  c1 = c1
  LowerCase <- Capitals
  Client <- OneClient
  LayerKind <- Layers
  Path <- PathsAsked
  Dir <- Dirs
  Places <- Directories
  MaxLayers = 2
  MaxChanges = 2
  Nil = Nil
SPECIFICATION Spec
INVARIANTS TypeOK ResolutionAgrees SamePathForAll RedirectsExactly
