SPECIFICATION FairSpec
CONSTANTS
  u1 = u1 u2 = u2 urlA = urlA urlB = urlB urlBad = urlBad
  hostA = hostA hostB = hostB k = k t1 = t1 t2 = t2
  n1 = n1 n2 = n2 nk = nk
  NULL = NULL EMPTY = EMPTY REFUSED = REFUSED
  Users = {u1, u2}
  Names = {n1, n2, nk}
  Lookups = {k}
  Urls = {urlA, urlB, urlBad}
  Endpoints = {hostA, hostB}
  Topics = {t1, t2}
  Slots = {1, 2}
  Framework = TRUE
  Login <- McLogin
  Userdb <- McUserdb
  Parse <- McParse
  Settings <- Settings24
INVARIANTS TypeOK ReplyIsTheAnswer GoneUsersAreQuiet IInv
PROPERTIES RoutedBySettings CleanupLosesNothing UsableIsNotified ServesClient CacheIsInvisible DeinitEnds
