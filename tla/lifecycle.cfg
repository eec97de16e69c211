SPECIFICATION Spec
CONSTANTS
  u1 = u1 u2 = u2 quota = quota acl = acl
  IMAP = IMAP PUSH = PUSH NOTIFY = NOTIFY NULL = NULL
  Users = {u1, u2}
  Others = {quota, acl}
  Framework = TRUE
INVARIANTS CalledIsLoaded EveryHookRuns AdvertisedIsServed LifecycleInv
