SPECIFICATION MCSpec
CONSTANTS
  c1 = c1
  c2 = c2
  Clients <- BothClients
  Drivers = {"node", "deno", "bun", "opfs"}
  NoFile = NoFile
  NoClient = NoClient
  Here = Here
  MayFail = TRUE
  Jobs <- MCJobs
  Contents <- MCContents
INVARIANTS SuccessIsExact DamageIsConfined NativeWorkUnderLock
PROPERTIES PublishedAtClose EveryClientReturns
