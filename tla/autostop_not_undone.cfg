SPECIFICATION Spec
CONSTANTS
  w1 = w1 w2 = w2 v1 = v1 v2 = v2 d1 = d1 d2 = d2 dx = dx ds = ds on = on off = off out = out pk = pk db = db
  NoWorker = NoWorker NoVm = NoVm NoVolume = NoVolume NoProfile = NoProfile
  NoImage = NoImage Torn = Torn HalfBuilt = HalfBuilt GuestVars = GuestVars Foreign = Foreign
  Workers = {w1}
  VMs = {v1}
  Volumes = {d1}
  VolumeVm <- MCVolumeVm
  SmallVolumes = {}
  EfiConfs <- FixedConfs
  Profiles <- MCProfiles
  ProfileInfo <- MCProfileInfo
  ProfileMap <- MCProfileMap
  DefaultProfile = NoProfile
  Intents = {"SecureBootEnable:true", "SecureBootEnable:false"}
  Certs = {pk}
  DbOf <- MCDbOf
  AllowWrite = TRUE
  AllowAutostop = TRUE
  PowerKinds = {}
  Faults = {"operator"}
  MaxRequests = 1
PROPERTY RestartedOnExit
CHECK_DEADLOCK FALSE
