SPECIFICATION FocusSpec
CONSTANTS
  w1 = w1 w2 = w2 v1 = v1 v2 = v2 d1 = d1 d2 = d2 dx = dx ds = ds on = on off = off out = out pk = pk db = db
  NoWorker = NoWorker NoVm = NoVm NoVolume = NoVolume NoProfile = NoProfile
  NoImage = NoImage Torn = Torn HalfBuilt = HalfBuilt GuestVars = GuestVars Foreign = Foreign
  Workers = {w1, w2}
  VMs = {v1, v2}
  Volumes = {d1, d2, dx, ds}
  VolumeVm <- MCVolumeVm
  SmallVolumes = {ds}
  EfiConfs <- EditedConfs
  Profiles <- MCProfiles
  ProfileInfo <- MCProfileInfo
  ProfileMap <- MCProfileMap
  DefaultProfile = NoProfile
  Intents = {"SecureBootEnable:true", "SecureBootEnable:false"}
  Certs = {pk, db}
  DbOf <- MCDbOf
  AllowWrite = TRUE
  AllowAutostop = FALSE
  PowerKinds = {"start", "stop"}
  Faults = {"pve", "io", "dd", "tool", "crash", "operator"}
  MaxRequests = 2
  Focuses = {"faults", "builds", "edits"}
INVARIANTS TypeOK OneWriterPerVm SidecarTruthful PinnedProfileIsItsImage WritePathInv
PROPERTIES DiskChangesAreGuarded ImplementsSwap
SYMMETRY Threads
CHECK_DEADLOCK FALSE
