SPECIFICATION MCSpec
CONSTANTS
  w1 = w1 w2 = w2 v1 = v1 f1 = f1 u1 = u1 u2 = u2 c1 = c1 c2 = c2
  NoWorker = NoWorker NoVm = NoVm NoIso = NoIso NoMedia = NoMedia
  Workers = {w1, w2}
  VMs = {v1}
  Urls = {u1, u2}
  AllowedUrls = {u1, u2}
  Files = {f1}
  FileOf <- MCFileOf
  Isos = {c1, c2}
  IsoFaults = {"pve", "web", "copy"}
  Devices <- MCDevices
  Hardware <- MCHardware
  BootOrders <- MCBootOrders
  LocalIsos <- MCLocalIsos
  Resets = {"On", "PowerCycle"}
  Targets = {"Pxe", "Cd", "Hdd", "Usb"}
  Modes = {"seabios", "ovmf"}
  AutoEfidisk = TRUE
  Faults = {"pve", "crash"}
  MaxRequests = 3
INVARIANTS SystemTypeOK IsoInv EfidiskKept
PROPERTIES OverrideIsComplete IsoNeverReplaced NeverAnotherIso ModeUpdatesNotLost RequestsEnd
CHECK_DEADLOCK FALSE
