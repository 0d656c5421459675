SPECIFICATION Spec
CONSTANTS
  Contents = {k1, k2}
  Uploads = {u1, u2, u3}
  NoUpload = NoUpload
  Deploys = {x1}
  Devices = {d1}
  Reports = {"completed", "failed"}
  NoReport = NoReport
  FkModes = {TRUE, FALSE}
SYMMETRY Symmetry
INVARIANTS
  RegisteredWasWritten
  NoStrayFile
