\* Two runners, two staged files, two uploads.
CONSTANTS
  nightly = nightly
  manual = manual
  f1 = f1
  f2 = f2
  s1 = s1
  s2 = s2
  Runners = {nightly, manual}
  Files = {f1, f2}
  SourceIds = {s1, s2}
  NoSource = NoSource
  Nobody = Nobody
  NoFile = NoFile
  Gone = Gone
SPECIFICATION Spec
INVARIANTS
  TypeOK
  OneRunUnlessRaced
  UploadedOnce
  ReceiptsAreTrue
PROPERTIES
  DeadLockIsBroken
