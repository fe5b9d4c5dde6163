\* Two sweeps over a registered pack and one the master pipeline writes.
CONSTANTS
  daily = daily
  master = master
  ops = ops
  catchup = catchup
  Notebooks = {daily, master}
  Bypassed = {master}
  Registered = {daily}
  Parts = 2
  Sweeps = {ops, catchup}
  Targets <- MCTargets
  MaxCrashes = 1
SPECIFICATION Spec
INVARIANTS
  TypeOK
  FileMatchesSweeps
  RegisteredServedWhole
PROPERTIES
  FailureIsRetried
