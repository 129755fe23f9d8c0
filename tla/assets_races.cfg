\* Saves with media, loads and deletions at any time, failures and a crash.
SPECIFICATION Spec
CONSTANTS
  Clients = {c1, c2}
  Assets = {a1, a2}
  NoAsset = NoAsset
  Nobody = Nobody
  WithExt = {a1}
  MaxFaults = 1
INVARIANTS
  TypeOK
  AcknowledgedKept
  IndexIsTrue
  RefsResolve
\* Once every asset ID is used and the media are gone there is nothing to do.
CHECK_DEADLOCK FALSE
