\* Two owners, two who may manage, an administrator's session, two requests at a time.
SPECIFICATION Spec
CONSTANTS
  olga = olga
  mara = mara
  ada = ada
  sMara = sMara
  sAda = sAda
  r1 = r1
  r2 = r2
  NoUser = NoUser
  NoId = NoId
  NoSession = NoSession
  Users <- MCUsers
  Owners = {olga, ada}
  Managers = {mara, ada}
  Admins = {ada}
  Targets = {mara}
  Sessions = {sMara, sAda}
  Home <- MCHome
  Ids = {1, 2, 3}
  Reqs = {r1, r2}
  LockDays = 1
  MaxTime = 1
SYMMETRY MCSymmetry
CONSTRAINT Bounded
INVARIANTS TypeOK OneManager StrandedOnlyByRace KnowsWayHome
CHECK_DEADLOCK FALSE
PROPERTIES LifeSpec FireLockKept
