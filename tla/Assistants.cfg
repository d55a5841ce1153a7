SPECIFICATION Spec
CONSTANTS
  Ids = {a1}
  SystemIds = {s1}
  Patched = {a1}
  Contents = {1, 2}
  Rests = {1}
  CronIds = {k1}
  Threads = {t1}
  NoThread = NoThread
  Schedules = {d1}
  Zones = {z1, z2}
  Requests = {q1}
  MaxVersion = 2
  MaxRestarts = 1
INVARIANT AssistantsInv
PROPERTIES NoCronLeftBehind DateFollowsPlan
