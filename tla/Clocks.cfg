SPECIFICATION MCSpec
CONSTANTS
  Procs = {p1, p2}
  Nobody = Nobody
  Tries = 2
  Expiry = 2
  Drift = 0
  MaxTime = 3
  MaxLost = 1
  a = a
  b = b
  c = c
  Default = Default
  Blank = Blank
  NoScope = NoScope
  Configs <- ThreeConfigs
  Tenants = {t1, t2, t3}
  Fallback = Default
  MaxTracked = 3
  Threshold = 2
  MaxCount = 4
  Expressions <- CronTexts
  Starts = {0, 7, 29}
  MinutesPerHour = 2
  HoursPerDay = 3
  DaysPerWeek = 2
  MonthStarts <- MonthsOfTwoYears
  MonthsPerYear = 3
  MaxDayOfMonth = 3
  MaxIterations = 78
  Reloaders = {"p", "q"}
  MaxGen = 3
  MaxClock = 6
  Lifetime <- ValidAt
INVARIANTS MutualExclusion OutcomeMatchesEvidence NobodyIsForgotten NextIsTheFirstDue CertificateSound
PROPERTIES RenewalIsReal SweepsAreRemembered
SYMMETRY Symmetry
CHECK_DEADLOCK FALSE
