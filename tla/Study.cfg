SPECIFICATION Spec
CONSTANTS
  Cards = {b1, m1, m2}
  Mcqs = {m1, m2}
  Tests = {t1}
  Attempts = {a1}
  Users = {u1}
  Exempt = {}
  Requests = {r1, r2}
  EnvLimit = 2
  OrgLimit = 1
  Cooldown = 1
  DayLength = 2
  MaxClock = 1
  MaxReviews <- FlashcardReviews
SYMMETRY Alike
INVARIANTS
  CountsWithinReviews
  SerialScheduleAgrees
  SerialTestsAreWhole
CHECK_DEADLOCK FALSE
