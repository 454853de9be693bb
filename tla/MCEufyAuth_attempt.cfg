SPECIFICATION AuthFairSpec
CONSTANTS
  Pages = {p1}
  Dashboard = {}
  MaxCaptchas = 2
  MaxPolls = 2
  CloudDrops = TRUE
INVARIANTS LatestCaptchaKept AttemptIsTimed
PROPERTIES NoEndlessSpin PageShowsCaptcha
