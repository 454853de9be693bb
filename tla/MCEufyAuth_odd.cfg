SPECIFICATION AuthFairSpec
CONSTANTS
  Pages = {p1, p2}
  Dashboard = {p2}
  MaxCaptchas = 2
  MaxPolls = 1
  CloudDrops = FALSE
INVARIANT AnswerMatchesImage
PROPERTIES ReloadRetries PageShowsCaptcha
