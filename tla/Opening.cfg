SPECIFICATION OpeningSpec
CONSTANTS
  Paths = {p1, p2}
  Passwords <- MCPasswords
  Key = "right"
  Titles <- MCTitles
CHECK_DEADLOCK FALSE
INVARIANTS OpenIsSafe EndsWhole DialogsRight LetInByPassword
PROPERTIES SecretsGone ImplementsFileOpening
