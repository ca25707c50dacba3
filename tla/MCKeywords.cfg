CONSTANTS
  Keywords = {"k"}
  MaxEdits = 2
  MaxMishaps = 1
  MaxSeconds = 2
SPECIFICATION KeywordSpec
CHECK_DEADLOCK FALSE
INVARIANT EditsNeverUndone
