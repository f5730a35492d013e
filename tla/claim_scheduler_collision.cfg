\* One client, two workers, cron patterns only, nothing goes wrong.
SPECIFICATION Spec
CONSTANTS
  Client = {c1}
  Worker = {w1, w2}
  NoOne = NoOne
  Times = {1, 4}
  Slot = {1, 2, 5}
  MaxMishaps = 0
  Occurrences <- CronTimes
  RepeatChoices <- PatternChoices
PROPERTIES
  NotUpdatable
