CHECK_DEADLOCK FALSE
SPECIFICATION FairSpec
CONSTANTS
  Threads = {t1, t2}
  NULL = NULL
  Idle = 0
  Dword = 8
  Answers <- MCAnswers
  MaxJobs = 2
  MaxTime = 1
INVARIANTS
  Conserved
  AnswersTrue
  ResultsRead
  Stopped
PROPERTY GetsAnswer
