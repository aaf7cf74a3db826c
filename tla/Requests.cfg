SPECIFICATION FairSpec
CONSTANTS
  Requests = {r1, r2, r3}
  Mails = {m1}
  Limit = 2
  Nil = Nil
INVARIANTS
  TypeOK
  CounterLapses
  AnswersAreTrue
  HandlerOnce
PROPERTY EveryRequestAnswered
CHECK_DEADLOCK FALSE
