CONSTANTS
  Thread = {t1, t2, t3}
  Tickets = 3
  CyclesToSpin = 1
SPECIFICATION FairSpec
INVARIANT TicketInv
PROPERTIES Excludes FirstInFirstOut StarvationFree
