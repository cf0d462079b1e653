\* Two administrators and two employees, three requests in all.
\* When the requests are used up, nothing follows.
SPECIFICATION Spec
CONSTANTS
  Ann = Ann
  Bob = Bob
  Clerk = Clerk
  Temp = Temp
  Clients = {Ann, Bob, Clerk, Temp}
  Member <- MCMember
  Roles = {"senior", "junior"}
  Agendas <- MCAgendas
  Initial <- MCInitial
  MaxCalls = 3
  None = None
SYMMETRY Symmetry
INVARIANTS TypeOK ReplacedAsAsked PairsNormalized RequestHasItsLeave ImportTwiceIsOnce RetriesAnswered
PROPERTIES ImportTouchesItsKeys EmployeesOnlyAsk
CHECK_DEADLOCK FALSE
