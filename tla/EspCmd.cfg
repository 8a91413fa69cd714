SPECIFICATION FairSpec
CONSTANTS
  Roles = {"client", "server"}
  Quiet = {TRUE, FALSE}
  Stale = {"OK", "ready", "garbage", "CONNECT"}
  Notices = {"CONNECT", "DISCONNECT"}
  Refuse = {"AT+CIPSEND"}
  MaxNoise = 3
  Rounds = 2
INVARIANTS AnswersInStep SetupWorks
PROPERTIES NeverHangs Completes
