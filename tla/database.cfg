SPECIFICATION Spec
CONSTANTS
  Main = Main
  Scanner = Scanner
  Nobody = Nobody
  Threads = {Main, Scanner, Worker, Exporter}
INVARIANT StatementsSucceed
CHECK_DEADLOCK FALSE
