SPECIFICATION FairSpec
CONSTANTS
  Funcs = {f1, f2, f3}
  Callers = {app, handler}
  Handler = handler
  Nobody = Nobody
  CtxErr = CtxErr
CHECK_DEADLOCK FALSE
INVARIANTS TypeOK NoSendAfterClose NilMeansAllClosed
PROPERTY CloseAllReturns
