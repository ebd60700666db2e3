CONSTANTS
    Router = {1, 2}
    Link <- PairLink
    FirstSeq <- Clock
    DDMax = 1
    ReqBound = 1
    LossBound = 1
SPECIFICATION Spec
INVARIANTS InStep CopiesFollow
PROPERTIES AdjacencyForms DatabasesAgree
CHECK_DEADLOCK FALSE
