SPECIFICATION Spec
CONSTANTS
    Conns = {c1, c2}
    Requests = {q1, q2, q3}
    System = System
    NoConn = NoConn
    MaxOutside = 2
INVARIANTS ScopeTypeOK HonestAttribution ReadUnderOwnFence NeverStuck
PROPERTIES RequestsFinish
