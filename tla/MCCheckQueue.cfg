\* Sessions in turn, a worker that joins in, and batches of up to two.
SPECIFICATION Spec
CONSTANTS
    Masters = {m1}
    Workers = {w1}
    Checks = {c1, c2, c3, c4}
    BatchSize = 2
    NoThread = NoThread
INVARIANTS VerdictExact FinishedBeforeRelease TodoExact
PROPERTIES WaitReturns
