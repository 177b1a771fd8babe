SPECIFICATION Spec
CONSTANTS
    Process = {init, p, q}
    initproc = init
    File = {f1, f2, f3}
    Page = {c1, c2}
    NOFILE = 2
    None = None
INVARIANTS NoUseAfterClose EndsMatchFiles RefsAreHolders
SYMMETRY Symmetric
CHECK_DEADLOCK FALSE
