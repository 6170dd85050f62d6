SPECIFICATION Spec
CONSTANTS
    Calls = {c1, c2, c3}
    ReadCaps = {}
    WriteCaps = {}
    ExecCaps = {"shell.exec"}
    Modes = {"guarded", "paranoid", "permissive"}
    UseCounts <- OnceOrForever
    MaxBoots = 2
SYMMETRY LineSymmetry
CHECK_DEADLOCK FALSE
INVARIANTS
    LedgerBalances
    RiskyRunIsVouched
    SettledIsAudited
PROPERTY
    LedgerChangeHasCause
