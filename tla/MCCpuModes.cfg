\* One register of each kind: one that only FIQ banks, one that every mode banks.
CONSTANTS
    Modes = {"usr", "sys", "fiq", "irq", "svc"}
    Low = {"r8"}
    Banked = {"lr"}
    Values = {0, 1}
    Zero = 0
    Top = 1
    GuestPsrs <- MCGuestPsrs
    Lists <- MCLists
    NoPsr = NoPsr
SPECIFICATION Spec
INVARIANTS TypeOK
PROPERTIES BanksAreOneFile UserLeavesByException
