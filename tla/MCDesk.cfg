SPECIFICATION Spec
CONSTANTS
    User <- MCUser
    Agent <- MCAgent
    Service <- MCService
    Tool <- MCTool
    Customer <- MCCustomer
    AutoMax = 5
    ManagerMax = 15
    VipBonus = 3
    Task = {t1, t2}
    Proposals <- MCProposals
    None = None
CHECK_DEADLOCK FALSE
INVARIANTS
    DeskIsConsistent
    ChainIsTable
    OneActiveDiscount
    FourEyes
