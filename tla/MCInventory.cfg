SPECIFICATION Spec
CONSTANTS
    MAX_USING_ITEM_COUNT = 2
    MAX_UN_USING_ITEM_COUNT = 2
    ItemType <- MCItemType
    Tier <- MCTier
    defaultItemCode1 = 1
    defaultItemCode2 = 4
    TicketKind = {"Normal"}
    Normal = "Normal"
    RewardCount = {1, 2}
    Overlap = FALSE
    MaxTicket = 2
    MaxUpgrade = 3
INVARIANTS
    ItemsAccountedFor
    TicketsAccountedFor
    
PROPERTIES
    DefaultItemsAreUsed
