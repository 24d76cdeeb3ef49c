SPECIFICATION FairSpec
CONSTANTS
    clinic = clinic
    salon = salon
    ana = ana
    bia = bia
    doctor = doctor
    product = product
    None = None
    Channels = {clinic, salon}
    Company <- OwnCompany
    Responsible <- Shared
    Duration <- OneHour
    Buffer <- SalonPauses
    Open <- OpenHours
    Leads = {ana, bia}
    ChannelOf <- Writes
    Messages = {1, 2, 3, 4}
    Asks <- Wishes
    Products = {product}
    Meetings <- Rounds
    Workers = {w1, w2}
    MaxTime = 1
    MaxCrashes = 1
INVARIANTS
    TypeOK
    LockCoversScope
    SeenSlotRefused
    AgendaAsTold
    SummaryEndsOnce
    OneOpenQuote
PROPERTIES
    EventuallyAnswered
CHECK_DEADLOCK FALSE
