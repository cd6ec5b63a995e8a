SPECIFICATION FairSpec
CONSTANTS
    Irqs = {timer, dma}
    Kind <- MCKind
    CounterValues <- MCCounterValues
    Width = 8
    MaxCalls = 3
    Patient = TRUE
    Early = FALSE
INVARIANTS TypeOK IsolatedWhenOff ContextKept
PROPERTIES SwitchedInOrder GatedOnlyWhenAsked CallsReturn DomainsSettle
