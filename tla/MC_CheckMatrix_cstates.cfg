CONSTANTS
    NoneValue = NoneValue
    None <- NoneValue
    Cpus <- MCCpus
    Irqs <- MCIrqs
    RxQueues <- MCRxQueues
    FreqValues <- MCFreqValues
SPECIFICATION Spec
INVARIANT CStatesAsSpecified
