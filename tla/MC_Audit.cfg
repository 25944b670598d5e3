CONSTANTS
    NoneValue = NoneValue
    None <- NoneValue
    Cpus <- MCCpus
    Irqs <- MCIrqs
    RxQueues <- MCRxQueues
    FreqValues <- MCFreqValues
    CpuCount = 2
    CpuArgs <- MCCpuArgs
    NicArgs <- MCNicArgs
    Hosts <- MCHosts
    Machines <- MCMachines
SPECIFICATION FairSpec
INVARIANT AuditOrder
PROPERTY AuditRefinesSpec
