\* A port that can carry more than a tenth of its counter's range in a tick,
\* and all of it between two samples.
SPECIFICATION Spec
CONSTANTS
    None = None
    Ports = {1}
    Modulus = 10
    LineRate = 3
    MaxLatency = 1
    MaxTime = 4
INVARIANTS
    TypeOK
    RatesExact
    RatesNotOverstated
    RatesWithinLineRate
