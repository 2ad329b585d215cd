\* Two agents at one endpoint, so that one learns what the other is told; a retry
\* and two failures until the circuit opens.
CONSTANTS
    a1 = a1
    a2 = a2
    e1 = e1
    Agent = {a1, a2}
    Endpoint = {e1}
    EndpointOf <- Shared
    Wants = {a1}
    MaxRetries = 2
    Threshold = 2
SPECIFICATION CallsSpec
INVARIANTS
    ProbeDecides
PROPERTIES
    RecoveredEndpointIsUsed
