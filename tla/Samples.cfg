\* A guest with two disks, of one group or of two, and one with an HBA whose
\* probes come and go; one write fails.
CONSTANTS
    NoReading = NoReading
    Guests <- MCGuests
    DiskReadings <- MCDiskReadings
    HbaReadings <- MCHbaReadings
    Failsafe = 100
    KernelFailsafe = 90000
    MinGroupSize = 2
    Timeout = 2
    MaxFaults = 1
SPECIFICATION SamplesSpec
INVARIANT SensorsTellTruth
PROPERTY ChurnFree
