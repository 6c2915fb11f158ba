\* An unsigned short of three bits, scanned up to its largest value.
CONSTANTS
    USHRT = 8
    START_PORT = 1
    END_PORT = 7
SPECIFICATION Spec
PROPERTY
    ScanEnds
