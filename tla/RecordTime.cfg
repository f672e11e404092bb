\* Three years of days, four zones.
SPECIFICATION Spec
CONSTANTS
    FirstYear = 2015
    Days <- MCDays
    MaxDays = 2
    Zones <- MCZones
INVARIANTS
    DateKept
    ZoneKept
PROPERTIES
    ClockSteady
