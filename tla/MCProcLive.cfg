SPECIFICATION FairSpec
CONSTANTS
    NPROC = 3
    NCPU = 1
PROPERTIES ZombieReaped KilledExits
