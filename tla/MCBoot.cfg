CONSTANTS
  id1 = id1
  id2 = id2
  seed1 = seed1
  mid = mid
  seed = seed
  Absent = Absent
  Torn = Torn
  Files <- MCFiles
  Contents <- MCContents
  Ids <- MCIds
  Seeds <- MCSeeds
  MachineId = mid
  RandomSeed = seed
  Threshold = 2
  CommandLines <- MCCommandLines
  Mounts <- MCMounts
  MaxBoots = 4
SPECIFICATION MCSpec
CHECK_DEADLOCK FALSE
INVARIANTS
    OneRegistryd
    
PROPERTIES
    FilesAreAtomic
    
