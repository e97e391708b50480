SPECIFICATION Spec
CONSTANTS
  None = None
  Vanished = Vanished
  Never = Never
  a1 = a1
  a2 = a2
  a3 = a3
  b1 = b1
  b2 = b2
  q1 = q1
  q2 = q2
  q3 = q3
  bed1 = bed1
  bed2 = bed2
  bed3 = bed3
  d1 = d1
  d2 = d2
  h1 = h1
  h2 = h2
  Players = {a1, a2, a3}
  Parties = {b1, b2}
  Premium = {a1, a2, a3}
  Ids = {1, 2}
  BlockCount = 2
  Monsters = {a1, a2, a3}
  Rate = 1
  K = 4
  Types <- MCTypes
  DecayTime <- MCDecayTime
  DecayTo <- MCDecayTo
  StopTime = {"ring", "unlit"}
  Transforms <- MCTransforms
  MaxListings = 2
  Tenants = {b1, b2}
  Houses <- MCHouses
  Period = 1
  WarningsLimit = 2
  MaxDay = 4
  Sleepers = {q1, q2, q3}
  Beds = {bed1, bed2, bed3}
  Partner <- MCPartner
  Level <- MCLevel
  Lookers = {q1, q2}
  Bags = {b1, b2}
  Depots <- MCDepots
  Places = {0, 1, 2}
  Lockers = {1}
  ViewRange = 1
  Windows = {0}
  Kinds <- MCKinds
  Worth <- MCWorth
  StackSize = 3
  PackSize = 2
  BagSize = 2
  MaxWorth = 9
  MaxFloor = 1
  Freed = Freed
  Raids <- MCRaids
  RefType <- MCRefType
  Events <- MCEvents
  Things = {b1, b2}
  Hunters = {q1}
  Beasts = {b1, b2}
  Rivals = {q2}
  Fields = {0, 1, 2, 3}
  SafeFields = {3}
  Sight = 1
  Screen = 0
  Tether = 2
  Hastes <- MCHastes
  Boosts <- MCBoosts
  FightTime = 1
  Looks = {"citizen", "noble"}
  UniqueIds = {1}
  Timers = {1}
  MaxEnv = 2
  MaxSteps = 1
  MaxPosted = 1
  MaxWalks = 2
  WornItems = {b1, b2}
  Slots <- MCSlots
  WornTypes <- MCWornTypes
  EquipTo <- MCEquipTo
  DeEquipTo <- MCDeEquipTo
  Speed <- MCSpeed
  Shield = {"worn", "knight"}
  Suppress = {"boots", "knight"}
  Outfits = {"citizen", "knight"}
SYMMETRY Symmetry
CHECK_DEADLOCK FALSE
INVARIANTS
  PartiesAgree
  ChannelsAgree
  SpawnsGoOn
  HomesAreKept
  WindowsInReach
  CoinsAddUp
  BonusesAddUp
  TargetsHold
  ConditionsAddUp
  ScriptsLetGo
  WalksKeepUp
PROPERTY
  DecaysOnTime
