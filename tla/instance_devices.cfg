\* Two Instances of two physical devices and three Devices, which are
\* enumerated, copied, moved, swapped and assigned.
SPECIFICATION Spec
SYMMETRY Symmetry
CONSTANTS
  i1 = i1
  i2 = i2
  d1 = d1
  d2 = d2
  d3 = d3
  h1 = h1
  h2 = h2
  Instances <- MCInstances
  VkInstances <- MCVkInstances
  DevObjects <- MCDevObjects
  PhysCount = 2
  Names = {"x", "d"}
  DefaultLayers <- MCDefault
  DefaultExtensions <- MCDefault
  DefaultDeviceExtensions <- MCDefault
  Loaders <- MCLoaders
  Offers <- MCOffers
  InstanceLists <- Asking
  DeviceLists <- AskingOrNot
  Null = Null
INVARIANTS
  TypeOK
  OwnedOnce
  EnablesWhatIsThere
  AsAsked
  InstanceKnown
