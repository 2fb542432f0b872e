CONSTANTS
  i1 = i1
  i2 = i2
  c1 = c1
  c2 = c2
  None = None
  Nobody = Nobody
  Home = "home"
  Executables = {"picker"}
  Directories = {"dir", "home"}
  Instances <- TwoInstances
  Replacing <- ReplacingOne
  Calls <- OneCall
  FolderOf <- NoFolders
  Files <- PickerOnly
  Faults = {}
SPECIFICATION FairSpec
PROPERTIES
  ReplacedEnds
