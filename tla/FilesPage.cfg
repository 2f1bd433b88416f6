SPECIFICATION Spec
CONSTANTS
  Workspaces <- MCWorkspaces
  Files <- MCFiles
  Folders <- MCFolders
  Root = Root
  Nobody = Nobody
  NoId = NoId
  Mime <- MCMime
  Ext <- MCExt
  Bytes <- MCBytes
  Title <- MCTitle
  MB = 2
  FiltersTried <- MCFiltersTried
  Sections = {"my-files", "photos", "trash"}
  Home = "w1"
  Stored <- MCStored
  MaxDrop = 2
  MaxTries = 2
  MaxClicks = 3
  MaxFlows = 4
  MaxTroubles = 1
  Habits <- MCHabits
CHECK_DEADLOCK FALSE
INVARIANTS
  TypeOK
  SelectionKindsAgree
  SelectionIsListed
  OneTransferAtATime
  TrailIsOfTheOpenFolder
  OneDialogCommandAtATime
  FoldersFormATree
  RowsStayWithTheirFolder
PROPERTIES
  OnlyTheActiveWorkspaceChanges
  ErasedWasConfirmed
  UploadsEnd
  CommandsEnd
