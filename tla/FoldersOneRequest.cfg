CONSTANTS
  f1 = f1
  f2 = f2
  f3 = f3
  f4 = f4
  d1 = d1
  d2 = d2
  owner = owner
  admin = admin
  guest = guest
  org = org
  Folders <- MCFolders
  Decks <- MCDecks
  Root = Root
  None = None
  Requests = {r1}
  Users <- MCUsers
  NoOrg = NoOrg
  OrgOf <- MCOrgOf
  Rights <- MCRights
  Made <- MCMade
  Seen <- MCSeen
SPECIFICATION FoldersSpec
INVARIANTS Acyclic EveryDeckIsFound BrowseReachesDecks
