SPECIFICATION Spec
CONSTANTS
  Bookmarks <- MCBookmarks
  FirstRoles <- MCRoles
  MaxChanges = 1
  MaxHops = 4
INVARIANTS
  TypeOK
  
  PagesAreDrawn
  RememberedIsReadable
  VisitsEnd
  GeneratedIsServed
  MergeKeepsOthers

  
