SPECIFICATION Spec
CONSTANTS
  p1 = p1
  p2 = p2
  Pages = {p1, p2}
  Commands = {"file.copy", "file.delete", "terminal.disconnect"}
  Codes = {"C", "F5", "Delete", "Backspace"}
  Defaults <- MCDefaults
  Events <- MCEvents
  Clearing <- MCClearing
  Platform = "ctrl"
  MenuCommands <- MCMenuCommands
  Entries <- MCEntries
  Submenus <- MCSubmenus
  Clauses <- MCClauses
  Areas <- MCAreas
  AppKeys = {"isPaired", "panelOpen"}
  Quotas <- MCQuotas
SYMMETRY PageSymmetry
INVARIANTS StoredIsShown ShownIsMeant
 
CHECK_DEADLOCK FALSE
