\* Three tabs, no failure: the tab strip, saving and the proper quit.
CONSTANTS
  MaxTabs = 3
  MaxSaves = 1
  MaxEdits = 1
  MaxBacklog = 2
  MaxFailures = 0
SPECIFICATION Spec
PROPERTIES
  TabsStayAsLeft
  OnlyHeldTabsReturn
