SPECIFICATION Spec
CONSTANTS
  none = none
  None = none
  NamedAfter <- MCNamedAfter
  FloppyOem <- MCFloppyOem
  Families <- MCFamilies
  PciIds = {"pci1", "pci2"}
  SysFiles = {"iastor.sys", "other.sys", "firadisk.sys"}
  InfFiles = {"iaahci.inf", "firadisk.inf"}
INVARIANTS
  TypeOK
  OriginalKept
  PresentBeforeNamed
  DriverBinds
  MergeSeparates
  OneFloppy
