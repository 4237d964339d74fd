\* Handlers, callbacks and simulated functions over two variables.
CONSTANTS
  Names = {"u", "r"}
  Param = "u"
  Forms <- MCForms
  Places <- MCPlaces
  Methods <- MCMethods
  FnNames = {"create", "list"}
  Exports <- MCExports
  Validating = {"withBody"}
  MaxShortcuts = 0
  MaxDepth = 2
SPECIFICATION HandlerSpec
INVARIANTS
  HandlerTypeOK
  NothingUnnoticed
  NothingImagined
CHECK_DEADLOCK FALSE
