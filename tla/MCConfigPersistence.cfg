SPECIFICATION Spec
CONSTANTS
  theme = theme
  passthrough = passthrough
  Fields = {theme, passthrough}
  RuntimeFields = {passthrough}
  NoJob = NoJob
  MaxEdits = 3
PROPERTIES
  EditsAreDurable
