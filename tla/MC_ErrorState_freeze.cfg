CONSTANTS
  e1 = e1
  e2 = e2
  s1 = s1
  EOKAY = EOKAY
  Code <- Codes
  OsCode <- OsCodes
  Site <- Sites
  Document <- Documents
  MaxTrace = 2
  MaxDepth = 3
SPECIFICATION ErrorSpec
PROPERTIES FreezePreserves
