CONSTANTS
  None = none
  Chars <- MCChars
  Events <- MCEvents
  Requests <- MCRequests
  Granted = {"clients", "channelCreate", "channelEdit", "channelDelete", "channelMove", "kickClient", "banClient", "moveClient", "pokeClient"}
  Digits <- MCDigits
  Asked = {"clients"}
  Names <- MCNames
  Reports <- MCReports
  LineEnds <- MCLineEnds
SPECIFICATION Spec
INVARIANT CommandIsOneLine
INVARIANT RecordsReadBack
INVARIANT ValuesKeepTheirKey
CHECK_DEADLOCK FALSE
