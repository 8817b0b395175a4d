SPECIFICATION Spec
CONSTANTS
  Content <- MCContent
  Written <- MCWritten
  Short = 3
  Long = 4
  Directives = 3
INVARIANT SpansFit
INVARIANT AcceptsFiles
INVARIANT MeansFile
PROPERTY Ends
PROPERTY NothingReadAfterError
