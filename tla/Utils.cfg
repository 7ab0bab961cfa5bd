SPECIFICATION Spec
CONSTANTS
  Bytes <- MCBytes
  MaxLength = 5
  Slash = 47
  Backslash = 92
INVARIANT TypeOK OutputWellFormed OnlyBrokenReplaced NameFound DirectoryFound SameSeparator
