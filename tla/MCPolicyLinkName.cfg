CONSTANTS
  Users <- MCUsers
  AllowLists <- MCAllowLists
  Names <- MCNames
SPECIFICATION Spec
INVARIANT NeverRefusesListed
