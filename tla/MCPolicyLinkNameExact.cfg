CONSTANTS
  Users <- MCUsers
  AllowLists <- NoLeadingStarLists
  Names <- MCNames
SPECIFICATION Spec
INVARIANT OnlyListedApproved
