CONSTANTS
 UriChars = {37, 43, 45, 46, 47, 48, 50, 101, 120}
 MaxUri = 5
SPECIFICATION Spec
INVARIANTS AcceptedIsValid
