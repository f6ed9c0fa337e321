SPECIFICATION Spec
CONSTANTS
  LongBits = 10
  Bits <- MCBits
  Stack = 12
  Jobs <- MCJobs
  Writers = {"strcpy", "strncpy", "strcat", "strncat", "memcpy", "memmove", "memset"}
  Queries = {"strcmp", "strncmp", "memcmp", "strstr", "strnstr", "strchr", "strchrnul"}
INVARIANTS ReadsBack FieldFilled NoOverrun CallsRight
CHECK_DEADLOCK FALSE
