\* One worker, a rate limit, no request timeouts: is a success the whole list?
CONSTANTS
  a = a
  b = b
  c = c
  Targets = {a, b, c}
  Settings <- SerialOnly
SPECIFICATION Spec
PROPERTY SuccessIsWhole
