SPECIFICATION Spec
CONSTANTS
  Providers = {p, q}
  Processes = {web, worker}
  Web = web
  Admins = {a, b}
  Calls = {c}
  Readers = {p}
  BuiltIn = BuiltIn
  EnvProvider = p
  OldKey = OldKey
  Nothing = Nothing
  Ttl = 2
  MaxEvents = 2
INVARIANTS
  KeysStayWithTheirProvider
  
  ProbesAreHonest
PROPERTIES
  KeysOutliveSwitches
SYMMETRY Alike
