SPECIFICATION BindingsSpec
CONSTANTS
  SizeofObject = 2
  SizeofKV = 3
  MaxKeys = 2
  ConfigPaths <- MCConfigPaths
  ConfigValues <- MCConfigValues
  ResultSizes = {2, 40}
  MaxChanges = 2
  Subscribers = {s1, s2}
  Topics = {"t", "u"}
  BinaryPayloads <- MCPayloads
  JsonPayloads <- MCJson
  KeyPaths <- MCKeyPaths
  BadEvents <- MCBadEvents
  MaxInbox = 1
  CppVars = {v1, v2}
  RustVars = {r1}
  MaxHandles = 4
  Nothing = nothing
INVARIANTS
  ConfigReadBack
  PayloadDelivered
  SubscriptionOwned
