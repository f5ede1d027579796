CONSTANTS
  the = the
  cat = cat
  stop = stop
  NoToken = NoToken
  Tokens = {the, cat, stop}
  Stops = {stop}
  Ranks = {r1, r2}
  Checkpoints <- MCCheckpoints
  Patches <- MCPatches
  Kind <- MCKind
  PromptLength = 2
  Window = 5
  MaxTokens = 4
  MaxChoice = 2
SPECIFICATION Spec
SYMMETRY Alike
CHECK_DEADLOCK FALSE
INVARIANTS RanksAgree EmittedAsPlain CacheIsEmitted
