SPECIFICATION FairSpec
CONSTANTS
  IntMax = 1
  Callers <- GuiCallers
  MaxWorkers = 2
  MaxErrors = 1
  MaxTimeouts = 1
  PromptStart = TRUE
  Buttons = {"Stop", "MoveRel"}
  MaxClicks = 3
  MaxRepeats = 2
  MaxScans = 1
INVARIANTS  RepeatIsSound
PROPERTIES SdoOnConfiguredBus 
