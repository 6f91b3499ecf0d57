SPECIFICATION Spec
CONSTANTS
  NumAmps = 2
  Vols = {1, 2}
  MaxVol = 2
  Levels = {1}
  Muted = 0
  Controls = TRUE
  MaxErrors = 1
INVARIANTS TypeOK SpeakersFollow AmpVolume QuietStandby StreamsRun
PROPERTIES ChannelsAfterClock
