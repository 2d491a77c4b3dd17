\* Two updates, a new match and a window on one directory; one import of
\* three species on up to three pages; two runs of the camera; two turns and
\* three snapshots of the TURN page; two matches on the selection page.
CONSTANTS
  Updaters = {u1, u2}
  Pinners = {m1}
  MaxData = 4
  s1 = s1
  Listed <- MCListed
  OtherSeason = {3}
  Actives = {s1}
  Species = {a, b, c}
  MaxPages = 3
  MaxRankings = 1
  MaxTime = 3
  MaxFrames = 2
  MaxRuns = 2
  MaxAge = 1
  FreshFor = 2
  Fields = {hp}
  MaxTurns = 2
  MaxSnapshots = 3
  Slots = {1, 2}
  Names = {x, y}
  MaxMatches = 2
  Team = {p1, p2}
  MaxStage = 1
  MaxTurn = 3
  f1 = f1
  usual1 = usual1
  Own = {o1, o2}
  OwnMoves = {v1}
  Foes = {f1, f2}
  FoeMoves = {usual1, rare1}
  Usual <- MCUsual
  MaxAsked = 2
  ImageCount = 3
  Alike <- MCAlike
  Labels = {1, 2}
  TopK = 2
  SlotCount = 2
  Frames <- MCFrames
  Enough = 2
  MaxFilings = 3
  Places = {1, 2}
  Pokemon = {k1, k2}
  Details <- MCDetails
  PresetNames = {q1, q2}
SPECIFICATION Spec
INVARIANTS
  BackgroundTypeOK
  StoreIsSound
  VerdictIsRight
  FramesAreCurrent
  PagesShowThisTurn
  PicturesAreOnTheirWay
  FeedbackIsOfItsMatch
  HpIsOfThePokemon
  TurnsCanBeAdvised
  AcceptedAnswersAreSound
  LearningIsSound
  SuggestionIsBest
  KeptBuildsFit
PROPERTIES
  ContextIsFixed
  EntriesStay
  ConfirmedBuildIsShown
CHECK_DEADLOCK FALSE
