\* Two exceptions on pages of one; two texts of one name, two revisions before
\* a file is read; two assets with two changes each, of
\* which one is entered first; one session that expires.
CONSTANTS
  Count = 2
  MaxClicks = 2
  Texts = {Empty, t1, t2}
  Names = {Empty, n1}
  Empty = Empty
  MaxRevision = 2
  AssetIds = {a1, a2}
  NoAsset = NoAsset
  MaxChanges = 2
  MaxSessions = 1
  FirstPages = {"exceptions", "import", "asset"}
  FirstAssets = {a1}
SPECIFICATION Spec
INVARIANTS
  ShownIsCurrent
  CommitsWhatWasReviewed
  LatestInputWins
PROPERTY
  PageSettles
CHECK_DEADLOCK FALSE
