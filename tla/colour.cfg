CONSTANTS
  Head = {h1}
  Bt2020 = {h1}
  Nits = {1, 2}
  Window = {w1}
  Nothing = Nothing
SPECIFICATION Spec
INVARIANT EncodingMatches
PROPERTIES HeardIsTrue PictureShown
