CONSTANTS
  Session = {s1, s2}
  Window = {}
  Monitor = {m1}
  Size = {z1, z2}
  Asked = {{"window", "monitor"}}
  Nothing = Nothing
SPECIFICATION Spec
INVARIANT CaptureHasSession
