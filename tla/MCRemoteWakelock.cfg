SPECIFICATION Spec
CONSTANTS
  Session = {s1, s2}
  Timeout = 3
  MaxFaults = 1
INVARIANTS SessionKeepsLock MarkerIsTrue NoStaleToken LeakBounded
