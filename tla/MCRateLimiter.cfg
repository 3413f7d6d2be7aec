SPECIFICATION LimiterSpec
CONSTANTS
  Ips = {ip1}
  Pubkeys = {alice}
  ReadMax = 1
  ReadWindow = 1
  WriteMax = 2
  WriteWindow = 3
  Cooldown = 2
  MapLimit = 2
  MaxTime = 3
INVARIANTS WritesBounded CooldownRemembered
