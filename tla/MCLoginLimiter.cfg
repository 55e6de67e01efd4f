SPECIFICATION LSpec
CONSTANTS
  a1 = a1
  a2 = a2
  a3 = a3
  a4 = a4
  ip1 = ip1
  ip2 = ip2
  Attempts = {a1, a2, a3, a4}
  IPs = {ip1, ip2}
  IpOf <- MCIpOf
  Limits <- Settings
  MaxClock = 5
SYMMETRY Interchangeable
INVARIANT LimiterInv
PROPERTY LockoutStands
