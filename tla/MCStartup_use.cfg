SPECIFICATION Spec
CONSTANTS
  Text <- Texts
  Nothing = Nothing
  Address <- Addresses
  Blank <- Spaces
  Number <- Numbers
  Throws = Throws
  Host0 = "127.0.0.1"
  Port0 = "6379"
  Keyspace0 = "default"
  Written <- Lines
  Given <- Arguments
  MaxFile = 3
PROPERTY UseSwitches
