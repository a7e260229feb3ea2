SPECIFICATION Spec
CONSTANTS
  None = None
  ethernet = ethernet
  loopback = loopback
  unknown = unknown
  Resolvable <- MCReal
  Refused <- MCRefused
  Unquotable <- MCUnquotable
  KeyOf <- MCKeyOf
  Canonical <- MCCanonical
  Names <- MCNames
  Texts <- MCTexts
  IfTypes <- MCIfTypes
  Unknown = unknown
  TypeName <- MCTypeName
  Ips <- MCIps
  Lens <- MCLens
  Mtus <- MCMtus
  Interfaces <- MCInterfaces
  Documents <- MCNothing
  MaxIfs = 1
  MaxFaults = 0
INVARIANTS
  RoundTrips
