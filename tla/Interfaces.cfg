SPECIFICATION Spec
CONSTANTS
  None = None
  ethernet = ethernet
  loopback = loopback
  unknown = unknown
  Resolvable <- MCBoth
  Refused <- MCRefused
  Unquotable <- MCUnquotable
  KeyOf <- MCKeyOf
  Canonical <- MCCanonical
  Names <- MCNames
  Texts <- MCTexts
  IfTypes <- MCIfTypes
  Unknown = unknown
  TypeName <- MCTypeName
  Ips <- MCIps
  Lens <- MCLens
  Mtus <- MCMtus
  Interfaces <- MCInterfaces
  Documents <- MCDocuments
  MaxIfs = 2
  MaxFaults = 1
INVARIANTS
  TypeOK
  BackIsNormal
  NormalSurvives
  NothingInvented
  NamesComeBack
  DisabledStaysDisabled
