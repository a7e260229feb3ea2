SPECIFICATION Spec
CONSTANTS
  None = None
  ethernet = ethernet
  unknown = unknown
  Refused <- MCRefused
  Unquotable <- MCUnquotable
  KeyOf <- MCKeyOf
  Canonical <- MCCanonical
  Names <- MCNames
  Texts <- MCTexts
  IfTypes <- MCIfTypes
  Unknown = unknown
  TypeName <- MCTypeName
  Ips <- MCIps
  Lens <- MCLens
  Mtus <- MCMtus
  CppTypes <- MCCppTypes
  Families <- MCFamilies
  Labels <- MCLabels
  RouterIds <- MCRouterIds
  Prefs <- MCPrefs
  LocalName <- MCLocalName
  Models <- MCModels
  Documents <- MCDocuments
  Resolvable <- MCFeatures
  MaxFaults = 1
INVARIANTS
  TypeOK
  AllOrNothing
  ThrowsExactly
  NamedOnce
  SecondRoundIsExact
