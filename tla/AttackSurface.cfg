CONSTANTS
  RawNames <- MCRawNames
  Normal <- MCNormal
  Below <- MCBelow
  NoName = "none"
  Snapshot <- MCSnapshot
  Urls <- MCUrls
  UrlHost <- MCUrlHost
  NoHost = "nohost"
  Unparsable = "unparsable"
  ServiceAt <- MCServiceAt
  Usable <- MCUsable
  DnsCap = 2
  AssetCap = 3
  LinkCap = 2
  Observable <- MCObservable
  Answerable <- MCAnswerable
  Reportable <- MCReportable
  ObsLimit = 2
SPECIFICATION Spec
INVARIANTS
  TypeOK
  TreeIsRooted
  DnsIsFaithful
  NothingLeftUnlinked
PROPERTY
  LinksAreUnambiguous
CHECK_DEADLOCK FALSE
