SPECIFICATION Spec
CONSTANTS
  Runs = {r1, r2}
  Releases = 3
  Generations = 3
  Days = 1
  Keep = 1
  Page = 2
  Retention = 1
SYMMETRY Symmetry
INVARIANTS
  TypeOK
  CachedIsDownloadable
  SettledSiteIsTheRecord
PROPERTY SiteNeverGoesBack
