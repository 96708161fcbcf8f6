CONSTANTS
  Hosts = {h1}
SPECIFICATION FairSpec
PROPERTY AnnouncedInTheEnd
