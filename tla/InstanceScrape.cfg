\* One scrape of /metrics-2 against two running constructors.
CONSTANTS
  Root = root
  Generators = {root, g1, g2}
SPECIFICATION ScrapeSpec
INVARIANT ScrapedPeakCoversActive
