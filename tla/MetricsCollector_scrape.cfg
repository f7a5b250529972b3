SPECIFICATION FairSpec
CONSTANTS
    Scrapes = {s1}
    Handlers = {h1, h2}
    Targets = {"t1", "t2"}
    None = None
CHECK_DEADLOCK FALSE
PROPERTY ScrapeCompletes
