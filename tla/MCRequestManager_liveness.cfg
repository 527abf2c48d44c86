\* Requests are answered and prerendering covers the map, under fair scheduling.
SPECIFICATION FairSpec
CONSTANTS
    w1 = w1
    w2 = w2
    w3 = w3
    r1 = r1
    r2 = r2
    r3 = r3
    style = style
    png = png
    svg = svg
    Workers = {w1, w2}
    Requests = {r1}
    Styles = {style}
    Formats = {png}
    MetaSize = 2
    Resolve <- ResolveOneFormat
    NoData <- NoDataAt2
    PNG = png
    PrerenderLevel = 2
    MaxQueue = 1
    MaxLoads = 1
    NoRequest = NoRequest
    NoMeta = NoMeta
    Malformed = Malformed
    UnknownFormat = UnknownFormat
PROPERTIES
    ServiceAnswers
    PrerenderCovers
