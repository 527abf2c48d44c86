\* Safety of the queues, the factories and the running list.
SPECIFICATION Spec
CONSTANTS
    w1 = w1
    w2 = w2
    w3 = w3
    r1 = r1
    r2 = r2
    r3 = r3
    style = style
    png = png
    svg = svg
    Workers = {w1, w2}
    Requests = {r1, r2, r3}
    Styles = {style}
    Formats = {png}
    MetaSize = 4
    Resolve <- ResolveOneFormat
    NoData <- NoDataAt1
    PNG = png
    PrerenderLevel = 2
    MaxQueue = 2
    MaxLoads = 2
    NoRequest = NoRequest
    NoMeta = NoMeta
    Malformed = Malformed
    UnknownFormat = UnknownFormat
SYMMETRY WorkerSymmetry
INVARIANTS
    TypeOK
    NoIdleHandler
    FactoriesSafe
    OneHolder
    DeliverAnswersAll
    UserJobsJoin
    EndIsReported
PROPERTY ServiceSpec
