SPECIFICATION DesktopSpec
CONSTANTS
    w = w
    a1 = a1
    a2 = a2
    p = p
    s1 = s1
    c1 = c1
    c2 = c2
    e1 = e1
    b1 = b1
    d1 = d1
    w1 = w1
    TurnCalls <- MCTurnCalls
    TurnTool <- MCTurnTool
    TurnPolicies = {"approve_writes", "plan"}
    TurnRounds = 2
    TurnBatch = 2
    Window = 3
    Reserve = 1
    TurnFaults = 1
    ChatLimit = 3
    ChatBatch = 2
    ChatWindow = 4
    ChatReserve = 1
    Sends = {s1}
    Compactions = {c1, c2}
    PolicyEdits = {e1}
    WebTurns = {w1}
    Backfills = {b1}
    Deletions = {d1}
    Scenarios <- MCScenarios
    Recent = 1
    NoSession = NoSession
    SyncFaults = 1
    McpServers = {srv}
    McpTasks = {k1, k2}
    Versions = {0, 1, 2}
    Absent = Absent
    RpcRequests = {q1, q2, q3}
    RpcExtras = 1
    NoId = NoId
INVARIANTS DesktopTypeOK ChangesAllowed AskFits JobsSwept TrustInForce RequestsAnswered
PROPERTIES TurnsReturn EditsKept CompactionAdvances
CHECK_DEADLOCK FALSE
