SPECIFICATION FairSpec
CONSTANTS
    chat = chat
    job = job
    Commands <- NoRows
    Chats <- OneChat
    Jobs <- OneJob
    Slots = 1
    MaxFaults = 2
    MaxRestarts = 1
INVARIANTS TypeOK RunsOnce JobsBounded
PROPERTIES OnceEachHolds PickedUp SlotsComeBack
